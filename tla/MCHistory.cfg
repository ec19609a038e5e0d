SPECIFICATION Spec
CONSTANTS
  Key = {1, 2, 3}
  Folded <- MCFolded
  MaxColumns = 2
  Menu <- MCMenu
  MaxLines = 3
  MaxBatch = 2
  MaxNow = 2
  LastLevel = 2
  DropRawAfter = 1
  DownsampleAfter = 1
  MinLevelAfter = 40
INVARIANTS HistoryIsLive RewrittenOnce
CHECK_DEADLOCK FALSE
