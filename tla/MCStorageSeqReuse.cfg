SPECIFICATION Spec
CONSTANTS
  Record <- MCRecord
  MaxSeq = 2
  StreamNames = {1}
  Times = {1}
  MaxFaults = 1
  MaxStops = 2
  MaxFiles = 0
  StopFiles = 9
  UnreadableSegs = TRUE
  Retention = FALSE
  ClusterBy = FALSE
INVARIANTS SeqIsAhead
CHECK_DEADLOCK FALSE
