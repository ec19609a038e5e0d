SPECIFICATION Spec
CONSTANTS
  Record <- MCRecord
  MaxSeq = 2
  StreamNames = {1}
  Times = {1}
  MaxFaults = 0
  MaxStops = 1
  MaxFiles = 4
  StopFiles = 2
  UnreadableSegs = FALSE
  Retention = TRUE
  ClusterBy = TRUE
INVARIANTS NothingComesBack MergeNameIsNew
CHECK_DEADLOCK FALSE
