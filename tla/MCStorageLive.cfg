SPECIFICATION FairSpec
CONSTANTS
  Record <- MCRecord
  MaxSeq = 1
  StreamNames = {1}
  Times = {1}
  MaxFaults = 1
  MaxStops = 1
  MaxFiles = 2
  StopFiles = 9
  UnreadableSegs = TRUE
  Retention = FALSE
  ClusterBy = FALSE
INVARIANTS NoSegmentForgotten
PROPERTIES AckedIsQueryable DeclarationsSettle TombstonesGo
CHECK_DEADLOCK FALSE
