SPECIFICATION Spec
CONSTANTS
  Record <- MCRecord
  MaxSeq = 2
  StreamNames = {1, 2}
  Times = {1}
  MaxFaults = 1
  MaxStops = 1
  MaxFiles = 3
  StopFiles = 9
  UnreadableSegs = FALSE
  Retention = FALSE
  ClusterBy = FALSE
INVARIANTS TypeOK NothingAckedIsLost NothingTwice SeqIsAhead FilesAreReadable NoObjectLeaks RollupsAddUp
CHECK_DEADLOCK FALSE
