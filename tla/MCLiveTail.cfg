SPECIFICATION FairSpec
CONSTANTS
  Stream = {"a", "b"}
  All = "all"
  Conn = {"c"}
  QueueSize = 2
  RingSize = 2
  OldRecords = 3
  MaxSeq = 3
  MaxOpens = 1
INVARIANTS TypeOK RingIsNewest ShownOnce LossIsCounted
PROPERTIES TailsSettle CloseEndsTails
CHECK_DEADLOCK FALSE
