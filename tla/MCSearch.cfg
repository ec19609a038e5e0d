SPECIFICATION FairSpec
CONSTANTS
  Client = {"list", "chart"}
  Asks <- MCAsks
  Concurrency = 1
  DefaultLimit = 2
  MaxRows = 1
  Asked = {0, 9}
  Window = 0
  Grace = 1
  Field = {"f", "odd"}
  Odd = {"odd"}
  BatchSize = 1
  MaxSeq = 2
  MaxFiles = 3
  MaxNow = 1
  MaxRequests <- MCMaxRequests
INVARIANTS PermitsComeBack PagesPartition FailuresHaveCauses
PROPERTY RequestsEnd
CHECK_DEADLOCK FALSE
