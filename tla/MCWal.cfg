SPECIFICATION FairSpec
CONSTANTS
  BufferFrames = 2
  MaxRecords = 3
  MaxFaults = 2
  MaxStops = 1
  MaxSegments = 3
INVARIANTS TypeOK SegmentHoldsBatch PromisedIsSafe PendingCounts TearIsKnown
PROPERTIES RotationSealsBatch ImplementsRecordLog AcceptedIsPromised
CHECK_DEADLOCK FALSE
