SPECIFICATION Spec
CONSTANTS
  BufferFrames = 2
  MaxRecords = 2
  MaxFaults = 1
  MaxStops = 1
  MaxSegments = 2
INVARIANTS LatePromiseIsSafe
CHECK_DEADLOCK FALSE
