SPECIFICATION Spec
CONSTANTS
  Segment = {"s", "x", "y", "f", "g"}
  Object <- MCObject
  Writer = {"flusher", "compactor"}
  MaxFaults = 0
  MaxStops = 1
INVARIANTS CommitIsDurable
CHECK_DEADLOCK FALSE
