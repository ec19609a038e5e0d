SPECIFICATION Spec
CONSTANTS
  Segment = {"s", "x", "y", "f", "g"}
  Object <- MCObject
  Writer = {"flusher", "compactor"}
  MaxFaults = 1
  MaxStops = 2
INVARIANTS TypeOK ObjectsAreWhole
PROPERTIES OnlyHasteLoses
CHECK_DEADLOCK FALSE
