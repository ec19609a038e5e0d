SPECIFICATION FairSpec
CONSTANTS
  Lines = 2
  Blanks <- MCBlanks
  MaxConns = 1
  Sender = {"a", "b"}
  MaxTail = 2
  MaxFaults = 1
  MaxStarts = 2
INVARIANTS UploadsResume ClosedKeepsAll
PROPERTIES ConnectionsAreServed ShutdownEnds
CHECK_DEADLOCK FALSE
