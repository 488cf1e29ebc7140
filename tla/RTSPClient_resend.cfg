CONSTANTS
  MaxRequests = 3
  MaxCSeq = 5
  Pipeline = 1
SPECIFICATION Spec
INVARIANT NoneTwice
CHECK_DEADLOCK FALSE
