CONSTANTS
  MaxPlays = 3
  MaxHasty = 2
  Sizes <- MCSizes
  MaxMsgs = 2
  Faults <- MCFaults
SPECIFICATION FairSpec
INVARIANTS
  TypeOK
  DecoderExclusive
  DisplayConsistent
  
  
  OneThreadPerLoop
PROPERTIES
  StopEndsPlayback
CHECK_DEADLOCK FALSE
