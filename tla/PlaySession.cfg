CONSTANTS
  N = 3
  RtpSubs <- MCRtpSubs
SPECIFICATION FairSpec
INVARIANTS
  TypeOK
  SinkPointersExact
  ReadersAreLive
  AnswersMeetTheirRequest
  LastSinkShutsDown
PROPERTIES
  StopEndsThread
  ImplementsLifecycle
