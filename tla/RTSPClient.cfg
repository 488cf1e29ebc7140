CONSTANTS
  MaxRequests = 5
  MaxCSeq = 8
  Pipeline = 3
SPECIFICATION FairSpec
INVARIANTS
  TypeOK
  HandledOnce
  QueuesHaveConnection
  AnswersOwnRequest
PROPERTIES
  ImplementsService
CHECK_DEADLOCK FALSE
