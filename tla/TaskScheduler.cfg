CONSTANTS
  MaxSockets = 3
  Conditions <- MCConditions
  MaxTriggers = 3
  MaxChanges = 5
SPECIFICATION FairSpec
INVARIANTS
  TypeOK
  SelectSeesEveryHandler
PROPERTIES
  NotOvertakenTwice
  ReadySocketHandled
  TriggeredEventHandled
