CONSTANTS
  Delays <- MCDelays
  MaxTime = 4
  MaxBack = 2
  MaxTasks = 3
SPECIFICATION FairSpec
INVARIANTS
  TypeOK
  TimersAccurate
PROPERTIES
  RunsInDueOrder
  DueTaskRuns
CHECK_DEADLOCK FALSE
