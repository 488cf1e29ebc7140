CONSTANTS
  s1 = s1
  s2 = s2
  None = None
  SSRCs <- MCSSRCs
  ReapPeriod = 2
  Intervals <- MCIntervals
  InitialIntervals <- MCInitialIntervals
  MaxByes = 2
  MaxSetback = 1
SPECIFICATION FairSpec
INVARIANTS
  TypeOK
  OneReportTimer
PROPERTIES
  ReportsSpaced
  ByeHeeded
  SilentMembersForgotten
CHECK_DEADLOCK FALSE
