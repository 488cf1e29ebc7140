CONSTANTS
  M = 8
  Window = 4
  Shapes <- MCFragmentsOnly
  MaxId = 12
  MaxChanges = 1
SPECIFICATION Spec
INVARIANT HeadNotPassed
CHECK_DEADLOCK FALSE
