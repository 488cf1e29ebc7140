SPECIFICATION Spec
CONSTANT
  MaxSize = 2
INVARIANT
  FreedOnce
CHECK_DEADLOCK FALSE
