SPECIFICATION Spec
CONSTANT
  Families <- KeyCase
INVARIANTS
  FailsFast
CHECK_DEADLOCK FALSE
