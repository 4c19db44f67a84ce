SPECIFICATION Spec
CONSTANT
  Families <- ZeroPad
INVARIANTS
  FailsFast
CHECK_DEADLOCK FALSE
