SPECIFICATION Spec
CONSTANT
  Families <- StreamByGet
INVARIANTS
  FailsFast
CHECK_DEADLOCK FALSE
