SPECIFICATION Spec
CONSTANT
  Families <- PadKey
INVARIANTS
  FailsFast
CHECK_DEADLOCK FALSE
