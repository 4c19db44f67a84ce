SPECIFICATION Spec
CONSTANT
  Families <- HexIDs
INVARIANTS
  FailsFast
CHECK_DEADLOCK FALSE
