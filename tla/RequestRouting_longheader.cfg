SPECIFICATION Spec
CONSTANT
  Families <- LongHeader
INVARIANTS
  FailsFast
CHECK_DEADLOCK FALSE
