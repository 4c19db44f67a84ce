SPECIFICATION Spec
CONSTANT
  Families <- RealityDefault
INVARIANTS
  EmptyModeAcceptsAll
CHECK_DEADLOCK FALSE
