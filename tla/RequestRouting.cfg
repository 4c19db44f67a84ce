SPECIFICATION Spec
CONSTANT
  Families <- MCFamilies
INVARIANTS
  RoutedAsMeant
  ValidOptionsWork
CHECK_DEADLOCK FALSE
