SPECIFICATION H2Spec
CONSTANTS
  Streams = {1, 2, 3}
  FrameSizes = {2, 3}
  DefaultSize = 2
  Blocks = {1, 3}
  MaxFrames = 5
  MaxAnswers = 2
INVARIANTS
  Transparent
  FrameSizeHonoured
  TableExact
  ParentIsOpen
CHECK_DEADLOCK FALSE
