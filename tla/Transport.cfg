SPECIFICATION TransportSpec
CONSTANTS
  Reqs = {r1, r2, r3}
  Statuses = {200, 500}
  OK = 200
  None = None
  Streams = {1, 2}
  FrameSizes = {2, 3}
  DefaultSize = 2
  Blocks = {1, 3}
  MaxFrames = 4
  MaxAnswers = 2
INVARIANTS
  PooledIsIdle
  ErrorIsOwn
  RepeatIsForced
  Transparent
  FrameSizeHonoured
  TableExact
  ParentIsOpen
PROPERTIES
  AnswerIsOwn
  SendReturns
CHECK_DEADLOCK FALSE
