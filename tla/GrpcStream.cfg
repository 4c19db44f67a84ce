SPECIFICATION Spec
CONSTANTS
  Writers = {w1, w2}
  Bytes = 3
  Chunk = 2
  Backlog = 4
  ReadSizes = {1, 3}
  MaxHeartbeats = 1
  MaxFaults = 1
INVARIANTS
  InOrder
  CleanEnd
  StatusHonest
PROPERTIES
  CloseUnblocks
CHECK_DEADLOCK FALSE
