SPECIFICATION LiveSpec
CONSTANTS
  Posts = {1, 2, 3, 4}
  ScMaxBufferedPosts = 1
  ReadSizes = {1, 2}
  Workloads <- FittingWorkloads
INVARIANTS
  InOrder
  Accounted
  MemoryBound
  OverflowJustified
PROPERTIES
  CloseUnblocks
  AllDelivered
