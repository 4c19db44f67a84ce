SPECIFICATION Spec
CONSTANTS
  Posts = {1, 2, 3, 4}
  ScMaxBufferedPosts = 2
  ReadSizes = {1}
  Workloads <- RepeatedWorkloads
INVARIANTS
  InOrder
