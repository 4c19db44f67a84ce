SPECIFICATION Spec
CONSTANTS
  Posts = {1, 2, 3, 4}
  ScMaxBufferedPosts = 1
  ReadSizes = {1, 2}
  Workloads <- UniqueWorkloads
INVARIANTS
  HeldWithinLimit
