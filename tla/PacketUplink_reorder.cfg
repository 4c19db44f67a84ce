SPECIFICATION Spec
CONSTANTS
  MaxEachPost = 2
  ScMaxBufferedPosts = 1
  WriteSizes = {1, 2}
  ReadSizes = {1}
  Transports = {"h2"}
  WriteBudget = 2
  MaxResend = 0
  Faults = {}
  MaxSeq = 1
INVARIANTS
  NeverReorders
