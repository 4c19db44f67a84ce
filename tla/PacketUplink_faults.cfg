SPECIFICATION Spec
CONSTANTS
  MaxEachPost = 2
  ScMaxBufferedPosts = 1
  WriteSizes = {2}
  ReadSizes = {1}
  Transports = {"h1", "h2"}
  WriteBudget = 2
  MaxResend = 1
  Faults = {"network", "caller", "server"}
  MaxSeq = 1
INVARIANTS
  PostErrorSurfaces
PROPERTIES
  EndToEnd
