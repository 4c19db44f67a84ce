SPECIFICATION FairSpec
CONSTANTS
  MaxEachPost = 1
  ScMaxBufferedPosts = 1
  WriteSizes = {1}
  ReadSizes = {1}
  Transports = {"h2"}
  WriteBudget = 2
  MaxResend = 0
  Faults = {"caller"}
  MaxSeq = 1
PROPERTIES
  EventuallyDelivered
  NoGoroutineLeak
