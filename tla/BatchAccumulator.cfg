SPECIFICATION FairSpec
CONSTANTS
  Writers = {w1, w2, w3}
  Batch = 2
  WriteSizes = {0, 1, 3}
  Errors = {"post"}
  WriteBudget = 4
INVARIANTS
  Fifo
  Bounded
  NoLostWakeup
PROPERTIES
  AcceptedIsDrained
