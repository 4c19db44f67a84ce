SPECIFICATION Spec
CONSTANTS
  Sessions = {s1, s2, s3}
  Packet = FALSE
  Concurrency = 1
  Connections = 2
  ReuseTimes = {0, 2}
  RequestTimes = {0, 2}
  Timed = TRUE
  PostBudget = 0
  MaxClients = 3
INVARIANTS
  ConcurrencyLimit
CHECK_DEADLOCK FALSE
SYMMETRY Symmetry
