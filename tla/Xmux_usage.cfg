SPECIFICATION Spec
CONSTANTS
  Sessions = {s1, s2}
  Packet = TRUE
  Concurrency = 2
  Connections = 1
  ReuseTimes = {0, 2}
  RequestTimes = {2}
  Timed = TRUE
  PostBudget = 1
  MaxClients = 4
INVARIANTS
  UsageIsSessions
CHECK_DEADLOCK FALSE
SYMMETRY Symmetry
