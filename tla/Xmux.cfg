SPECIFICATION Spec
CONSTANTS
  Sessions = {s1, s2}
  Packet = TRUE
  Concurrency = 1
  Connections = 1
  ReuseTimes = {0, 1, 2}
  RequestTimes = {0, 2}
  Timed = TRUE
  PostBudget = 1
  MaxClients = 4
INVARIANTS
  ReuseLimit
  PooledIsOpen
PROPERTIES
  SpawnJustified
CHECK_DEADLOCK FALSE
SYMMETRY Symmetry
