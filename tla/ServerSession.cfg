SPECIFICATION ServerSpec
CONSTANTS
  Gets = {g1, g2}
  Streams = {s1}
  Packets = {p1, p2}
  Ones = {o1, o2}
  Mixes = {{g1, s1}, {g2, p1}, {p1, p2}, {s1, p1}, {o1}, {o2}}
  None = None
  maxBufferedPosts = 1
  Blocking = {g1, o1}
  Heartbeats = TRUE
INVARIANTS
  BodyReleased
  NoWriteAfterReturn
  LiveSessionMapped
PROPERTIES
  Released
CHECK_DEADLOCK FALSE
