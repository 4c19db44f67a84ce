SPECIFICATION DialSpec
CONSTANT
  Held = TRUE
INVARIANTS
  OneOwner
  EndKeepsDownload
PROPERTIES
  CallsUnblocked
  TornDown
CHECK_DEADLOCK FALSE
