SPECIFICATION Spec
CONSTANTS
  e1 = e1
  e2 = e2
  k1 = k1
  k2 = k2
  NoConnection = NoConnection
  Engines = {e1}
  Keys = {k1}
  EngineKey <- SameKey
  Cloud = TRUE
  Streams = FALSE
  ForceAdd = FALSE
  MaxSid = 1
  MaxPackets = 4
  MaxWire = 1
INVARIANT NextInitStillReadable
CHECK_DEADLOCK FALSE
