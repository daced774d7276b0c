SPECIFICATION FairSpec
CONSTANTS
  e1 = e1
  e2 = e2
  k1 = k1
  k2 = k2
  NoConnection = NoConnection
  Engines = {e1}
  Keys = {k1}
  EngineKey <- SameKey
  Cloud = TRUE
  Streams = TRUE
  ForceAdd = FALSE
  MaxSid = 1
  MaxPackets = 5
  MaxWire = 2
PROPERTIES ForwardsOwnSession ImplementsHandler OrphanReleased HandlerEnds InterruptHeeded
CHECK_DEADLOCK FALSE
