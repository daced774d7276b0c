SPECIFICATION Spec
CONSTANTS
  e1 = e1
  e2 = e2
  k1 = k1
  k2 = k2
  NoConnection = NoConnection
  Engines = {e1, e2}
  Keys = {k1, k2}
  EngineKey <- SameKey
  Cloud = FALSE
  Streams = FALSE
  ForceAdd = FALSE
  MaxSid = 2
  MaxPackets = 2
  MaxWire = 1
SYMMETRY Symmetry
CHECK_DEADLOCK FALSE
INVARIANTS TypeOK CopierConfined RouteByKey FailedIDEGone
PROPERTIES NoTakeover ImplementsRouting
