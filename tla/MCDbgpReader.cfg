SPECIFICATION FairSpec
CONSTANT MaxPackets = 5
INVARIANTS TypeOK Framed
PROPERTIES Delivered ImplementsChannel
CHECK_DEADLOCK FALSE
