SPECIFICATION FairSpec
CONSTANTS
  MaxSent = 6
  MaxSignals = 2
INVARIANTS TypeOK OneCommandAtATime NoMutualWait NumberedRight
PROPERTIES  DeadEngineNoticed
CHECK_DEADLOCK FALSE
