SPECIFICATION FairSpec
CONSTANTS
  p1 = p1
  p2 = p2
  p3 = p3
  Scripts = {p1, p2, p3}
  AnyPid = AnyPid
INVARIANTS TypeOK SuccessIsComplete OnlyTheTarget
PROPERTY Terminates
CHECK_DEADLOCK FALSE
