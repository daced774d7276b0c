SPECIFICATION FairSpec
CONSTANTS
  l1 = l1
  l2 = l2
  l3 = l3
  s1 = s1
  s2 = s2
  NoConnection = NoConnection
  ForceAdd = FALSE
  Numerals = {"1", "9003"}
  Keys = {"u"}
  Links = {l1, l2, l3}
  Sessions = {s1, s2}
  MaxSid = 3
INVARIANTS TypeOK NoStuckClaim
CHECK_DEADLOCK FALSE
PROPERTIES RemovalSeesClaim RemovalHeeded
