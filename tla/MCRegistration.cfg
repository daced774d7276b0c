SPECIFICATION FairSpec
CONSTANTS
  c1 = c1
  c2 = c2
  c3 = c3
  NoConnection = NoConnection
  Clients = {c1, c2, c3}
  Options <- Contended
  Keys <- AllKeys
  Numerals = {"1", "9003"}
  ForceAdd = FALSE
  MaxDrops = 1
INVARIANTS TypeOK RepliesAddUp VerdictIsReal Understood
PROPERTY RequestEnds
CHECK_DEADLOCK FALSE
