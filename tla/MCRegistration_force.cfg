SPECIFICATION Spec
CONSTANTS
  c1 = c1
  c2 = c2
  c3 = c3
  NoConnection = NoConnection
  Clients = {c1, c2}
  Options <- OneKey
  Keys <- AllKeys
  Numerals = {"1", "9003"}
  ForceAdd = TRUE
  MaxDrops = 0
INVARIANT RepliesAddUp
CHECK_DEADLOCK FALSE
