SPECIFICATION AccountsSpec
CONSTANTS
  c1 = c1
  c2 = c2
  p1 = p1
  p2 = p2
  Nil = Nil
  Uid = {1, 2}
  Account = {2}
  Client = {c1, c2}
  Password = {p1, p2}
  Knows <- OneSelfMade
  Worker = {w1, w2}
  MaxKeys = 2
  MaxEdits = 1
INVARIANTS AccountsTypeOK SessionIsOwn RegisteredWhenFree LoginWasGood SavedWasSaved RegisteredOpens
SYMMETRY Symmetric
CHECK_DEADLOCK FALSE
