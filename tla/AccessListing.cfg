CONSTANTS
  r1 = r1
  r2 = r2
  None = None
  Email = {e1, e2}
  Person = {p1, p2}
  Token = {s1, s2}
  LoginFlow = {f1, f2}
  ConnectFlow = {c1, c2}
  Handler = {h1, h2}
  MaxToken = 3
  Repository = {r1, r2}
  PageSize = 1
  Snapshot <- MCSnapshot
  Plan = {"connections"}
  Client = {x1, x2}
  Limit = 2
  Window = 3
  Skew = 1
  MaxTick = 6
SPECIFICATION AccessSpec
SYMMETRY Symmetric
INVARIANTS ListIsFull
CHECK_DEADLOCK FALSE
