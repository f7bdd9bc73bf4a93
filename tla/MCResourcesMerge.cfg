CONSTANTS
  Parts = {"mem"}
  MemSetups <- Merging
  Careful = TRUE
  Worker = {w1, w2, w3}  Null = Null  Locked = Locked  Table = Table
  Value = {"a", "b", "c", "d", "m1", "m2"}  Size = 2  MigKey = 1  Fit = 2
  Setups <- KeySetups
  None = None
  u1 = u1  u2 = u2  g1 = g1  g2 = g2  g3 = g3  w1 = w1  w2 = w2  w3 = w3
  p1 = p1  s0 = s0  s1 = s1  s2 = s2  t1 = t1  x0 = x0  x1 = x1
SPECIFICATION MCSpec
\* The calls of a behaviour are bounded.
CHECK_DEADLOCK FALSE
INVARIANT
  PartialCounted
