CONSTANTS
  Parts = {"tool", "pool", "prof", "atomic"}
  Writer = {wr1, wr2}  Reader = {1}  Register <- Registrations
  Event = {ev1, ev2}  Callback = {fn1, fn2}  Argument = {arg1, arg2, Null}
  TagSize = 8  Null = Null
  wr1 = wr1  wr2 = wr2  fn1 = fn1  fn2 = fn2  arg1 = arg1  arg2 = arg2  ev1 = ev1  ev2 = ev2
  w1 = w1  w2 = w2  w3 = w3  t1 = t1  t2 = t2  t3 = t3  h1 = h1  h2 = h2  pA = pA  pB = pB
  u1 = u1  u2 = u2  x1 = x1  a1 = a1  a2 = a2  a3 = a3
SYMMETRY Perms
SPECIFICATION MCSpec
\* The calls and events of a behaviour are bounded.
CHECK_DEADLOCK FALSE
INVARIANTS
  CallbackWhole
  PoolSound
  
  
PROPERTIES
  ImplementsPool
