CONSTANTS
  Parts = {"stream"}
  StreamPrograms <- WithWaitingPop
  None = None  Null = Null
  u0 = u0  u1 = u1  u2 = u2  u3 = u3  k1 = k1  x1 = x1
  s0 = s0  s1 = s1  s2 = s2  p1 = p1  p2 = p2  e1 = e1  e2 = e2
  y0 = y0  y1 = y1  y2 = y2  y3 = y3
  q0 = q0  q1 = q1  q2 = q2  q3 = q3  q4 = q4
  t1 = t1  t2 = t2  mtx = mtx  cnd = cnd  onc = onc
SPECIFICATION Spec
\* The programs end.
CHECK_DEADLOCK FALSE
INVARIANT
  JoinDrains
