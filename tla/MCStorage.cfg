CONSTANTS
  Parts = {"shared", "data", "split"}
  Ult = {u1, u2}  Fd = {f1}  NoFd = NoFd
  Req = {r1, r2, r3}  Lba <- Lbas
  Data = {d0, d1}  NoData = NoData  d0 = d0
  READ_DEG = 2  WRITE_DEG = 2  MaxLen = 3  Sparse = FALSE
SYMMETRY Symmetry
SPECIFICATION MCSpec
\* A call of IoSplit ends.
CHECK_DEADLOCK FALSE
INVARIANTS
  
  OnlyLastUnpolled
  ReadDelivers
  NoAssertFailure
  RequestsRight
