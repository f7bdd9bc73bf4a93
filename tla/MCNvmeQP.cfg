CONSTANTS
  Parts = {"full", "room"}
  QD = 2
  Req = {r1, r2}
  Lba = {l1}
  Data = {d0, d1}
  NoReq = NoReq
  r1 = r1  r2 = r2  l1 = l1  d0 = d0
SPECIFICATION MCSpec
\* Every request may have been left behind by write_impl: nobody polls.
CHECK_DEADLOCK FALSE
INVARIANTS
  IInv
  DoneMeansMine
  WriteIntegrity
PROPERTIES
  ImplementsBlockService
  DoneWithRoom
