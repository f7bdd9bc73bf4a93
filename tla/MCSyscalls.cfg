CONSTANTS
  Parts = {"tramp", "hook", "ring"}
  Ult = {u1, u2}  Null = Null  IOURING_DEPTH = 2  Calls = 3
  MaxFaults = 2  Faults = {"fail", "refuse", "signal"}
  Nr <- PatternNr
  NoFd = NoFd  NoData = NoData  r1 = r1  r2 = r2  d0 = d0
SPECIFICATION MCSpec
\* A call ends.
CHECK_DEADLOCK FALSE
INVARIANTS
  CallIntact
  

  
