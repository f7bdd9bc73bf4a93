CONSTANTS
  Parts = {"sync", "stencil", "programs", "deque"}
  u1 = u1  u2 = u2  x1 = x1  x2 = x2
  c1 = c1  c2 = c2  c3 = c3  Null = Null
  ULT <- MCULT
  Ext <- MCExt
  None = None
  Team <- MCTeam
  Roles <- MCRoles
  Rounds <- MCRounds
SPECIFICATION MCSpec
\* The programs end.
CHECK_DEADLOCK FALSE
INVARIANTS
  PromisesKept
  ProgramsComplete
PROPERTIES
  WakeupsAreReal
  EverythingEnds
