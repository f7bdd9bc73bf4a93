\* Two files of up to two blocks, three blocks in all.
CONSTANTS
  Parts = {"files", "crash", "busy"}
  Ult = {u1, u2}  NoUlt = NoUlt
  Name = {"a", "ab"}  NoName = "-"  PrefixOf <- Prefixes
  NUM_BLOCKS = 4  MYFS_MAX_FILES = 2  MYFS_MAX_BLOCKS_PER_FILE = 2
  RefMod = 4  Breaks = {}
SYMMETRY Symmetry
SPECIFICATION MCSpec
\* Every ULT may wait for a file that is open.
CHECK_DEADLOCK FALSE
INVARIANTS
  BlocksConserved
  
  
  NoAssertFailure
  
  BusyNeverDeadlocks
