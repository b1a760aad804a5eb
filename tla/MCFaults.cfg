SPECIFICATION FairSpec
CONSTANTS
  original = original
  saved = saved
  resaved = resaved
  edited = edited
  empty = empty
  None = None
  Base = original
  Empty = empty
  Saves <- MCSaves
  Edits <- MCEdits
  Callers <- AnyKind
  MaxOps = 2
  MaxExternal = 1
  MaxCrashes = 2
  MaxFaults = 1
INVARIANTS NeverOutOfReach RefusedStaysRefused
PROPERTY ServerSettles
CHECK_DEADLOCK FALSE
