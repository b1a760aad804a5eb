SPECIFICATION Spec
CONSTANTS
  original = original
  saved = saved
  resaved = resaved
  edited = edited
  empty = empty
  None = None
  Base = original
  Empty = empty
  Saves <- MCTwoSaves
  Edits <- MCEdits
  Callers <- Replacing
  MaxOps = 2
  MaxExternal = 2
  MaxCrashes = 2
  MaxFaults = 0
INVARIANTS StagedIsJournaled AllOldOrAllNew
PROPERTIES NoEditLost RecoveryIsIdempotent
SYMMETRY Alike
CHECK_DEADLOCK FALSE
