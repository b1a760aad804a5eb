SPECIFICATION FairLockSpec
CONSTANTS
  folderRename = folderRename
  fileMove = fileMove
  createVersion = createVersion
  save = save
  None = None
  Ops <- MCOps
  Keys <- MCKeys
  Footprint <- MCFootprint
INVARIANTS
  MutualExclusion
  GrantedInOrder
  TableIsExact
PROPERTY
  EveryOperationFinishes
\* every operation runs once and the system then rests
CHECK_DEADLOCK FALSE
