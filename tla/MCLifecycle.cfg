SPECIFICATION FairSpec
CONSTANTS
  text = text
  other = other
  None = None
  DocId = DocId
  NewId = NewId
  Bytes <- MCBytes
  Text = text
  MaxExternal = 2
  MaxCrashes = 2
INVARIANTS LifecycleInv RenameIsAtomic IdentityFollowsFile
PROPERTY Settles
CHECK_DEADLOCK FALSE
