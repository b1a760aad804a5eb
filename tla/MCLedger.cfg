SPECIFICATION Spec
CONSTANTS
  a1 = a1
  a2 = a2
  mine = mine
  b1 = b1
  b2 = b2
  Accounts <- MCAccounts
  Own = {mine}
  Bases <- MCBases
  Days = {1}
  Picks = {mine}
  Targets = {0}
  Amounts = {2}
  Fees <- MCFees
  Openings <- MCOpenings
  None = None
  Keep = Keep
  MaxRows = 3
INVARIANTS LedgerInv ArchivedIsZero GroupComplete AskedIsMoved NetWorthIsEarned
SYMMETRY Alike
CHECK_DEADLOCK FALSE
