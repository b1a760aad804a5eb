SPECIFICATION Spec
CONSTANTS
  k1 = k1
  k2 = k2
  k3 = k3
  lunch = lunch
  rent = rent
  Keys = {k1, k2}
  Wishes = {lunch}
  None = None
  Garbage = Garbage
  MaxCalls = 3
INVARIANT NothingEnteredTwice
CHECK_DEADLOCK FALSE
