SPECIFICATION Spec
CONSTANTS
  k1 = k1
  k2 = k2
  k3 = k3
  lunch = lunch
  rent = rent
  Keys <- MCKeys
  Wishes <- MCWishes
  None = None
  Garbage = Garbage
  MaxCalls = 4
INVARIANT DoubleEntryHasCause
PROPERTY ExactlyOncePerKey
SYMMETRY Alike
CHECK_DEADLOCK FALSE
