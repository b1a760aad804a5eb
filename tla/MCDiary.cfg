CONSTANTS
    s1 = s1
    s2 = s2
    u1 = u1
    u2 = u2
    u3 = u3
    k1 = k1
    b1 = b1
    b2 = b2
    g1 = g1
    Sessions = {s1, s2}
    Unlocks = {u1, u2, u3}
    Locks = {k1}
    Bodies = {b1, b2}
    Grants = {g1}
    SessionOf <- TwoSessions
    None = None

SPECIFICATION Spec

INVARIANT DiaryInv
INVARIANT LockIsFinal
INVARIANT LeaseKeepsKey
INVARIANT KeyIsTheDiarys
INVARIANT NoKeyLeftBehind
INVARIANT NobodyWaitsInVain

SYMMETRY Alike

CHECK_DEADLOCK FALSE
