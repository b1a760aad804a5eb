---------------------------- MODULE MCDiaryAccess ----------------------------
(***************************************************************************)
(* Two sessions that share the configuration and present each other's      *)
(* capabilities: two setups or unlocks, a lock or logout and two body      *)
(* operations in the first, a setup or unlock in the second.               *)
(***************************************************************************)
EXTENDS DiaryAccess, TLC

CONSTANTS s1, s2, u1, u2, u3, k1, b1, b2, g1

TwoSessions == [r \in Unlocks \cup Locks \cup Bodies |-> IF r = u3 THEN s2 ELSE s1]

\* The two unlocks of the first session are alike, and so are the bodies.
Alike == Permutations({u1, u2}) \cup Permutations({b1, b2})
=============================================================================
