---------------------------- MODULE MCLedgerCreate ---------------------------
(***************************************************************************)
(* The instance of LedgerCreate that TLC checks: keys are alike, and so    *)
(* are the entries the user wants to make.                                 *)
(***************************************************************************)
EXTENDS LedgerCreate, TLC

CONSTANTS k1, k2, k3, lunch, rent

MCKeys == {k1, k2, k3}
MCWishes == {lunch, rent}
Alike == Permutations(MCKeys) \cup Permutations(MCWishes)
=============================================================================
