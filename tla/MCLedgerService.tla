--------------------------- MODULE MCLedgerService ---------------------------
(***************************************************************************)
(* The instance of LedgerService that TLC checks.                          *)
(***************************************************************************)
EXTENDS LedgerService, TLC

CONSTANTS a1, a2, mine, b1, b2

MCAccounts == {a1, a2}
MCBases == {b1, b2}
MCFees == 0 .. 1
MCOpenings == {[balance |-> b, day |-> d] : b \in 0 .. 1, d \in 1 .. 2} \ {[balance |-> 1, day |-> 2]}
Alike == Permutations(MCAccounts) \cup Permutations(MCBases)
=============================================================================
