---------------------------- MODULE MCVaultWriter ----------------------------
(***************************************************************************)
(* Four starts of the server: three on one host and one on another, which  *)
(* has the pid of the first.  Three are enough to show what the second     *)
(* release of a signalled stop does.                                       *)
(***************************************************************************)
EXTENDS VaultWriter, TLC

CONSTANTS p1, p2, p3, p4

MCHostOf == [p \in Processes |-> IF p = p4 THEN "nas" ELSE "home"]
MCPidOf == [p \in Processes |-> IF p \in {p1, p4} THEN 7 ELSE IF p = p2 THEN 8 ELSE 9]

\* Pids are only compared, and these two are nobody else's.
Alike == Permutations({p2, p3})
=============================================================================
