----------------------------- MODULE ExactlyOnce -----------------------------
(***************************************************************************)
(* What the ledger promises for an Idempotency-Key: whatever is sent under *)
(* it, and however often, at most one row is ever entered, a row that was  *)
(* deleted does not come back, and every confirmation names that row.      *)
(***************************************************************************)
CONSTANTS Keys, Rows, None

VARIABLES
  entered,  \* entered[k]: the row that was entered under key k
  live,     \* the rows that are in the ledger
  told      \* told[k]: the row the client was told of

vars == <<entered, live, told>>

Init ==
  /\ entered = [k \in Keys |-> None]
  /\ live = {}
  /\ told = [k \in Keys |-> None]

Enter(k, r) ==
  /\ entered[k] = None
  /\ \A j \in Keys : entered[j] # r
  /\ entered' = [entered EXCEPT ![k] = r]
  /\ live' = live \cup {r}
  /\ UNCHANGED told

Delete(r) ==
  /\ r \in live
  /\ live' = live \ {r}
  /\ UNCHANGED <<entered, told>>

Confirm(k) ==
  /\ entered[k] # None
  /\ told' = [told EXCEPT ![k] = entered[k]]
  /\ UNCHANGED <<entered, live>>

Next ==
  \/ \E k \in Keys, r \in Rows : Enter(k, r)
  \/ \E r \in Rows : Delete(r)
  \/ \E k \in Keys : Confirm(k)

Spec == Init /\ [][Next]_vars
=============================================================================
