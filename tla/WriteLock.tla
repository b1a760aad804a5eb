------------------------------ MODULE WriteLock ------------------------------
(***************************************************************************)
(* The in-process write locks of the Nuvyn server.                         *)
(*                                                                         *)
(* server/documentWriteLock.ts keeps, for every lock key, the tail of a    *)
(* chain of promises (internalWriteTails).  An operation that wants a key  *)
(* reads the tail, puts its own tail in the map, awaits the one it read    *)
(* and, once it has run, resolves its own and deletes the map entry if it  *)
(* is still the last one.  server/vaultMutation.ts uses the same chain for *)
(* the whole-vault coordinator.  An operation nests the acquisitions of    *)
(* its footprint in one global order: vault coordinator, structure lock,   *)
(* document locks sorted by path.                                          *)
(*                                                                         *)
(* A key is a natural number, its place in that global order.  A tail      *)
(* promise is named by the operation that made it: an operation asks for a *)
(* key once, so the name is unique.  A tail resolves when its operation    *)
(* has released the key: an operation only runs, and so only releases,     *)
(* after the tail it awaited has resolved.                                 *)
(***************************************************************************)
EXTENDS Integers, FiniteSets

CONSTANTS Ops,        \* the write operations (requests, AI tool calls, jobs)
          Keys,       \* lock keys, ordered as the code acquires them
          Footprint,  \* Footprint[o]: the keys operation o nests
          None        \* no map entry / an already resolved promise

ASSUME OpsAssumption == IsFiniteSet(Ops)
ASSUME KeysAssumption == Keys \subseteq Nat
ASSUME FootprintAssumption == Footprint \in [Ops -> SUBSET Keys]
ASSUME NoneAssumption == None \notin Ops

VARIABLES
  tails,     \* internalWriteTails / mutationTails: key -> last tail, or None
  previous,  \* previous[o][k]: the tail o awaits for k, None if it found none
  waiters,   \* internalWriteWaiters: operations queued behind each key
  status,    \* status[o][k]: how far o is with k
  earlier    \* history: earlier[o][k], the operations that asked for k before o

lockVars == <<tails, previous, waiters, status, earlier>>

Status == {"unrequested", "waiting", "held", "released"}

LockTypeOK ==
  /\ tails \in [Keys -> Ops \cup {None}]
  /\ previous \in [Ops -> [Keys -> Ops \cup {None}]]
  /\ waiters \in [Keys -> Int]
  /\ status \in [Ops -> [Keys -> Status]]
  /\ earlier \in [Ops -> [Keys -> SUBSET Ops]]

LockInit ==
  /\ tails = [k \in Keys |-> None]
  /\ previous = [o \in Ops |-> [k \in Keys |-> None]]
  /\ waiters = [k \in Keys |-> 0]
  /\ status = [o \in Ops |-> [k \in Keys |-> "unrequested"]]
  /\ earlier = [o \in Ops |-> [k \in Keys |-> {}]]

-----------------------------------------------------------------------------
(* mutant: the paths of a footprint are taken in the caller's order *)
NestingUnordered(o, k) ==
  \A j \in Footprint[o] : j # k => status[o][j] \in {"unrequested", "held"}

(* withDocumentWriteLocks wraps the operation from the last path of the    *)
(* sorted footprint to the first, so a key is asked for when every smaller *)
(* key of the footprint is held.                                           *)
NestingReached(o, k) ==
  \A j \in Footprint[o] : j < k => status[o][j] = "held"

(* A waiter is counted only behind an existing entry of the table. *)
WaitersOnEntry(k) == IF tails[k] # None THEN waiters[k] + 1 ELSE waiters[k]

(* The synchronous part of withInternalWriteLock, up to its first await. *)
Enter(o, k) ==
  /\ k \in Footprint[o]
  /\ status[o][k] = "unrequested"
  /\ NestingReached(o, k)
  /\ previous' = [previous EXCEPT ![o][k] = tails[k]]
  /\ waiters' = [waiters EXCEPT ![k] = WaitersOnEntry(k)]
  /\ tails' = [tails EXCEPT ![k] = o]
  /\ status' = [status EXCEPT ![o][k] = "waiting"]
  /\ earlier' = [earlier EXCEPT ![o][k] = {p \in Ops : status[p][k] # "unrequested"}]

(* mutant: the awaited operation need only have started *)
ResolvedWhenRunning(o, k) ==
  previous[o][k] # None => status[previous[o][k]][k] # "waiting"

(* The tail an operation awaits for k has resolved. *)
Resolved(o, k) ==
  previous[o][k] # None => status[previous[o][k]][k] = "released"

(* The awaited tail has resolved: leave the count of waiters and go on     *)
(* with the next key of the nest, or with the operation itself.            *)
Acquire(o, k) ==
  /\ status[o][k] = "waiting"
  /\ Resolved(o, k)
  /\ waiters' = [waiters EXCEPT ![k] = IF previous[o][k] # None THEN @ - 1 ELSE @]
  /\ status' = [status EXCEPT ![o][k] = "held"]
  /\ UNCHANGED <<tails, previous, earlier>>

(* mutant: the entry is never deleted *)
TailNeverDeleted(o, k) == tails[k]

(* The finally block deletes the table's entry only when it is its own. *)
TailAfterRelease(o, k) == IF tails[k] = o THEN None ELSE tails[k]

(* The finally block, run whether the operation returned or threw: resolve *)
(* the own promise, then clean the table.  Nested calls unwind from the    *)
(* last key to the first.                                                  *)
Release(o, k) ==
  /\ status[o][k] = "held"
  /\ \A j \in Footprint[o] : j > k => status[o][j] = "released"
  /\ status' = [status EXCEPT ![o][k] = "released"]
  /\ tails' = [tails EXCEPT ![k] = TailAfterRelease(o, k)]
  /\ UNCHANGED <<previous, waiters, earlier>>

LockNext ==
  \E o \in Ops, k \in Keys : Enter(o, k) \/ Acquire(o, k) \/ Release(o, k)

LockSpec == LockInit /\ [][LockNext]_lockVars

(* A promise continuation runs once its promise has resolved and a locked  *)
(* operation returns or throws, so no step stays enabled for ever.         *)
LockFairness ==
  \A o \in Ops, k \in Keys : WF_lockVars(Enter(o, k) \/ Acquire(o, k) \/ Release(o, k))

FairLockSpec == LockSpec /\ LockFairness

-----------------------------------------------------------------------------
Requested(o, k) == status[o][k] # "unrequested"
Active(o, k) == status[o][k] \in {"waiting", "held"}
Behind(k) == {o \in Ops : status[o][k] = "waiting" /\ previous[o][k] # None}

(* At most one operation is between the acquisition and the release of a   *)
(* key, in whatever order operations queue, run and fail: the chain of     *)
(* tails in withInternalWriteLock serialises the writers of a path.        *)
MutualExclusion ==
  \A k \in Keys : \A o, p \in Ops :
    status[o][k] = "held" /\ status[p][k] = "held" => o = p

(* A key is granted in the order it was asked for: an operation that has   *)
(* been granted k finds every operation that asked before it finished, so  *)
(* a save never runs before an older save of the same document.            *)
GrantedInOrder ==
  \A o \in Ops, k \in Keys :
    status[o][k] \in {"held", "released"} =>
      \A p \in earlier[o][k] : status[p][k] = "released"

(* The two maps hold what is in use and no more.  The lock table has an    *)
(* entry for exactly the keys in use: the delete in the finally block      *)
(* never drops an entry somebody queued behind, and leaves none when the   *)
(* last operation is through.  internalWriteWaiters counts the operations  *)
(* queued behind another one: every increment on entry meets exactly one   *)
(* decrement on acquisition.                                               *)
TableIsExact ==
  \A k \in Keys :
    /\ (tails[k] # None) <=> (\E o \in Ops : Active(o, k))
    /\ waiters[k] = Cardinality(Behind(k))

(* Operations with overlapping footprints never wait for each other in a   *)
(* circle: each gets, uses and gives back every key of its footprint.      *)
EveryOperationFinishes ==
  \A o \in Ops : <>(\A k \in Footprint[o] : status[o][k] = "released")

-----------------------------------------------------------------------------
(* The parts of the inductive invariant.  Each is about one key; together  *)
(* they say that the tails form one chain in order of arrival.             *)

(* Two operations that asked for a key arrived in one order or the other. *)
ArrivalIsTotal ==
  \A k \in Keys : \A o, p \in Ops :
    Requested(o, k) /\ Requested(p, k) /\ o # p =>
      o \in earlier[p][k] \/ p \in earlier[o][k]

(* Nobody is said to have arrived who has not asked. *)
ArrivalIsRequested ==
  \A k \in Keys : \A o \in Ops : \A p \in earlier[o][k] : Requested(p, k)

(* The entry of the table is the last operation to have asked. *)
TailIsLast ==
  \A k \in Keys :
    /\ tails[k] = None => \A o \in Ops : ~Active(o, k)
    /\ tails[k] # None =>
         /\ Active(tails[k], k)
         /\ \A o \in Ops : Requested(o, k) /\ o # tails[k] => o \in earlier[tails[k]][k]

(* An operation awaits the one that arrived just before it, or nobody when *)
(* all before it were through.                                             *)
PreviousIsJustBefore ==
  \A k \in Keys : \A o \in Ops :
    Requested(o, k) =>
      IF previous[o][k] = None
        THEN \A p \in earlier[o][k] : status[p][k] = "released"
        ELSE earlier[o][k] \subseteq earlier[previous[o][k]][k] \cup {previous[o][k]}

ChainInv ==
  /\ LockTypeOK
  /\ ArrivalIsTotal
  /\ ArrivalIsRequested
  /\ TailIsLast
  /\ PreviousIsJustBefore
  /\ GrantedInOrder

=============================================================================
