----------------------------- MODULE DiaryAccess -----------------------------
(***************************************************************************)
(* Who may use the diary's key, and until when                             *)
(* (server/diaryAccess/service.ts).  setup and unlock wait for a password  *)
(* hash and then publish a capability that holds the key in memory; body   *)
(* operations lease it; lock, logout and expiry close the session to new   *)
(* leases, wait for the open ones and erase the key.  Code between two     *)
(* awaits is one step here; at each await any other request may run.       *)
(*                                                                         *)
(* A request is a member of Unlocks, Locks or Bodies and belongs to one    *)
(* session.  The capability an unlock publishes, and the buffer with its   *)
(* copy of the key, carry the name of that unlock.  A key is named after   *)
(* the setup that drew it.                                                 *)
(***************************************************************************)
EXTENDS Naturals, Sequences, FiniteSets

CONSTANTS Sessions,   \* authentication sessions
          Unlocks,    \* calls of setup and of unlock
          Locks,      \* calls of lock and of invalidateAuthSession by a logout
          Bodies,     \* calls of withBodyOperation
          Grants,     \* tokens of rememberDevice
          SessionOf   \* the session of each call

CONSTANT None

ASSUME SessionOfAssumption == SessionOf \in [Unlocks \cup Locks \cup Bodies -> Sessions]
ASSUME KindsAssumption == Unlocks \cap Locks = {}
ASSUME BodiesAssumption == IsFiniteSet(Bodies)
ASSUME NoneAssumption == None \notin Unlocks \cup Grants

VARIABLES config,      \* diary_access_config: the key it wraps, or None
          auth,        \* the sessions that are valid and not expired
          generation,  \* sessionLifecycleGenerations
          sequence,    \* sessionIssuanceSequences
          epoch,       \* sessionEpochs
          leases,      \* activeBodyOperations
          quiescence,  \* sessionQuiescences: the generation that began it, or 0
          drained,     \* the sessions whose quiescence has resolved drained
          line,        \* sessionIssuanceTails: the unlocks in line per session
          caps,        \* capabilities
          capEpoch,    \* the epoch of each capability
          key,         \* what each unlock's buffer holds, or None
          erased,      \* the buffers filled with zeros
          grant,       \* rememberedDevices: the capability behind each token
          hash,        \* rememberTokenHash of each capability
          unlock,      \* where each call of setup or unlock is
          ticket,      \* its CapabilityIssuance
          lock,        \* where each call of lock is
          fence,       \* the generation it began
          body,        \* where each body operation is
          lease,       \* the capability it leased
          waits,       \* the quiescence an unlock or a lock waits for
          lapsed       \* history: the capabilities whose timer dropped them

memory == <<epoch, caps, capEpoch, erased, grant, hash, lapsed>>
fences == <<generation, quiescence, drained>>
vars == <<config, auth, generation, sequence, epoch, leases, quiescence, drained, line, caps,
          capEpoch, key, erased, grant, hash, unlock, ticket, lock, fence, body, lease,
          waits, lapsed>>

Of(s) == {u \in Unlocks : SessionOf[u] = s}

-----------------------------------------------------------------------------
Init == /\ config = None
        /\ auth = Sessions
        /\ generation = [s \in Sessions |-> 0]
        /\ sequence = [s \in Sessions |-> 0]
        /\ epoch = [s \in Sessions |-> 0]
        /\ leases = [s \in Sessions |-> 0]
        /\ quiescence = [s \in Sessions |-> 0]
        /\ drained = {}
        /\ line = [s \in Sessions |-> <<>>]
        /\ caps = {}
        /\ capEpoch = [u \in Unlocks |-> 0]
        /\ key = [u \in Unlocks |-> None]
        /\ erased = {}
        /\ grant = [g \in Grants |-> None]
        /\ hash = [u \in Unlocks |-> None]
        /\ unlock = [u \in Unlocks |-> "idle"]
        /\ ticket = [u \in Unlocks |-> [generation |-> 0, sequence |-> 0]]
        /\ lock = [k \in Locks |-> "idle"]
        /\ fence = [k \in Locks |-> 0]
        /\ body = [b \in Bodies |-> "idle"]
        /\ lease = [b \in Bodies |-> None]
        /\ waits = [r \in Unlocks \cup Locks |-> 0]
        /\ lapsed = {}

-----------------------------------------------------------------------------
\* beginSessionInvalidation: a new generation, and the session's quiescence,
\* drained already when nothing is leased.
Invalidates(s) ==
    /\ generation' = [generation EXCEPT ![s] = @ + 1]
    /\ IF quiescence[s] = 0
       THEN /\ quiescence' = [quiescence EXCEPT ![s] = generation[s] + 1]
            /\ drained' = IF leases[s] = 0 THEN drained \cup {s} ELSE drained
       ELSE UNCHANGED <<quiescence, drained>>

\* requireCurrentAuthSession: a session found invalid is invalidated on the way
\* to the error.
AuthChecked(s) == IF s \in auth THEN UNCHANGED fences ELSE Invalidates(s)

\* finishQuiescence, for the first of those who wait: drop the session's
\* capabilities, erase their keys, move to the next epoch.
Finalize(s) ==
    /\ quiescence[s] # 0
    /\ s \in drained
    /\ caps' = caps \ Of(s)
    /\ erased' = erased \cup (caps \cap Of(s))
    /\ grant' = [g \in Grants |->
                   IF \E u \in caps \cap Of(s) : hash[u] = g THEN None ELSE grant[g]]
    /\ epoch' = [epoch EXCEPT ![s] = @ + 1]
    /\ quiescence' = [quiescence EXCEPT ![s] = 0]
    /\ drained' = drained \ {s}
    /\ UNCHANGED <<config, auth, generation, sequence, leases, line, capEpoch, key, hash,
                   unlock, ticket, lock, fence, body, lease, waits, lapsed>>

\* The other waiters go on once their quiescence is completed.
Completed(r) == quiescence[SessionOf[r]] # waits[r]

-----------------------------------------------------------------------------
\* The error path of setup and unlock without dek.fill(0).
FailsLeaking(u) == /\ unlock' = [unlock EXCEPT ![u] = "failed"]
                   /\ UNCHANGED memory

\* The error path of setup and unlock: the buffer is filled with zeros.
Fails(u) == /\ unlock' = [unlock EXCEPT ![u] = "failed"]
            /\ erased' = erased \cup {u}
            /\ UNCHANGED <<epoch, caps, capEpoch, grant, hash, lapsed>>

\* setup (without a configuration) or unlock (with one), up to the hash:
\* beginCapabilityIssuance hands out a ticket unless the session is closing.
Begin(u) ==
    LET s == SessionOf[u]
    IN /\ unlock[u] = "idle"
       /\ AuthChecked(s)
       /\ IF s \in auth /\ quiescence[s] = 0
          THEN /\ sequence' = [sequence EXCEPT ![s] = @ + 1]
               /\ ticket' = [ticket EXCEPT ![u] = [generation |-> generation[s],
                                                   sequence |-> sequence[s] + 1]]
               /\ key' = [key EXCEPT ![u] = IF config = None THEN u ELSE config]
               /\ unlock' = [unlock EXCEPT ![u] = IF config = None THEN "setup" ELSE "hashing"]
               /\ UNCHANGED memory
          ELSE /\ Fails(u)
               /\ UNCHANGED <<sequence, ticket, key>>
       /\ UNCHANGED <<config, auth, leases, line, lock, fence, body, lease, waits>>

\* A wrong password, a full queue, an aborted request.
HashFails(u) == /\ unlock[u] \in {"setup", "hashing"}
                /\ Fails(u)
                /\ UNCHANGED <<config, auth, fences, sequence, leases, line, key, ticket, lock,
                               fence, body, lease, waits>>

\* assertCapabilityIssuanceCurrent that compares the sequence only.
UnfencedTicket(u, g) ==
    LET s == SessionOf[u] IN quiescence[s] = 0 /\ sequence[s] = ticket[u].sequence

\* assertCapabilityIssuanceCurrent, but for the authentication session.
TicketCurrent(u, g) ==
    LET s == SessionOf[u]
    IN quiescence[s] = 0 /\ generation[s] = g /\ sequence[s] = ticket[u].sequence

\* ... which is looked at, and invalidated, only when the ticket is current.
Asserted(u, g) == TicketCurrent(u, g) /\ SessionOf[u] \in auth

AssertEffect(u, g) ==
    IF TicketCurrent(u, g) THEN AuthChecked(SessionOf[u]) ELSE UNCHANGED fences

Joins(u) == /\ line' = [line EXCEPT ![SessionOf[u]] = Append(@, u)]
            /\ unlock' = [unlock EXCEPT ![u] = "inline"]
            /\ UNCHANGED memory

\* The hash of an unlock is there: unwrap the key, get in line.
Unwrap(u) == /\ unlock[u] = "hashing"
             /\ Joins(u)
             /\ UNCHANGED <<config, auth, fences, sequence, leases, key, ticket, lock, fence, body,
                            lease, waits>>

\* setup stores its key without looking for one.
StoreOverwrites(u) ==
    LET g == ticket[u].generation
    IN /\ unlock[u] = "setup"
       /\ AssertEffect(u, g)
       /\ IF Asserted(u, g)
          THEN config' = u /\ Joins(u)
          ELSE Fails(u) /\ UNCHANGED <<config, line>>
       /\ UNCHANGED <<auth, sequence, leases, key, ticket, lock, fence, body, lease, waits>>

\* The hash of a setup is there: the ticket must be current, and the
\* transaction stores the wrapped key unless another setup was faster.
Store(u) ==
    LET g == ticket[u].generation
    IN /\ unlock[u] = "setup"
       /\ AssertEffect(u, g)
       /\ IF Asserted(u, g) /\ config = None
          THEN config' = u /\ Joins(u)
          ELSE Fails(u) /\ UNCHANGED <<config, line>>
       /\ UNCHANGED <<auth, sequence, leases, key, ticket, lock, fence, body, lease, waits>>

\* withIssuanceLock: one at a time, in the order of arrival.
InTurn(u) == line[SessionOf[u]] # <<>> /\ Head(line[SessionOf[u]]) = u

LeavesLine(u) == line' = [line EXCEPT ![SessionOf[u]] = Tail(@)]

\* A new epoch and a capability of that epoch, which scheduleCapabilityExpiry
\* drops again when its time has just run out.
Publishes(u) ==
    LET s == SessionOf[u]
    IN /\ epoch' = [epoch EXCEPT ![s] = @ + 1]
       /\ capEpoch' = [capEpoch EXCEPT ![u] = epoch[s] + 1]
       /\ unlock' = [unlock EXCEPT ![u] = "issued"]
       /\ \/ caps' = caps \cup {u} /\ UNCHANGED <<erased, lapsed>>
          \/ erased' = erased \cup {u} /\ lapsed' = lapsed \cup {u} /\ UNCHANGED caps
       /\ UNCHANGED <<grant, hash>>

\* issueCapability publishes beside the capability that is there.
TurnWithoutReplacement(u) ==
    LET g == ticket[u].generation
    IN /\ unlock[u] = "inline"
       /\ InTurn(u)
       /\ AssertEffect(u, g)
       /\ IF Asserted(u, g) THEN Publishes(u) ELSE Fails(u)
       /\ LeavesLine(u)
       /\ UNCHANGED <<config, auth, sequence, leases, key, ticket, lock, fence, body, lease, waits>>

\* issueCapability has its turn: publish at once, or begin to replace the
\* capability that is there and wait for its leases.
Turn(u) ==
    LET s == SessionOf[u]
        g == ticket[u].generation
    IN /\ unlock[u] = "inline"
       /\ InTurn(u)
       /\ \/ /\ ~Asserted(u, g)
             /\ AssertEffect(u, g)
             /\ Fails(u)
             /\ LeavesLine(u)
             /\ UNCHANGED waits
          \/ /\ Asserted(u, g)
             /\ caps \cap Of(s) = {}
             /\ Publishes(u)
             /\ LeavesLine(u)
             /\ UNCHANGED <<fences, waits>>
          \/ /\ Asserted(u, g)
             /\ caps \cap Of(s) # {}
             /\ Invalidates(s)
             /\ waits' = [waits EXCEPT ![u] = generation[s] + 1]
             /\ unlock' = [unlock EXCEPT ![u] = "draining"]
             /\ UNCHANGED <<memory, line>>
       /\ UNCHANGED <<config, auth, sequence, leases, key, ticket, lock, fence, body, lease>>

\* The old capability is gone.  The ticket is good for the generation that this
\* replacement began, and for no later one.
Replace(u) ==
    LET g == waits[u]
    IN /\ unlock[u] = "draining"
       /\ InTurn(u)
       /\ Completed(u)
       /\ AssertEffect(u, g)
       /\ IF Asserted(u, g) THEN Publishes(u) ELSE Fails(u)
       /\ LeavesLine(u)
       /\ UNCHANGED <<config, auth, sequence, leases, key, ticket, lock, fence, body, lease, waits>>

-----------------------------------------------------------------------------
\* lock and logout both begin with invalidateAuthSession.
BeginLock(k) ==
    LET s == SessionOf[k]
    IN /\ lock[k] = "idle"
       /\ Invalidates(s)
       /\ waits' = [waits EXCEPT ![k] = quiescence'[s]]
       /\ fence' = [fence EXCEPT ![k] = generation[s] + 1]
       /\ lock' = [lock EXCEPT ![k] = "waiting"]
       /\ UNCHANGED <<config, auth, memory, sequence, leases, line, key, unlock, ticket, body,
                      lease>>

\* lock answers LOCKED; logout goes on to revoke the authentication session.
EndLock(k, logout) ==
    /\ lock[k] = "waiting"
    /\ Completed(k)
    /\ lock' = [lock EXCEPT ![k] = "done"]
    /\ auth' = IF logout THEN auth \ {SessionOf[k]} ELSE auth
    /\ UNCHANGED <<config, fences, memory, sequence, leases, line, key, unlock, ticket,
                   fence, body, lease, waits>>

\* The authentication session ends, and nothing has noticed yet.
Expire(s) ==
    /\ s \in auth
    /\ auth' = auth \ {s}
    /\ UNCHANGED <<config, fences, memory, sequence, leases, line, key, unlock, ticket, lock,
                   fence, body, lease, waits>>

\* A capability's own time is up, or its session is found invalid: the timer of
\* scheduleCapabilityExpiry, or isCapabilityValid on behalf of any call that
\* presents it.  (While the session is closing already it only begins one more
\* generation; the model lets that happen once.)
Notice(s) ==
    /\ caps \cap Of(s) # {}
    /\ quiescence[s] \in {0, generation[s]}
    /\ Invalidates(s)
    /\ UNCHANGED <<config, auth, memory, sequence, leases, line, key, unlock, ticket, lock,
                   fence, body, lease, waits>>

\* The timer comes a moment early and looks at the clock twice: the first time
\* the capability is still good, the second time scheduleCapabilityExpiry finds
\* its time is up and drops it, whoever leases it.
TimerDrops(u) ==
    /\ u \in caps
    /\ caps' = caps \ {u}
    /\ erased' = erased \cup {u}
    /\ grant' = [g \in Grants |-> IF hash[u] = g THEN None ELSE grant[g]]
    /\ lapsed' = lapsed \cup {u}
    /\ UNCHANGED <<config, auth, fences, epoch, capEpoch, hash, sequence, leases, line, key,
                   unlock, ticket, lock, fence, body, lease, waits>>

\* isCapabilityValid, for a capability u presented by session s.
CapabilityValid(s, u) == /\ quiescence[s] = 0
                         /\ u \in caps
                         /\ SessionOf[u] \in auth
                         /\ SessionOf[u] = s
                         /\ capEpoch[u] = epoch[s]

\* withBodyOperation, with whatever capability the request carries.
OpenBody(b, u) ==
    LET s == SessionOf[b]
    IN /\ body[b] = "idle"
       /\ IF CapabilityValid(s, u)
          THEN /\ leases' = [leases EXCEPT ![s] = @ + 1]
               /\ lease' = [lease EXCEPT ![b] = u]
               /\ body' = [body EXCEPT ![b] = "open"]
               /\ UNCHANGED fences
          ELSE /\ body' = [body EXCEPT ![b] = "over"]
               /\ IF quiescence[s] = 0 /\ u \in caps
                  THEN AuthChecked(SessionOf[u])
                  ELSE UNCHANGED fences
               /\ UNCHANGED <<leases, lease>>
       /\ UNCHANGED <<config, auth, memory, sequence, line, key, unlock, ticket, lock, fence,
                      waits>>

\* releaseBodyOperation counts down and wakes nobody.
CloseBodySilently(b) ==
    LET s == SessionOf[b]
    IN /\ body[b] = "open"
       /\ body' = [body EXCEPT ![b] = "over"]
       /\ lease' = [lease EXCEPT ![b] = None]
       /\ leases' = [leases EXCEPT ![s] = @ - 1]
       /\ UNCHANGED <<config, auth, fences, memory, sequence, line, key, unlock, ticket, lock,
                      fence, waits>>

\* releaseBodyOperation resolves drained with the first one.
CloseBodyDrains(b) ==
    LET s == SessionOf[b]
    IN /\ body[b] = "open"
       /\ body' = [body EXCEPT ![b] = "over"]
       /\ lease' = [lease EXCEPT ![b] = None]
       /\ leases' = [leases EXCEPT ![s] = @ - 1]
       /\ drained' = IF quiescence[s] # 0 THEN drained \cup {s} ELSE drained
       /\ UNCHANGED <<config, auth, generation, quiescence, memory, sequence, line, key, unlock,
                      ticket, lock, fence, waits>>

\* The callback is over, and its hold of the capability with it:
\* releaseBodyOperation resolves drained with the last one.
CloseBody(b) ==
    LET s == SessionOf[b]
    IN /\ body[b] = "open"
       /\ body' = [body EXCEPT ![b] = "over"]
       /\ lease' = [lease EXCEPT ![b] = None]
       /\ leases' = [leases EXCEPT ![s] = @ - 1]
       /\ drained' = IF leases[s] = 1 /\ quiescence[s] # 0 THEN drained \cup {s} ELSE drained
       /\ UNCHANGED <<config, auth, generation, quiescence, memory, sequence, line, key, unlock,
                      ticket, lock, fence, waits>>

\* rememberDevice: a fresh token, in place of the capability's earlier one.
Remember(u, g) ==
    /\ CapabilityValid(SessionOf[u], u)
    /\ grant[g] = None
    /\ g \notin {hash[v] : v \in Unlocks}
    /\ grant' = [h \in Grants |-> IF h = g THEN u ELSE IF h = hash[u] THEN None ELSE grant[h]]
    /\ hash' = [hash EXCEPT ![u] = g]
    /\ UNCHANGED <<config, auth, fences, epoch, caps, capEpoch, erased, lapsed, sequence, leases, line,
                   key, unlock, ticket, lock, fence, body, lease, waits>>

\* resumeRememberedDevice finds the token out of date.
Forget(g) ==
    /\ grant[g] # None
    /\ grant' = [grant EXCEPT ![g] = None]
    /\ UNCHANGED <<config, auth, fences, epoch, caps, capEpoch, erased, hash, lapsed, sequence, leases,
                   line, key, unlock, ticket, lock, fence, body, lease, waits>>

-----------------------------------------------------------------------------
Next == \/ \E s \in Sessions : Finalize(s) \/ Expire(s) \/ Notice(s)
        \/ \E u \in Unlocks : \/ Begin(u) \/ HashFails(u) \/ Unwrap(u) \/ Store(u)
                              \/ Turn(u) \/ Replace(u) \/ TimerDrops(u)
        \/ \E k \in Locks : BeginLock(k) \/ \E logout \in BOOLEAN : EndLock(k, logout)
        \/ \E b \in Bodies : CloseBody(b) \/ \E u \in Unlocks : OpenBody(b, u)
        \/ \E u \in Unlocks, g \in Grants : Remember(u, g)
        \/ \E g \in Grants : Forget(g)

Spec == Init /\ [][Next]_vars

-----------------------------------------------------------------------------
TypeOK ==
    /\ config \in Unlocks \cup {None}
    /\ auth \subseteq Sessions
    /\ generation \in [Sessions -> Nat]
    /\ sequence \in [Sessions -> Nat]
    /\ epoch \in [Sessions -> Nat]
    /\ leases \in [Sessions -> Nat]
    /\ quiescence \in [Sessions -> Nat]
    /\ drained \subseteq Sessions
    /\ line \in [Sessions -> Seq(Unlocks)]
    /\ caps \subseteq Unlocks
    /\ capEpoch \in [Unlocks -> Nat]
    /\ key \in [Unlocks -> Unlocks \cup {None}]
    /\ erased \subseteq Unlocks
    /\ grant \in [Grants -> Unlocks \cup {None}]
    /\ hash \in [Unlocks -> Grants \cup {None}]
    /\ unlock \in [Unlocks -> {"idle", "setup", "hashing", "inline", "draining", "issued",
                               "failed"}]
    /\ ticket \in [Unlocks -> [generation : Nat, sequence : Nat]]
    /\ lock \in [Locks -> {"idle", "waiting", "done"}]
    /\ fence \in [Locks -> Nat]
    /\ body \in [Bodies -> {"idle", "open", "over"}]
    /\ lease \in [Bodies -> Unlocks \cup {None}]
    /\ waits \in [Unlocks \cup Locks -> Nat]
    /\ lapsed \subseteq Unlocks

\* Once lock or logout has answered, no capability that an unlock begun before it
\* obtained is alive, and no body operation with such a capability is under way,
\* however long its hash or its callback took (beginSessionInvalidation 539-550,
\* assertCapabilityIssuanceCurrent 334-350).
LockIsFinal ==
    \A k \in Locks : lock[k] = "done" =>
      /\ \A u \in caps \cap Of(SessionOf[k]) : ticket[u].generation >= fence[k]
      /\ \A b \in Bodies : body[b] = "open" /\ SessionOf[b] = SessionOf[k]
                             => ticket[lease[b]].generation >= fence[k]

\* A body operation keeps its key until its callback is over: lock, logout,
\* expiry and a replacing unlock all wait for it (withBodyOperation 573-641,
\* finishQuiescence 552-562).  Only the early timer does not (see TimerDrops).
LeaseKeepsKey ==
    \A b \in Bodies : body[b] = "open" /\ lease[b] \notin lapsed =>
      /\ lease[b] \in caps
      /\ capEpoch[lease[b]] = epoch[SessionOf[b]]
      /\ lease[b] \notin erased

\* A live capability holds the diary's stored key, not that of a setup that lost
\* a race, and not a buffer of zeros (setup 643-711, the finally blocks).
KeyIsTheDiarys == \A u \in caps : u \notin erased /\ config # None /\ key[u] = config

\* No copy of the key stays in memory once its call is over and its capability
\* gone (dropCapability 256-264, the finally blocks of setup and unlock).
NoKeyLeftBehind ==
    \A u \in Unlocks : unlock[u] \in {"issued", "failed"} /\ key[u] # None /\ u \notin caps
                         => u \in erased

\* A remembered device leads to a live capability of the session that asked for
\* it, so resuming it never revives a locked diary (rememberDevice 478-508).
GrantsAreLive == \A g \in Grants : grant[g] # None => grant[g] \in caps /\ hash[grant[g]] = g

OpenBodies(s) == {b \in Bodies : body[b] = "open" /\ SessionOf[b] = s}

\* The calls that wait for a quiescence, and the unlocks in issuance.
Waiting == {k \in Locks : lock[k] = "waiting"} \cup {u \in Unlocks : unlock[u] = "draining"}
Issuing == {u \in Unlocks : unlock[u] \in {"inline", "draining"}}

\* Nobody waits for everybody else.  A closing session is about to be finalized, or
\* a body operation whose end will drain it is under way; a lock or replacement
\* that waits does so for a quiescence that is still to come; and an unlock stands
\* in a line whose head is in issuance itself (beginSessionInvalidation 535-550,
\* releaseBodyOperation 510-519, withIssuanceLock and issueCapability 352-440).
NobodyWaitsInVain ==
    /\ \A s \in Sessions : quiescence[s] # 0 => s \in drained \/ OpenBodies(s) # {}
    /\ \A r \in Waiting : Completed(r) \/ quiescence[SessionOf[r]] # 0
    /\ \A u \in Issuing : \E i \in DOMAIN line[SessionOf[u]] : line[SessionOf[u]][i] = u
    /\ \A s \in Sessions : line[s] # <<>> => Head(line[s]) \in Issuing

-----------------------------------------------------------------------------
\* Leases are counted, and a drained session has none.
LeasesCounted(s) == /\ leases[s] = Cardinality(OpenBodies(s))
                    /\ s \in drained => leases[s] = 0 /\ quiescence[s] # 0
                    /\ quiescence[s] <= generation[s]

\* What is known of a lease, a call of unlock, a capability and a lock.
LeaseHeld(b) == body[b] = "open" => /\ lease[b] \in Unlocks
                                    /\ SessionOf[lease[b]] = SessionOf[b]
                                    /\ lease[b] \in caps \cup lapsed

UnlockSound(u) ==
    /\ unlock[u] \in {"hashing", "inline", "draining", "issued"} => config # None /\ key[u] = config
    /\ unlock[u] = "setup" => key[u] = u
    /\ unlock[u] \in {"idle", "setup", "hashing", "inline", "draining"} => u \notin erased
    /\ unlock[u] = "failed" => u \in erased
    /\ unlock[u] = "issued" => u \in caps \cup erased
    /\ u \in lapsed => unlock[u] = "issued"

\* A replacement that waits is at the head of its line, and until its own
\* quiescence is over nobody publishes in its place.
DrainSound(u) ==
    unlock[u] = "draining" =>
      /\ InTurn(u)
      /\ waits[u] = ticket[u].generation + 1
      /\ waits[u] <= generation[SessionOf[u]]
      /\ quiescence[SessionOf[u]] # waits[u] => caps \cap Of(SessionOf[u]) = {}
                                                \/ generation[SessionOf[u]] # waits[u]
      /\ \A k \in Locks : fence[k] # waits[u] \/ SessionOf[k] # SessionOf[u]

CapabilitySound(u) ==
    u \in caps => /\ unlock[u] = "issued"
                  /\ u \notin erased
                  /\ capEpoch[u] = epoch[SessionOf[u]]
                  /\ \A v \in caps : SessionOf[v] = SessionOf[u] => v = u

\* A line holds the session's unlocks in issuance, each once.
LineSound(s) ==
    /\ \A i \in DOMAIN line[s] : line[s][i] \in Issuing /\ SessionOf[line[s][i]] = s
    /\ \A i, j \in DOMAIN line[s] : line[s][i] = line[s][j] => i = j
    /\ \A u \in Issuing \cap Of(s) : \E i \in DOMAIN line[s] : line[s][i] = u

\* A lock whose quiescence is over has closed every door behind it.
LockSound(k) ==
    IF lock[k] = "idle" THEN fence[k] = 0 ELSE
      /\ waits[k] # 0
      /\ waits[k] <= generation[SessionOf[k]]
      /\ fence[k] <= generation[SessionOf[k]]
      /\ lock[k] = "done" => Completed(k)
      /\ Completed(k) =>
           /\ \A u \in caps \cap Of(SessionOf[k]) : ticket[u].generation >= fence[k]
           /\ \A b \in OpenBodies(SessionOf[k]) : ticket[lease[b]].generation >= fence[k]

\* The maps of the service agree with each other: leases are counted and hold a
\* capability that is live or lapsed, a session has one capability at most and that
\* of the current epoch, a finished lock has left none from before it, and a grant
\* leads to a live capability.
DiaryInv == /\ TypeOK
            /\ \A s \in Sessions : LeasesCounted(s)
            /\ \A b \in Bodies : LeaseHeld(b)
            /\ \A u \in Unlocks : UnlockSound(u) /\ DrainSound(u) /\ CapabilitySound(u)
            /\ \A k \in Locks : LockSound(k)
            /\ GrantsAreLive
=============================================================================
