-------------------------- MODULE DiaryAccessProofs --------------------------
(***************************************************************************)
(* Proofs about DiaryAccess for every number of sessions, calls and body   *)
(* operations.  DiaryInv is inductive as it stands; what the run checks    *)
(* beyond it are consequences, but for NobodyWaitsInVain, which rests on   *)
(* two invariants more: one of the issuance lines, one of the leases that  *)
(* a closing session waits for.                                            *)
(***************************************************************************)
EXTENDS DiaryAccess, FiniteSetTheorems, SequenceTheorems, TLAPS

(* A step that leaves the fences of the sessions alone, or closes one.     *)
Closing == UNCHANGED fences \/ \E s \in Sessions : Invalidates(s)

(* Every call belongs to a session.                                        *)
LEMMA SessionKnown ==
  /\ \A u \in Unlocks : SessionOf[u] \in Sessions
  /\ \A k \in Locks : SessionOf[k] \in Sessions
  /\ \A b \in Bodies : SessionOf[b] \in Sessions
  BY SessionOfAssumption

(* Generations grow, a quiescence that has begun stays the one it is, and  *)
(* a new one carries the new generation.                                   *)
LEMMA ClosingFacts ==
  ASSUME TypeOK, Closing
  PROVE  /\ generation' \in [Sessions -> Nat]
         /\ quiescence' \in [Sessions -> Nat]
         /\ drained \subseteq drained' /\ drained' \subseteq Sessions
         /\ \A s \in Sessions :
              /\ generation'[s] >= generation[s]
              /\ quiescence[s] # 0 => quiescence'[s] = quiescence[s]
              /\ quiescence'[s] = quiescence[s] \/ quiescence'[s] > generation[s]
              /\ quiescence'[s] <= generation'[s] \/ quiescence'[s] = quiescence[s]
              /\ quiescence'[s] = 0 => generation'[s] = generation[s]
              /\ s \in drained' => s \in drained \/ (leases[s] = 0 /\ quiescence'[s] # 0)
<1>0. /\ generation \in [Sessions -> Nat] /\ quiescence \in [Sessions -> Nat]
      /\ drained \subseteq Sessions
  BY DEF TypeOK
<1>1. CASE UNCHANGED fences
  BY <1>0, <1>1 DEF fences
<1>2. ASSUME NEW t \in Sessions, Invalidates(t)
      PROVE  /\ generation' = [generation EXCEPT ![t] = @ + 1]
             /\ quiescence' = IF quiescence[t] = 0
                              THEN [quiescence EXCEPT ![t] = generation[t] + 1] ELSE quiescence
             /\ drained' = IF quiescence[t] = 0 /\ leases[t] = 0
                           THEN drained \cup {t} ELSE drained
  BY <1>0, <1>2 DEF Invalidates
<1>3. CASE \E t \in Sessions : Invalidates(t)
  <2>1. PICK t \in Sessions : Invalidates(t)
    BY <1>3
  <2>2. CASE quiescence[t] = 0
    BY <1>0, <1>2, <2>1, <2>2
  <2>3. CASE quiescence[t] # 0
    BY <1>0, <1>2, <2>1, <2>3
  <2> QED
    BY <2>2, <2>3
<1> QED
  BY <1>1, <1>3 DEF Closing

(* The count of the leases survives a closing. *)
LEMMA LeasesKept ==
  ASSUME TypeOK, \A s \in Sessions : LeasesCounted(s), Closing, UNCHANGED <<leases, body>>
  PROVE  \A s \in Sessions : LeasesCounted(s)'
<1>1. \A s \in Sessions : OpenBodies(s)' = OpenBodies(s)
  BY DEF OpenBodies
<1>2. SUFFICES ASSUME NEW s \in Sessions PROVE LeasesCounted(s)'
  OBVIOUS
<1>3. /\ generation[s] \in Nat /\ generation'[s] \in Nat
      /\ quiescence[s] \in Nat /\ quiescence'[s] \in Nat
  BY ClosingFacts DEF TypeOK
<1>4. /\ leases[s] = Cardinality(OpenBodies(s))
      /\ s \in drained => leases[s] = 0 /\ quiescence[s] # 0
      /\ quiescence[s] <= generation[s]
  BY DEF LeasesCounted
<1>5. leases'[s] = Cardinality(OpenBodies(s)')
  BY <1>1, <1>4
<1>6. s \in drained' => leases'[s] = 0 /\ quiescence'[s] # 0
  BY <1>4, ClosingFacts
<1>7. quiescence'[s] <= generation'[s]
  BY <1>3, <1>4, ClosingFacts
<1> QED
  BY <1>5, <1>6, <1>7 DEF LeasesCounted

(* A replacement goes on waiting soundly while other calls close doors.    *)
LEMMA DrainKept ==
  ASSUME TypeOK, NEW v \in Unlocks, DrainSound(v), Closing,
         unlock'[v] = unlock[v], caps' \subseteq caps,
         ticket'[v] = ticket[v], waits'[v] = waits[v], fence' = fence,
         unlock[v] = "draining" => InTurn(v)'
  PROVE  DrainSound(v)'
<1> DEFINE s == SessionOf[v]
<1>1. s \in Sessions
  BY SessionKnown
<1> SUFFICES ASSUME unlock[v] = "draining" PROVE DrainSound(v)'
  BY DEF DrainSound
<1>2. /\ generation[s] \in Nat /\ generation'[s] \in Nat /\ waits[v] \in Nat
      /\ quiescence[s] \in Nat /\ quiescence'[s] \in Nat
  BY <1>1, ClosingFacts DEF TypeOK
<1>3. /\ waits[v] = ticket[v].generation + 1 /\ waits[v] <= generation[s]
      /\ quiescence[s] # waits[v] => caps \cap Of(s) = {} \/ generation[s] # waits[v]
      /\ \A k \in Locks : fence[k] # waits[v] \/ SessionOf[k] # SessionOf[v]
  BY DEF DrainSound
<1>4. /\ generation'[s] >= generation[s]
      /\ quiescence'[s] = quiescence[s] \/ quiescence'[s] > generation[s]
      /\ quiescence'[s] = 0 => generation'[s] = generation[s]
      /\ quiescence[s] # 0 => quiescence'[s] = quiescence[s]
  BY <1>1, ClosingFacts
<1>5. ASSUME quiescence'[s] # waits'[v]
      PROVE  caps' \cap Of(s) = {} \/ generation'[s] # waits'[v]
  <2>1. quiescence[s] # waits[v]
    <3>1. ticket[v].generation \in Nat
      BY DEF TypeOK
    <3>2. waits[v] # 0
      BY <1>3, <3>1
    <3> QED
      BY <1>4, <1>5, <3>2
  <2>2. caps \cap Of(s) = {} \/ generation[s] # waits[v]
    BY <1>3, <2>1
  <2> QED
    BY <1>2, <1>3, <1>4, <2>2
<1> HIDE DEF s
<1>6. waits'[v] <= generation'[s]
  BY <1>2, <1>3, <1>4
<1> QED
  BY <1>3, <1>5, <1>6 DEF DrainSound, s, Of

(* So does a lock.                                                         *)
LEMMA LockKept ==
  ASSUME TypeOK, NEW k \in Locks, LockSound(k), Closing,
         lock'[k] = lock[k], fence'[k] = fence[k], waits'[k] = waits[k],
         caps' \subseteq caps,
         \A b \in Bodies : body'[b] = "open" => body[b] = "open" /\ lease'[b] = lease[b],
         \A u \in caps : ticket'[u] = ticket[u],
         \A b \in Bodies : body[b] = "open" => ticket'[lease[b]] = ticket[lease[b]]
  PROVE  LockSound(k)'
<1> DEFINE s == SessionOf[k]
<1>1. s \in Sessions
  BY SessionKnown
<1>2. CASE lock[k] = "idle"
  BY <1>2 DEF LockSound
<1>3. CASE lock[k] # "idle"
  <2>1. /\ generation[s] \in Nat /\ generation'[s] \in Nat /\ waits[k] \in Nat
        /\ quiescence[s] \in Nat /\ quiescence'[s] \in Nat /\ fence[k] \in Nat
    BY <1>1, ClosingFacts DEF TypeOK
  <2>2. /\ waits[k] # 0 /\ waits[k] <= generation[s] /\ fence[k] <= generation[s]
        /\ lock[k] = "done" => Completed(k)
        /\ Completed(k) =>
             /\ \A u \in caps \cap Of(s) : ticket[u].generation >= fence[k]
             /\ \A b \in OpenBodies(s) : ticket[lease[b]].generation >= fence[k]
    BY <1>3 DEF LockSound
  <2>3. /\ generation'[s] >= generation[s]
        /\ quiescence'[s] = quiescence[s] \/ quiescence'[s] > generation[s]
        /\ quiescence[s] # 0 => quiescence'[s] = quiescence[s]
    BY <1>1, ClosingFacts
  <2>4. Completed(k)' = Completed(k)
    <3>1. (quiescence[s] # waits[k]) = (quiescence'[s] # waits'[k])
      BY <2>1, <2>2, <2>3
    <3> QED
      BY <3>1 DEF Completed
  <2>5. waits'[k] <= generation'[s] /\ fence'[k] <= generation'[s]
    BY <2>1, <2>2, <2>3
  <2>6. ASSUME Completed(k)
        PROVE  /\ \A u \in caps' \cap Of(s) : ticket'[u].generation >= fence'[k]
               /\ \A b \in OpenBodies(s)' : ticket'[lease'[b]].generation >= fence'[k]
    <3>1. \A b \in OpenBodies(s)' : b \in OpenBodies(s) /\ lease'[b] = lease[b]
      BY DEF OpenBodies
    <3>2. \A b \in OpenBodies(s) : ticket'[lease[b]] = ticket[lease[b]]
      BY DEF OpenBodies
    <3> QED
      BY <2>2, <2>6, <3>1, <3>2
  <2> QED
    BY <1>3, <2>2, <2>4, <2>5, <2>6 DEF LockSound, Of
<1> QED
  BY <1>2, <1>3

(* Leaving the head of the line leaves a line, and no other call of the    *)
(* session was in its turn.                                                *)
LEMMA LineLeft ==
  ASSUME TypeOK, NEW u \in Unlocks, line' = line \/ (InTurn(u) /\ LeavesLine(u))
  PROVE  /\ line' \in [Sessions -> Seq(Unlocks)]
         /\ \A v \in Unlocks \ {u} : InTurn(v) => InTurn(v)'
<1> DEFINE s == SessionOf[u]
<1>1. line \in [Sessions -> Seq(Unlocks)] /\ s \in Sessions
  BY SessionKnown DEF TypeOK
<1>2. CASE line' = line
  BY <1>1, <1>2 DEF InTurn
<1>3. CASE InTurn(u) /\ LeavesLine(u)
  <2>1. line[s] \in Seq(Unlocks) /\ line[s] # <<>>
    BY <1>1, <1>3 DEF InTurn
  <2>2. Tail(line[s]) \in Seq(Unlocks)
    BY <2>1, HeadTailProperties
  <2>3. line' \in [Sessions -> Seq(Unlocks)]
    BY <1>1, <1>3, <2>2 DEF LeavesLine
  <2>4. ASSUME NEW v \in Unlocks \ {u}, InTurn(v)
        PROVE  InTurn(v)'
    <3>1. SessionOf[v] # s
      BY <1>3, <2>4 DEF InTurn
    <3>2. line'[SessionOf[v]] = line[SessionOf[v]]
      BY <1>1, <1>3, <3>1, SessionKnown DEF LeavesLine
    <3> QED
      BY <2>4, <3>2 DEF InTurn
  <2> QED
    BY <2>3, <2>4
<1> QED
  BY <1>2, <1>3

LEMMA DiaryInit == Init => DiaryInv
<1> SUFFICES ASSUME Init PROVE DiaryInv
  OBVIOUS
<1> USE DEF Init
<1>1. TypeOK
  BY DEF TypeOK
<1>2. \A s \in Sessions : LeasesCounted(s)
  <2> SUFFICES ASSUME NEW s \in Sessions PROVE LeasesCounted(s)
    OBVIOUS
  <2>1. OpenBodies(s) = {}
    BY DEF OpenBodies
  <2>2. Cardinality(OpenBodies(s)) = 0
    BY <2>1, FS_EmptySet
  <2> QED
    BY <2>2 DEF LeasesCounted
<1>3. \A u \in Unlocks : UnlockSound(u) /\ DrainSound(u) /\ CapabilitySound(u)
  BY DEF UnlockSound, DrainSound, CapabilitySound
<1> QED
  BY <1>1, <1>2, <1>3 DEF DiaryInv, LeaseHeld, LockSound, GrantsAreLive

(* An unlock that fails, wherever it is, erases its key and nothing else.  *)
LEMMA FailingKeeps ==
  ASSUME DiaryInv, NEW u \in Unlocks,
         unlock[u] \in {"idle", "setup", "hashing", "inline", "draining"},
         Fails(u), Closing,
         line' = line \/ (InTurn(u) /\ LeavesLine(u)),
         UNCHANGED <<config, auth, sequence, leases, key, ticket, lock, fence, body, lease, waits>>
  PROVE  DiaryInv'
<1> DEFINE s == SessionOf[u]
<1>1. TypeOK
  BY DEF DiaryInv, TypeOK
<1>2. TypeOK'
  <2>1. line' \in [Sessions -> Seq(Unlocks)]
    BY <1>1, LineLeft
  <2> QED
    BY <1>1, <2>1, ClosingFacts DEF TypeOK, Fails
<1>3. \A t \in Sessions : LeasesCounted(t)'
  BY <1>1, LeasesKept DEF DiaryInv
<1>4. \A b \in Bodies : LeaseHeld(b)'
  BY DEF DiaryInv, LeaseHeld, Fails
<1>5. \A v \in Unlocks : UnlockSound(v)' /\ DrainSound(v)'
  <2> SUFFICES ASSUME NEW v \in Unlocks PROVE UnlockSound(v)' /\ DrainSound(v)'
    OBVIOUS
  <2>1. UnlockSound(v) /\ UnlockSound(u) /\ DrainSound(v)
    BY DEF DiaryInv
  <2>2. unlock'[u] = "failed" /\ \A w \in Unlocks \ {u} : unlock'[w] = unlock[w]
    BY <1>1 DEF Fails, TypeOK
  <2>3. erased' = erased \cup {u} /\ caps' = caps /\ lapsed' = lapsed
    BY DEF Fails
  <2>4. UnlockSound(v)'
    BY <2>1, <2>2, <2>3 DEF UnlockSound
  <2>5. CASE v = u
    BY <2>2, <2>4, <2>5 DEF DrainSound
  <2>6. CASE v # u
    <3>1. unlock[v] = "draining" => InTurn(v)'
      BY <1>1, <2>1, <2>6, LineLeft DEF DrainSound
    <3> QED
      BY <1>1, <2>1, <2>2, <2>3, <2>4, <2>6, <3>1, DrainKept
  <2> QED
    BY <2>4, <2>5, <2>6
<1>6. \A v \in Unlocks : CapabilitySound(v)'
  BY <1>1 DEF DiaryInv, CapabilitySound, Fails, TypeOK
<1>7. \A k \in Locks : LockSound(k)'
  BY <1>1, LockKept DEF DiaryInv, Fails
<1>8. GrantsAreLive'
  BY DEF DiaryInv, GrantsAreLive, Fails
<1> QED
  BY <1>2, <1>3, <1>4, <1>5, <1>6, <1>7, <1>8 DEF DiaryInv

(* An unlock that publishes at the head of its line, in a session that is  *)
(* open and holds no capability, with a ticket no older than any lock.     *)
LEMMA PublishingKeeps ==
  ASSUME DiaryInv, NEW u \in Unlocks, unlock[u] \in {"inline", "draining"},
         InTurn(u), LeavesLine(u), Publishes(u),
         caps \cap Of(SessionOf[u]) = {},
         \A k \in Locks : SessionOf[k] = SessionOf[u] => ticket[u].generation >= fence[k],
         UNCHANGED <<config, auth, generation, quiescence, drained, sequence, leases, key,
                     ticket, lock, fence, body, lease, waits>>
  PROVE  DiaryInv'
<1> DEFINE s == SessionOf[u]
<1>1. TypeOK /\ Closing /\ s \in Sessions
  BY SessionKnown DEF DiaryInv, Closing, fences
<1>2. /\ epoch' = [epoch EXCEPT ![s] = @ + 1]
      /\ capEpoch' = [capEpoch EXCEPT ![u] = epoch[s] + 1]
      /\ unlock' = [unlock EXCEPT ![u] = "issued"]
      /\ grant' = grant /\ hash' = hash
  BY DEF Publishes
<1>3. \/ caps' = caps \cup {u} /\ erased' = erased /\ lapsed' = lapsed
      \/ caps' = caps /\ erased' = erased \cup {u} /\ lapsed' = lapsed \cup {u}
  BY DEF Publishes
<1>4. TypeOK'
  <2>1. line' \in [Sessions -> Seq(Unlocks)]
    BY <1>1, LineLeft
  <2>2. /\ epoch' \in [Sessions -> Nat] /\ capEpoch' \in [Unlocks -> Nat]
        /\ unlock' \in [Unlocks -> {"idle", "setup", "hashing", "inline", "draining",
                                    "issued", "failed"}]
    <3>1. epoch' \in [Sessions -> Nat]
      BY <1>1, <1>2 DEF TypeOK
    <3>2. epoch[s] + 1 \in Nat
      BY <1>1 DEF TypeOK
    <3>3. capEpoch' \in [Unlocks -> Nat]
      BY <1>1, <1>2, <3>2 DEF TypeOK
    <3>4. unlock' \in [Unlocks -> {"idle", "setup", "hashing", "inline", "draining",
                                   "issued", "failed"}]
      BY <1>1, <1>2 DEF TypeOK
    <3> QED
      BY <3>1, <3>3, <3>4
  <2>3. caps' \subseteq Unlocks /\ erased' \subseteq Unlocks /\ lapsed' \subseteq Unlocks
    BY <1>1, <1>3 DEF TypeOK
  <2> QED
    BY <1>1, <1>2, <2>1, <2>2, <2>3 DEF TypeOK
<1>5. \A t \in Sessions : LeasesCounted(t)'
  BY <1>1, LeasesKept DEF DiaryInv
<1>6. \A b \in Bodies : LeaseHeld(b)'
  BY <1>3 DEF DiaryInv, LeaseHeld
<1>7. u \notin erased /\ u \notin caps /\ u \notin lapsed /\ config # None /\ key[u] = config
  BY DEF DiaryInv, UnlockSound, CapabilitySound
<1>8. unlock'[u] = "issued" /\ \A w \in Unlocks \ {u} : unlock'[w] = unlock[w]
  BY <1>1, <1>2 DEF TypeOK
<1>9. ASSUME NEW v \in Unlocks
      PROVE  UnlockSound(v)'
  <2>1. UnlockSound(v)
    BY DEF DiaryInv
  <2>2. CASE v = u
    BY <1>3, <1>7, <1>8, <2>2 DEF UnlockSound
  <2>3. CASE v # u
    <3>1. unlock'[v] = unlock[v] /\ (v \in erased' <=> v \in erased)
          /\ (v \in caps' <=> v \in caps) /\ (v \in lapsed' <=> v \in lapsed)
      BY <1>3, <1>8, <2>3
    <3> QED
      BY <2>1, <3>1 DEF UnlockSound
  <2> QED
    BY <2>2, <2>3
<1>10. ASSUME NEW v \in Unlocks
       PROVE  DrainSound(v)'
  <2>1. DrainSound(v)
    BY DEF DiaryInv
  <2>2. CASE unlock'[v] # "draining"
    BY <2>2 DEF DrainSound
  <2>3. CASE unlock'[v] = "draining"
    <3>1. v # u /\ unlock[v] = "draining"
      BY <1>8, <2>3
    <3>2. InTurn(v) /\ InTurn(v)'
      BY <1>1, <2>1, <3>1, LineLeft DEF DrainSound
    <3>3. SessionOf[v] # s
      BY <3>1, <3>2 DEF InTurn
    <3>4. caps' \cap Of(SessionOf[v]) = caps \cap Of(SessionOf[v])
      BY <1>3, <3>3 DEF Of
    <3> QED
      BY <2>1, <3>1, <3>2, <3>4 DEF DrainSound, Of
  <2> QED
    BY <2>2, <2>3
<1>11. ASSUME NEW v \in Unlocks
       PROVE  CapabilitySound(v)'
  <2> SUFFICES ASSUME v \in caps' PROVE CapabilitySound(v)'
    BY DEF CapabilitySound
  <2>1. \A w \in caps : w \in Unlocks /\ w # u /\ SessionOf[w] # s /\ CapabilitySound(w)
    BY <1>1, <1>7 DEF DiaryInv, TypeOK, Of
  <2>2. \A w \in caps' : w = u \/ w \in caps
    BY <1>3
  <2>3. CASE v = u
    <3>1. caps' = caps \cup {u} /\ erased' = erased
      BY <1>3, <1>7, <2>3
    <3>2. capEpoch'[u] = epoch'[s]
      BY <1>1, <1>2 DEF TypeOK
    <3> QED
      BY <1>7, <1>8, <2>1, <2>2, <2>3, <3>1, <3>2 DEF CapabilitySound
  <2>4. CASE v # u
    <3>1. v \in caps /\ SessionOf[v] # s /\ SessionOf[v] \in Sessions
      BY <2>1, <2>2, <2>4, SessionKnown
    <3>2. capEpoch'[v] = capEpoch[v] /\ epoch'[SessionOf[v]] = epoch[SessionOf[v]]
      BY <1>1, <1>2, <2>4, <3>1 DEF TypeOK
    <3>3. v \notin erased'
      BY <1>3, <2>1, <2>4, <3>1 DEF CapabilitySound
    <3> QED
      BY <1>8, <2>1, <2>2, <2>4, <3>1, <3>2, <3>3 DEF CapabilitySound
  <2> QED
    BY <2>3, <2>4
<1>12. ASSUME NEW k \in Locks
       PROVE  LockSound(k)'
  <2>1. LockSound(k)
    BY DEF DiaryInv
  <2>2. OpenBodies(SessionOf[k])' = OpenBodies(SessionOf[k]) /\ Completed(k)' = Completed(k)
    BY DEF OpenBodies, Completed
  <2>3. CASE lock[k] = "idle"
    BY <2>1, <2>3 DEF LockSound
  <2>4. CASE lock[k] # "idle"
    <3>1. ASSUME Completed(k), NEW v \in caps' \cap Of(SessionOf[k])
          PROVE  ticket[v].generation >= fence[k]
      BY <1>3, <2>1, <2>4, <3>1 DEF LockSound, Of
    <3> QED
      BY <2>1, <2>2, <2>4, <3>1 DEF LockSound, Of
  <2> QED
    BY <2>3, <2>4
<1>13. GrantsAreLive'
  BY <1>2, <1>3 DEF DiaryInv, GrantsAreLive
<1> QED
  BY <1>4, <1>5, <1>6, <1>9, <1>10, <1>11, <1>12, <1>13 DEF DiaryInv

(* An unlock gets in line with the diary's key in its buffer: the key that *)
(* is stored, or one it stores itself where there was none.                *)
LEMMA JoiningKeeps ==
  ASSUME DiaryInv, NEW u \in Unlocks, Joins(u), Closing,
         \/ unlock[u] = "hashing" /\ config' = config
         \/ unlock[u] = "setup" /\ config = None /\ config' = u,
         UNCHANGED <<auth, sequence, leases, key, ticket, lock, fence, body, lease, waits>>
  PROVE  DiaryInv'
<1> DEFINE s == SessionOf[u]
<1>1. TypeOK /\ s \in Sessions
  BY SessionKnown DEF DiaryInv
<1>2. /\ line' = [line EXCEPT ![s] = Append(@, u)]
      /\ unlock' = [unlock EXCEPT ![u] = "inline"]
      /\ UNCHANGED <<epoch, caps, capEpoch, erased, grant, hash, lapsed>>
  BY DEF Joins, memory
<1>3. unlock'[u] = "inline" /\ \A w \in Unlocks \ {u} : unlock'[w] = unlock[w]
  BY <1>1, <1>2 DEF TypeOK
<1>4. TypeOK'
  <2>1. Append(line[s], u) \in Seq(Unlocks)
    BY <1>1, AppendProperties DEF TypeOK
  <2>2. line' \in [Sessions -> Seq(Unlocks)]
    BY <1>1, <1>2, <2>1 DEF TypeOK
  <2>3. unlock' \in [Unlocks -> {"idle", "setup", "hashing", "inline", "draining",
                                 "issued", "failed"}]
    BY <1>1, <1>2 DEF TypeOK
  <2>4. config' \in Unlocks \cup {None}
    BY <1>1 DEF TypeOK
  <2> QED
    BY <1>1, <1>2, <2>2, <2>3, <2>4, ClosingFacts DEF TypeOK
<1>5. \A t \in Sessions : LeasesCounted(t)'
  BY <1>1, LeasesKept DEF DiaryInv
<1>6. \A b \in Bodies : LeaseHeld(b)'
  BY <1>2 DEF DiaryInv, LeaseHeld
<1>7. ASSUME NEW v \in Unlocks
      PROVE  UnlockSound(v)'
  <2>1. UnlockSound(v) /\ UnlockSound(u)
    BY DEF DiaryInv
  <2>2. config' # None /\ key[u] = config'
    BY <2>1, NoneAssumption DEF UnlockSound
  <2>3. CASE v = u
    BY <1>2, <1>3, <2>1, <2>2, <2>3 DEF UnlockSound
  <2>4. CASE v # u
    BY <1>2, <1>3, <2>1, <2>2, <2>4 DEF UnlockSound
  <2> QED
    BY <2>3, <2>4
<1>8. ASSUME NEW v \in Unlocks
      PROVE  DrainSound(v)'
  <2>1. DrainSound(v)
    BY DEF DiaryInv
  <2>2. CASE v = u
    BY <1>3, <2>2 DEF DrainSound
  <2>3. CASE v # u
    <3>1. ASSUME InTurn(v) PROVE InTurn(v)'
      <4>1. SessionOf[v] \in Sessions
        BY SessionKnown
      <4>2. CASE SessionOf[v] # s
        BY <1>1, <1>2, <3>1, <4>1, <4>2 DEF InTurn, TypeOK
      <4>3. CASE SessionOf[v] = s
        <5>1. line[s] \in Seq(Unlocks) /\ line[s] # <<>> /\ Head(line[s]) = v
          BY <1>1, <3>1, <4>3 DEF InTurn, TypeOK
        <5>2. line'[s] = Append(line[s], u)
          BY <1>1, <1>2 DEF TypeOK
        <5>3. Append(line[s], u) # <<>> /\ Head(Append(line[s], u)) = v
          BY <5>1, AppendProperties, HeadTailAppend
        <5> QED
          BY <4>3, <5>2, <5>3 DEF InTurn
      <4> QED
        BY <4>2, <4>3
    <3>2. unlock[v] = "draining" => InTurn(v)'
      BY <2>1, <3>1 DEF DrainSound
    <3> QED
      BY <1>1, <1>2, <1>3, <2>1, <2>3, <3>2, DrainKept
  <2> QED
    BY <2>2, <2>3
<1>9. ASSUME NEW v \in Unlocks
      PROVE  CapabilitySound(v)'
  BY <1>2, <1>3 DEF DiaryInv, CapabilitySound
<1>10. \A k \in Locks : LockSound(k)'
  BY <1>1, <1>2, LockKept DEF DiaryInv
<1>11. GrantsAreLive'
  BY <1>2 DEF DiaryInv, GrantsAreLive
<1> QED
  BY <1>4, <1>5, <1>6, <1>7, <1>8, <1>9, <1>10, <1>11 DEF DiaryInv

(* A call of requireCurrentAuthSession closes the session or does nothing. *)
LEMMA CheckingCloses ==
  ASSUME NEW u \in Unlocks
  PROVE  /\ AuthChecked(SessionOf[u]) => Closing
         /\ \A g : AssertEffect(u, g) => Closing
  BY SessionKnown DEF AuthChecked, AssertEffect, Closing

LEMMA BeginKeeps ==
  ASSUME DiaryInv, NEW u \in Unlocks, Begin(u)
  PROVE  DiaryInv'
<1> DEFINE s == SessionOf[u]
<1>1. TypeOK /\ s \in Sessions /\ Closing /\ unlock[u] = "idle"
  BY SessionKnown, CheckingCloses DEF DiaryInv, Begin
<1>2. CASE ~(s \in auth /\ quiescence[s] = 0)
  BY <1>1, <1>2, FailingKeeps DEF Begin
<1>3. CASE s \in auth /\ quiescence[s] = 0
  <2>1. /\ sequence' = [sequence EXCEPT ![s] = @ + 1]
        /\ ticket' = [ticket EXCEPT ![u] = [generation |-> generation[s],
                                            sequence |-> sequence[s] + 1]]
        /\ key' = [key EXCEPT ![u] = IF config = None THEN u ELSE config]
        /\ unlock' = [unlock EXCEPT ![u] = IF config = None THEN "setup" ELSE "hashing"]
        /\ UNCHANGED <<epoch, caps, capEpoch, erased, grant, hash, lapsed>>
        /\ UNCHANGED <<config, auth, leases, line, lock, fence, body, lease, waits>>
    BY <1>3 DEF Begin, memory
  <2>2. unlock'[u] \in {"setup", "hashing"} /\ \A w \in Unlocks \ {u} : unlock'[w] = unlock[w]
    BY <1>1, <2>1 DEF TypeOK
  <2>3. \A w \in Unlocks \ {u} : ticket'[w] = ticket[w] /\ key'[w] = key[w]
    BY <1>1, <2>1 DEF TypeOK
  <2>4. u \notin caps /\ u \notin lapsed /\ u \notin erased
    BY <1>1 DEF DiaryInv, UnlockSound, CapabilitySound
  <2>5. TypeOK'
    <3>1. /\ sequence' \in [Sessions -> Nat] /\ key' \in [Unlocks -> Unlocks \cup {None}]
          /\ unlock' \in [Unlocks -> {"idle", "setup", "hashing", "inline", "draining",
                                      "issued", "failed"}]
      <4>0. sequence \in [Sessions -> Nat] /\ s \in Sessions
        BY <1>1 DEF TypeOK
      <4>1. sequence' \in [Sessions -> Nat]
        BY <2>1, <4>0
      <4>2. key' \in [Unlocks -> Unlocks \cup {None}]
        BY <1>1, <2>1 DEF TypeOK
      <4>3. unlock' \in [Unlocks -> {"idle", "setup", "hashing", "inline", "draining",
                                     "issued", "failed"}]
        BY <1>1, <2>1 DEF TypeOK
      <4> QED
        BY <4>1, <4>2, <4>3
    <3>2. [generation |-> generation[s], sequence |-> sequence[s] + 1]
             \in [generation : Nat, sequence : Nat]
      BY <1>1 DEF TypeOK
    <3>3. ticket' \in [Unlocks -> [generation : Nat, sequence : Nat]]
      BY <1>1, <2>1, <3>2 DEF TypeOK
    <3> QED
      BY <1>1, <2>1, <3>1, <3>3, ClosingFacts DEF TypeOK
  <2>6. \A t \in Sessions : LeasesCounted(t)'
    BY <1>1, <2>1, LeasesKept DEF DiaryInv
  <2>7. \A b \in Bodies : LeaseHeld(b)'
    BY <2>1 DEF DiaryInv, LeaseHeld
  <2>8. ASSUME NEW v \in Unlocks
        PROVE  UnlockSound(v)'
    <3>1. UnlockSound(v)
      BY DEF DiaryInv
    <3>2. CASE v = u
      <4>1. /\ config = None => unlock'[u] = "setup" /\ key'[u] = u
            /\ config # None => unlock'[u] = "hashing" /\ key'[u] = config
        BY <1>1, <2>1 DEF TypeOK
      <4> QED
        BY <2>1, <2>4, <3>2, <4>1 DEF UnlockSound
    <3>3. CASE v # u
      BY <2>1, <2>2, <2>3, <3>1, <3>3 DEF UnlockSound
    <3> QED
      BY <3>2, <3>3
  <2>9. ASSUME NEW v \in Unlocks
        PROVE  DrainSound(v)'
    <3>1. DrainSound(v)
      BY DEF DiaryInv
    <3>2. CASE v = u
      BY <2>2, <3>2 DEF DrainSound
    <3>3. CASE v # u
      <4>1. unlock[v] = "draining" => InTurn(v)'
        BY <2>1, <3>1 DEF DrainSound, InTurn
      <4> QED
        BY <1>1, <2>1, <2>2, <2>3, <3>1, <3>3, <4>1, DrainKept
    <3> QED
      BY <3>2, <3>3
  <2>10. \A v \in Unlocks : CapabilitySound(v)'
    BY <2>1, <2>2, <2>4 DEF DiaryInv, CapabilitySound
  <2>11. ASSUME NEW k \in Locks
         PROVE  LockSound(k)'
    <3>1. \A b \in Bodies : body[b] = "open" => ticket'[lease[b]] = ticket[lease[b]]
      <4>1. \A b \in Bodies : body[b] = "open" => lease[b] \in Unlocks \ {u}
        BY <2>4 DEF DiaryInv, LeaseHeld
      <4> QED
        BY <2>3, <4>1
    <3>2. \A v \in caps : ticket'[v] = ticket[v]
      BY <1>1, <2>3, <2>4 DEF TypeOK
    <3> QED
      BY <1>1, <2>1, <3>1, <3>2, LockKept DEF DiaryInv
  <2>12. GrantsAreLive'
    BY <2>1 DEF DiaryInv, GrantsAreLive
  <2> QED
    BY <2>5, <2>6, <2>7, <2>8, <2>9, <2>10, <2>11, <2>12 DEF DiaryInv
<1> QED
  BY <1>2, <1>3

LEMMA HashFailsKeeps ==
  ASSUME DiaryInv, NEW u \in Unlocks, HashFails(u)
  PROVE  DiaryInv'
  BY FailingKeeps DEF HashFails, Closing

LEMMA UnwrapKeeps ==
  ASSUME DiaryInv, NEW u \in Unlocks, Unwrap(u)
  PROVE  DiaryInv'
  BY JoiningKeeps DEF Unwrap, Closing

LEMMA StoreKeeps ==
  ASSUME DiaryInv, NEW u \in Unlocks, Store(u)
  PROVE  DiaryInv'
<1> DEFINE g == ticket[u].generation
<1>1. Closing /\ unlock[u] = "setup"
  BY CheckingCloses DEF Store
<1>2. CASE Asserted(u, g) /\ config = None
  BY <1>1, <1>2, JoiningKeeps DEF Store
<1>3. CASE ~(Asserted(u, g) /\ config = None)
  BY <1>1, <1>3, FailingKeeps DEF Store
<1> QED
  BY <1>2, <1>3

LEMMA TurnKeeps ==
  ASSUME DiaryInv, NEW u \in Unlocks, Turn(u)
  PROVE  DiaryInv'
<1> DEFINE s == SessionOf[u]
           g == ticket[u].generation
<1>1. /\ TypeOK /\ s \in Sessions /\ unlock[u] = "inline" /\ InTurn(u)
      /\ UNCHANGED <<config, auth, sequence, leases, key, ticket, lock, fence, body, lease>>
  BY SessionKnown DEF DiaryInv, Turn
<1>2. CASE ~Asserted(u, g) /\ AssertEffect(u, g) /\ Fails(u) /\ LeavesLine(u) /\ waits' = waits
  BY <1>1, <1>2, CheckingCloses, FailingKeeps
<1>3. CASE /\ Asserted(u, g) /\ caps \cap Of(s) = {} /\ Publishes(u) /\ LeavesLine(u)
           /\ UNCHANGED <<fences, waits>>
  <2>1. \A k \in Locks : SessionOf[k] = s => g >= fence[k]
    <3> SUFFICES ASSUME NEW k \in Locks, SessionOf[k] = s PROVE g >= fence[k]
      OBVIOUS
    <3>1. LockSound(k) /\ generation[s] = g /\ generation[s] \in Nat /\ fence[k] \in Nat
      BY <1>1, <1>3 DEF DiaryInv, Asserted, TicketCurrent, TypeOK
    <3> QED
      BY <3>1 DEF LockSound
  <2> QED
    BY <1>1, <1>3, <2>1, PublishingKeeps DEF fences
<1>4. CASE /\ Asserted(u, g) /\ caps \cap Of(s) # {} /\ Invalidates(s)
           /\ waits' = [waits EXCEPT ![u] = generation[s] + 1]
           /\ unlock' = [unlock EXCEPT ![u] = "draining"]
           /\ UNCHANGED <<memory, line>>
  <2>1. Closing /\ UNCHANGED <<epoch, caps, capEpoch, erased, grant, hash, lapsed, line>>
    BY <1>1, <1>4 DEF Closing, memory
  <2>2. quiescence[s] = 0 /\ generation[s] = g
    BY <1>4 DEF Asserted, TicketCurrent
  <2>3. generation'[s] = generation[s] + 1 /\ quiescence'[s] = generation[s] + 1
    BY <1>1, <1>4, <2>2 DEF Invalidates, TypeOK
  <2>4. unlock'[u] = "draining" /\ \A w \in Unlocks \ {u} : unlock'[w] = unlock[w]
    BY <1>1, <1>4 DEF TypeOK
  <2>5. waits'[u] = g + 1 /\ \A r \in (Unlocks \cup Locks) \ {u} : waits'[r] = waits[r]
    BY <1>1, <1>4, <2>2 DEF TypeOK
  <2>6. TypeOK'
    <3>1. unlock' \in [Unlocks -> {"idle", "setup", "hashing", "inline", "draining",
                                   "issued", "failed"}]
      BY <1>1, <1>4 DEF TypeOK
    <3>2. waits' \in [Unlocks \cup Locks -> Nat]
      <4>1. waits \in [Unlocks \cup Locks -> Nat] /\ generation[s] + 1 \in Nat
        BY <1>1 DEF TypeOK
      <4> QED
        BY <1>4, <4>1
    <3> QED
      BY <1>1, <2>1, <3>1, <3>2, ClosingFacts DEF TypeOK
  <2>7. \A t \in Sessions : LeasesCounted(t)'
    BY <1>1, <2>1, LeasesKept DEF DiaryInv
  <2>8. \A b \in Bodies : LeaseHeld(b)'
    BY <1>1, <2>1 DEF DiaryInv, LeaseHeld
  <2>9. ASSUME NEW v \in Unlocks
        PROVE  UnlockSound(v)'
    <3>1. UnlockSound(v)
      BY DEF DiaryInv
    <3>2. CASE v = u
      BY <1>1, <2>1, <2>4, <3>1, <3>2 DEF UnlockSound
    <3>3. CASE v # u
      BY <1>1, <2>1, <2>4, <3>1, <3>3 DEF UnlockSound
    <3> QED
      BY <3>2, <3>3
  <2>10. ASSUME NEW v \in Unlocks
         PROVE  DrainSound(v)'
    <3>1. DrainSound(v)
      BY DEF DiaryInv
    <3>2. CASE v = u
      <4>1. InTurn(u)'
        BY <1>1, <2>1 DEF InTurn
      <4>2. waits'[u] = ticket'[u].generation + 1 /\ waits'[u] <= generation'[s]
            /\ quiescence'[s] = waits'[u]
        BY <1>1, <2>2, <2>3, <2>5 DEF TypeOK
      <4>3. ASSUME NEW k \in Locks, SessionOf[k] = s
            PROVE  fence[k] # waits'[u]
        <5>1. LockSound(k) /\ fence[k] \in Nat /\ generation[s] \in Nat
          BY <1>1 DEF DiaryInv, TypeOK
        <5>2. fence[k] <= generation[s]
          BY <4>3, <5>1 DEF LockSound
        <5> QED
          BY <2>2, <2>5, <5>1, <5>2
      <4> QED
        BY <1>1, <3>2, <4>1, <4>2, <4>3 DEF DrainSound
    <3>3. CASE v # u
      <4>1. unlock[v] = "draining" => InTurn(v)'
        BY <2>1, <3>1 DEF DrainSound, InTurn
      <4>2. waits'[v] = waits[v]
        BY <2>5, <3>3
      <4> QED
        BY <1>1, <2>1, <2>4, <3>1, <3>3, <4>1, <4>2, DrainKept
    <3> QED
      BY <3>2, <3>3
  <2>11. ASSUME NEW v \in Unlocks
         PROVE  CapabilitySound(v)'
    <3>1. CapabilitySound(v) /\ CapabilitySound(u)
      BY DEF DiaryInv
    <3> QED
      BY <1>1, <2>1, <2>4, <3>1 DEF CapabilitySound
  <2>12. ASSUME NEW k \in Locks
         PROVE  LockSound(k)'
    <3>1. waits'[k] = waits[k]
      BY <2>5, KindsAssumption
    <3> QED
      BY <1>1, <2>1, <3>1, LockKept DEF DiaryInv
  <2>13. GrantsAreLive'
    BY <2>1 DEF DiaryInv, GrantsAreLive
  <2> QED
    BY <2>6, <2>7, <2>8, <2>9, <2>10, <2>11, <2>12, <2>13 DEF DiaryInv
<1> QED
  BY <1>2, <1>3, <1>4 DEF Turn

LEMMA ReplaceKeeps ==
  ASSUME DiaryInv, NEW u \in Unlocks, Replace(u)
  PROVE  DiaryInv'
<1> DEFINE s == SessionOf[u]
           g == waits[u]
<1>1. /\ TypeOK /\ s \in Sessions /\ unlock[u] = "draining" /\ InTurn(u)
      /\ Completed(u) /\ AssertEffect(u, g) /\ LeavesLine(u)
      /\ UNCHANGED <<config, auth, sequence, leases, key, ticket, lock, fence, body, lease, waits>>
  BY SessionKnown DEF DiaryInv, Replace
<1>2. CASE ~Asserted(u, g)
  <2>1. Fails(u)
    BY <1>2 DEF Replace
  <2> QED
    BY <1>1, <2>1, CheckingCloses, FailingKeeps
<1>3. CASE Asserted(u, g)
  <2>1. Publishes(u) /\ quiescence[s] = 0 /\ generation[s] = g /\ UNCHANGED fences
    BY <1>1, <1>3 DEF Replace, Asserted, TicketCurrent, AssertEffect, AuthChecked
  <2>2. DrainSound(u)
    BY DEF DiaryInv
  <2>3. caps \cap Of(s) = {}
    BY <1>1, <2>1, <2>2 DEF DrainSound, Completed
  <2>4. ASSUME NEW k \in Locks, SessionOf[k] = s
        PROVE  ticket[u].generation >= fence[k]
    <3>1. /\ LockSound(k) /\ fence[k] \in Nat /\ generation[s] \in Nat
          /\ ticket[u].generation \in Nat
      BY <1>1 DEF DiaryInv, TypeOK
    <3>2. fence[k] <= generation[s]
      BY <2>4, <3>1 DEF LockSound
    <3>3. fence[k] # waits[u] /\ waits[u] = ticket[u].generation + 1
      BY <1>1, <2>2, <2>4 DEF DrainSound
    <3> QED
      BY <2>1, <3>1, <3>2, <3>3
  <2> QED
    BY <1>1, <2>1, <2>3, <2>4, PublishingKeeps DEF fences
<1> QED
  BY <1>2, <1>3

(* A drained session gives up its capabilities: it has no leases, and what *)
(* it published is from before its quiescence.                             *)
LEMMA FinalizeKeeps ==
  ASSUME DiaryInv, NEW s \in Sessions, Finalize(s)
  PROVE  DiaryInv'
<1>1. /\ TypeOK /\ quiescence[s] # 0 /\ s \in drained
      /\ caps' = caps \ Of(s)
      /\ erased' = erased \cup (caps \cap Of(s))
      /\ grant' = [g \in Grants |->
                     IF \E u \in caps \cap Of(s) : hash[u] = g THEN None ELSE grant[g]]
      /\ epoch' = [epoch EXCEPT ![s] = @ + 1]
      /\ quiescence' = [quiescence EXCEPT ![s] = 0]
      /\ drained' = drained \ {s}
      /\ UNCHANGED <<config, auth, generation, sequence, leases, line, capEpoch, key, hash,
                     unlock, ticket, lock, fence, body, lease, waits, lapsed>>
  BY DEF DiaryInv, Finalize
<1>2. quiescence'[s] = 0 /\ \A t \in Sessions \ {s} : quiescence'[t] = quiescence[t]
  BY <1>1 DEF TypeOK
<1>3. \A t \in Sessions : OpenBodies(t)' = OpenBodies(t)
  BY <1>1 DEF OpenBodies
<1>4. OpenBodies(s) = {}
  <2>1. IsFiniteSet(OpenBodies(s))
    BY BodiesAssumption, FS_Subset DEF OpenBodies
  <2>2. Cardinality(OpenBodies(s)) = 0
    BY <1>1 DEF DiaryInv, LeasesCounted
  <2> QED
    BY <2>1, <2>2, FS_EmptySet
<1>5. TypeOK'
  <2>1. epoch' \in [Sessions -> Nat] /\ quiescence' \in [Sessions -> Nat]
    BY <1>1 DEF TypeOK
  <2>2. grant' \in [Grants -> Unlocks \cup {None}]
    BY <1>1 DEF TypeOK
  <2>3. drained' \subseteq Sessions /\ caps' \subseteq Unlocks /\ erased' \subseteq Unlocks
    BY <1>1 DEF TypeOK
  <2> QED
    BY <1>1, <2>1, <2>2, <2>3 DEF TypeOK
<1>6. ASSUME NEW t \in Sessions
      PROVE  LeasesCounted(t)'
  <2>1. LeasesCounted(t) /\ generation[t] \in Nat
    BY <1>1 DEF DiaryInv, TypeOK
  <2>2. CASE t = s
    BY <1>1, <1>2, <1>3, <2>1, <2>2 DEF LeasesCounted
  <2>3. CASE t # s
    BY <1>1, <1>2, <1>3, <2>1, <2>3 DEF LeasesCounted
  <2> QED
    BY <2>2, <2>3
<1>7. ASSUME NEW b \in Bodies
      PROVE  LeaseHeld(b)'
  <2>1. LeaseHeld(b) /\ (body[b] = "open" => SessionOf[b] # s)
    BY <1>4 DEF DiaryInv, OpenBodies
  <2> QED
    BY <1>1, <2>1 DEF LeaseHeld, Of
<1>8. ASSUME NEW v \in Unlocks
      PROVE  UnlockSound(v)'
  <2>1. UnlockSound(v) /\ CapabilitySound(v)
    BY DEF DiaryInv
  <2>2. v \in caps => unlock[v] = "issued"
    BY <2>1 DEF CapabilitySound
  <2> QED
    BY <1>1, <2>1, <2>2 DEF UnlockSound
<1>9. ASSUME NEW v \in Unlocks
      PROVE  DrainSound(v)'
  <2>1. DrainSound(v) /\ SessionOf[v] \in Sessions
    BY SessionKnown DEF DiaryInv
  <2>2. InTurn(v)' = InTurn(v) /\ Of(SessionOf[v])' = Of(SessionOf[v])
    BY <1>1 DEF InTurn, Of
  <2>3. CASE SessionOf[v] = s
    BY <1>1, <2>1, <2>2, <2>3 DEF DrainSound, Of
  <2>4. CASE SessionOf[v] # s
    BY <1>1, <1>2, <2>1, <2>2, <2>4 DEF DrainSound
  <2> QED
    BY <2>3, <2>4
<1>10. ASSUME NEW v \in Unlocks
       PROVE  CapabilitySound(v)'
  <2>1. CapabilitySound(v) /\ SessionOf[v] \in Sessions
    BY SessionKnown DEF DiaryInv
  <2>2. v \in caps' => SessionOf[v] # s
    BY <1>1 DEF Of
  <2>3. SessionOf[v] # s => epoch'[SessionOf[v]] = epoch[SessionOf[v]]
    BY <1>1, <2>1 DEF TypeOK
  <2> QED
    BY <1>1, <2>1, <2>2, <2>3 DEF CapabilitySound, Of
<1>11. ASSUME NEW k \in Locks
       PROVE  LockSound(k)'
  <2>1. LockSound(k) /\ SessionOf[k] \in Sessions
    BY SessionKnown DEF DiaryInv
  <2>2. CASE lock[k] = "idle"
    BY <1>1, <2>1, <2>2 DEF LockSound
  <2>3. CASE lock[k] # "idle" /\ SessionOf[k] = s
    <3>1. caps' \cap Of(SessionOf[k]) = {} /\ OpenBodies(SessionOf[k])' = {}
      BY <1>1, <1>3, <1>4, <2>3
    <3>2. Completed(k)'
      BY <1>1, <1>2, <2>1, <2>3 DEF LockSound, Completed
    <3> QED
      BY <1>1, <2>1, <2>3, <3>1, <3>2 DEF LockSound, Of
  <2>4. CASE lock[k] # "idle" /\ SessionOf[k] # s
    <3>1. Completed(k)' = Completed(k)
      BY <1>1, <1>2, <2>1, <2>4 DEF Completed
    <3>2. OpenBodies(SessionOf[k])' = OpenBodies(SessionOf[k])
      BY <1>3, <2>1
    <3> QED
      BY <1>1, <2>1, <2>4, <3>1, <3>2 DEF LockSound, Of
  <2> QED
    BY <2>2, <2>3, <2>4
<1>12. GrantsAreLive'
  BY <1>1 DEF DiaryInv, GrantsAreLive
<1> QED
  BY <1>5, <1>6, <1>7, <1>8, <1>9, <1>10, <1>11, <1>12 DEF DiaryInv

(* A step that only closes a session, or ends its authentication.          *)
LEMMA ClosingKeeps ==
  ASSUME DiaryInv, Closing, auth' \subseteq auth,
         UNCHANGED <<config, memory, sequence, leases, line, key, unlock, ticket, lock, fence,
                     body, lease, waits>>
  PROVE  DiaryInv'
<1>1. TypeOK /\ UNCHANGED <<epoch, caps, capEpoch, erased, grant, hash, lapsed>>
  BY DEF DiaryInv, memory
<1>2. TypeOK'
  BY <1>1, ClosingFacts DEF TypeOK
<1>3. \A t \in Sessions : LeasesCounted(t)'
  BY <1>1, LeasesKept DEF DiaryInv
<1>4. \A b \in Bodies : LeaseHeld(b)'
  BY <1>1 DEF DiaryInv, LeaseHeld
<1>5. \A v \in Unlocks : UnlockSound(v)' /\ CapabilitySound(v)'
  BY <1>1 DEF DiaryInv, UnlockSound, CapabilitySound
<1>6. ASSUME NEW v \in Unlocks
      PROVE  DrainSound(v)'
  <2>1. unlock[v] = "draining" => InTurn(v)'
    BY DEF DiaryInv, DrainSound, InTurn
  <2> QED
    BY <1>1, <2>1, DrainKept DEF DiaryInv
<1>7. \A k \in Locks : LockSound(k)'
  BY <1>1, LockKept DEF DiaryInv
<1>8. GrantsAreLive'
  BY <1>1 DEF DiaryInv, GrantsAreLive
<1> QED
  BY <1>2, <1>3, <1>4, <1>5, <1>6, <1>7, <1>8 DEF DiaryInv

LEMMA ExpireAndNoticeKeep ==
  ASSUME DiaryInv, NEW s \in Sessions, Expire(s) \/ Notice(s)
  PROVE  DiaryInv'
<1>1. CASE Expire(s)
  BY <1>1, ClosingKeeps DEF Expire, Closing
<1>2. CASE Notice(s)
  BY <1>2, ClosingKeeps DEF Notice, Closing
<1> QED
  BY <1>1, <1>2

(* The early timer takes a capability away and says so. *)
LEMMA TimerDropsKeeps ==
  ASSUME DiaryInv, NEW u \in Unlocks, TimerDrops(u)
  PROVE  DiaryInv'
<1>1. /\ TypeOK /\ Closing /\ u \in caps /\ caps' = caps \ {u} /\ erased' = erased \cup {u}
      /\ lapsed' = lapsed \cup {u}
      /\ grant' = [g \in Grants |-> IF hash[u] = g THEN None ELSE grant[g]]
      /\ UNCHANGED <<config, auth, generation, quiescence, drained, epoch, capEpoch, hash,
                     sequence, leases, line, key, unlock, ticket, lock, fence, body, lease,
                     waits>>
  BY DEF DiaryInv, TimerDrops, Closing, fences
<1>2. unlock[u] = "issued"
  BY <1>1 DEF DiaryInv, CapabilitySound
<1>3. TypeOK'
  <2>1. grant' \in [Grants -> Unlocks \cup {None}]
    BY <1>1 DEF TypeOK
  <2>2. caps' \subseteq Unlocks /\ erased' \subseteq Unlocks /\ lapsed' \subseteq Unlocks
    BY <1>1 DEF TypeOK
  <2> QED
    BY <1>1, <2>1, <2>2 DEF TypeOK
<1>4. \A t \in Sessions : LeasesCounted(t)'
  BY <1>1, LeasesKept DEF DiaryInv
<1>5. \A b \in Bodies : LeaseHeld(b)'
  BY <1>1 DEF DiaryInv, LeaseHeld
<1>6. \A v \in Unlocks : UnlockSound(v)'
  BY <1>1, <1>2 DEF DiaryInv, UnlockSound
<1>7. ASSUME NEW v \in Unlocks
      PROVE  DrainSound(v)'
  <2>1. unlock[v] = "draining" => InTurn(v)'
    BY <1>1 DEF DiaryInv, DrainSound, InTurn
  <2> QED
    BY <1>1, <2>1, DrainKept DEF DiaryInv
<1>8. \A v \in Unlocks : CapabilitySound(v)'
  BY <1>1 DEF DiaryInv, CapabilitySound
<1>9. \A k \in Locks : LockSound(k)'
  BY <1>1, LockKept DEF DiaryInv
<1>10. GrantsAreLive'
  BY <1>1 DEF DiaryInv, GrantsAreLive
<1> QED
  BY <1>3, <1>4, <1>5, <1>6, <1>7, <1>8, <1>9, <1>10 DEF DiaryInv

(* A lock closes its session and is the first of its generation. *)
LEMMA BeginLockKeeps ==
  ASSUME DiaryInv, NEW k \in Locks, BeginLock(k)
  PROVE  DiaryInv'
<1> DEFINE s == SessionOf[k]
<1>1. /\ TypeOK /\ s \in Sessions /\ Closing /\ lock[k] = "idle" /\ Invalidates(s)
      /\ waits' = [waits EXCEPT ![k] = quiescence'[s]]
      /\ fence' = [fence EXCEPT ![k] = generation[s] + 1]
      /\ lock' = [lock EXCEPT ![k] = "waiting"]
      /\ UNCHANGED <<epoch, caps, capEpoch, erased, grant, hash, lapsed>>
      /\ UNCHANGED <<config, auth, sequence, leases, line, key, unlock, ticket, body, lease>>
  BY SessionKnown DEF DiaryInv, BeginLock, Closing, memory
<1>2. generation[s] \in Nat /\ generation'[s] = generation[s] + 1
  BY <1>1 DEF Invalidates, TypeOK
<1>3. /\ waits'[k] = quiescence'[s] /\ fence'[k] = generation[s] + 1 /\ lock'[k] = "waiting"
      /\ \A r \in (Unlocks \cup Locks) \ {k} : waits'[r] = waits[r]
      /\ \A j \in Locks \ {k} : fence'[j] = fence[j] /\ lock'[j] = lock[j]
  BY <1>1 DEF TypeOK
<1>4. quiescence'[s] # 0 /\ quiescence'[s] <= generation'[s] /\ quiescence'[s] \in Nat
  <2>1. quiescence'[s] = IF quiescence[s] = 0 THEN generation[s] + 1 ELSE quiescence[s]
    BY <1>1 DEF Invalidates, TypeOK
  <2>2. quiescence[s] <= generation[s] /\ quiescence[s] \in Nat
    BY <1>1 DEF DiaryInv, LeasesCounted, TypeOK
  <2> QED
    BY <1>2, <2>1, <2>2
<1>5. TypeOK'
  <2>1. waits' \in [Unlocks \cup Locks -> Nat]
    <3>1. waits \in [Unlocks \cup Locks -> Nat]
      BY <1>1 DEF TypeOK
    <3> QED
      BY <1>1, <1>4, <3>1
  <2>2. fence' \in [Locks -> Nat]
    BY <1>1, <1>2 DEF TypeOK
  <2>3. lock' \in [Locks -> {"idle", "waiting", "done"}]
    BY <1>1 DEF TypeOK
  <2> QED
    BY <1>1, <2>1, <2>2, <2>3, ClosingFacts DEF TypeOK
<1>6. \A t \in Sessions : LeasesCounted(t)'
  BY <1>1, LeasesKept DEF DiaryInv
<1>7. \A b \in Bodies : LeaseHeld(b)'
  BY <1>1 DEF DiaryInv, LeaseHeld
<1>8. \A v \in Unlocks : UnlockSound(v)' /\ CapabilitySound(v)'
  BY <1>1 DEF DiaryInv, UnlockSound, CapabilitySound
<1>9. ASSUME NEW v \in Unlocks
      PROVE  DrainSound(v)'
  <2> SUFFICES ASSUME unlock[v] = "draining" PROVE DrainSound(v)'
    BY <1>1 DEF DrainSound
  <2> DEFINE t == SessionOf[v]
  <2>1. DrainSound(v) /\ waits'[v] = waits[v] /\ t \in Sessions
    BY <1>3, KindsAssumption, SessionKnown DEF DiaryInv
  <2>2. /\ generation[t] \in Nat /\ generation'[t] \in Nat /\ waits[v] \in Nat
        /\ quiescence[t] \in Nat /\ quiescence'[t] \in Nat /\ ticket[v].generation \in Nat
    BY <1>1, <2>1, ClosingFacts DEF TypeOK
  <2>3. /\ InTurn(v)' /\ waits[v] = ticket[v].generation + 1 /\ waits[v] <= generation[t]
    BY <1>1, <2>1 DEF DrainSound, InTurn
  <2>4. waits'[v] <= generation'[t]
    BY <1>1, <2>1, <2>2, <2>3, ClosingFacts
  <2>5. ASSUME quiescence'[t] # waits'[v]
        PROVE  caps' \cap Of(t) = {} \/ generation'[t] # waits'[v]
    <3>1. CASE quiescence[t] = waits[v]
      BY <1>1, <2>1, <2>2, <2>3, <2>5, <3>1, ClosingFacts
    <3>2. CASE quiescence[t] # waits[v]
      <4>1. caps \cap Of(t) = {} \/ generation[t] # waits[v]
        BY <2>1, <3>2 DEF DrainSound
      <4>2. generation'[t] >= generation[t]
        BY <1>1, <2>1, ClosingFacts
      <4> QED
        BY <1>1, <2>1, <2>2, <2>3, <4>1, <4>2
    <3> QED
      BY <3>1, <3>2
  <2>6. ASSUME NEW j \in Locks, SessionOf[j] = t
        PROVE  fence'[j] # waits'[v]
    <3>1. CASE j = k
      BY <1>2, <1>3, <2>1, <2>2, <2>3, <2>6, <3>1
    <3>2. CASE j # k
      BY <1>3, <2>1, <2>6, <3>2 DEF DrainSound
    <3> QED
      BY <3>1, <3>2
  <2> QED
    BY <1>1, <2>1, <2>3, <2>4, <2>5, <2>6 DEF DrainSound, Of
<1>10. ASSUME NEW j \in Locks
       PROVE  LockSound(j)'
  <2>1. CASE j = k
    <3>1. ~Completed(k)'
      BY <1>3 DEF Completed
    <3>2. waits'[k] # 0 /\ waits'[k] <= generation'[s] /\ fence'[k] <= generation'[s]
      BY <1>2, <1>3, <1>4
    <3> QED
      BY <1>3, <2>1, <3>1, <3>2 DEF LockSound
  <2>2. CASE j # k
    BY <1>1, <1>3, <2>2, LockKept DEF DiaryInv
  <2> QED
    BY <2>1, <2>2
<1>11. GrantsAreLive'
  BY <1>1 DEF DiaryInv, GrantsAreLive
<1> QED
  BY <1>5, <1>6, <1>7, <1>8, <1>9, <1>10, <1>11 DEF DiaryInv

(* A lock that answers has been waited for. *)
LEMMA EndLockKeeps ==
  ASSUME DiaryInv, NEW k \in Locks, NEW logout \in BOOLEAN, EndLock(k, logout)
  PROVE  DiaryInv'
<1>1. /\ TypeOK /\ Closing /\ lock[k] = "waiting" /\ Completed(k)
      /\ lock' = [lock EXCEPT ![k] = "done"] /\ auth' \subseteq auth
      /\ UNCHANGED <<epoch, caps, capEpoch, erased, grant, hash, lapsed>>
      /\ UNCHANGED <<config, generation, quiescence, drained, sequence, leases, line, key,
                     unlock, ticket, fence, body, lease, waits>>
  BY DEF DiaryInv, EndLock, Closing, memory, fences
<1>2. TypeOK'
  <2>1. lock' \in [Locks -> {"idle", "waiting", "done"}]
    BY <1>1 DEF TypeOK
  <2> QED
    BY <1>1, <2>1 DEF TypeOK
<1>3. \A t \in Sessions : LeasesCounted(t)'
  BY <1>1, LeasesKept DEF DiaryInv
<1>4. \A b \in Bodies : LeaseHeld(b)'
  BY <1>1 DEF DiaryInv, LeaseHeld
<1>5. \A v \in Unlocks : UnlockSound(v)' /\ CapabilitySound(v)'
  BY <1>1 DEF DiaryInv, UnlockSound, CapabilitySound
<1>6. ASSUME NEW v \in Unlocks
      PROVE  DrainSound(v)'
  <2>1. unlock[v] = "draining" => InTurn(v)'
    BY <1>1 DEF DiaryInv, DrainSound, InTurn
  <2> QED
    BY <1>1, <2>1, DrainKept DEF DiaryInv
<1>7. ASSUME NEW j \in Locks
      PROVE  LockSound(j)'
  <2>1. lock'[j] = IF j = k THEN "done" ELSE lock[j]
    BY <1>1 DEF TypeOK
  <2>2. Completed(j)' = Completed(j) /\ OpenBodies(SessionOf[j])' = OpenBodies(SessionOf[j])
    BY <1>1 DEF Completed, OpenBodies
  <2> QED
    BY <1>1, <2>1, <2>2 DEF DiaryInv, LockSound
<1>8. GrantsAreLive'
  BY <1>1 DEF DiaryInv, GrantsAreLive
<1> QED
  BY <1>2, <1>3, <1>4, <1>5, <1>6, <1>7, <1>8 DEF DiaryInv

(* A body operation leases a capability of its own session that is newer   *)
(* than every lock that has been waited for, or it is refused.             *)
LEMMA OpenBodyKeeps ==
  ASSUME DiaryInv, NEW b \in Bodies, NEW u \in Unlocks, OpenBody(b, u)
  PROVE  DiaryInv'
<1> DEFINE s == SessionOf[b]
<1>1. /\ TypeOK /\ s \in Sessions /\ body[b] = "idle"
      /\ UNCHANGED <<epoch, caps, capEpoch, erased, grant, hash, lapsed>>
      /\ UNCHANGED <<config, auth, sequence, line, key, unlock, ticket, lock, fence, waits>>
  BY SessionKnown DEF DiaryInv, OpenBody, memory
<1>2. Closing
  BY SessionKnown DEF OpenBody, AuthChecked, Closing
<1>3. \A v \in Unlocks : UnlockSound(v)' /\ CapabilitySound(v)'
  BY <1>1 DEF DiaryInv, UnlockSound, CapabilitySound
<1>4. ASSUME NEW v \in Unlocks
      PROVE  DrainSound(v)'
  <2>1. unlock[v] = "draining" => InTurn(v)'
    BY <1>1 DEF DiaryInv, DrainSound, InTurn
  <2> QED
    BY <1>1, <1>2, <2>1, DrainKept DEF DiaryInv
<1>5. GrantsAreLive'
  BY <1>1 DEF DiaryInv, GrantsAreLive
<1>6. CASE ~CapabilityValid(s, u)
  <2>1. body' = [body EXCEPT ![b] = "over"] /\ leases' = leases /\ lease' = lease
    BY <1>6 DEF OpenBody
  <2>2. \A c \in Bodies : (body'[c] = "open") = (body[c] = "open")
    BY <1>1, <2>1 DEF TypeOK
  <2>3. TypeOK'
    <3>1. body' \in [Bodies -> {"idle", "open", "over"}]
      BY <1>1, <2>1 DEF TypeOK
    <3> QED
      BY <1>1, <1>2, <2>1, <3>1, ClosingFacts DEF TypeOK
  <2>4. ASSUME NEW t \in Sessions
        PROVE  LeasesCounted(t)'
    <3>1. OpenBodies(t)' = OpenBodies(t)
      BY <2>2 DEF OpenBodies
    <3>2. LeasesCounted(t)
      BY DEF DiaryInv
    <3>3. /\ generation[t] \in Nat /\ generation'[t] \in Nat
          /\ quiescence[t] \in Nat /\ quiescence'[t] \in Nat
      BY <1>1, <1>2, ClosingFacts DEF TypeOK
    <3>4. t \in drained' => leases'[t] = 0 /\ quiescence'[t] # 0
      BY <1>1, <1>2, <2>1, <3>2, ClosingFacts DEF LeasesCounted
    <3>5. quiescence'[t] <= generation'[t]
      BY <1>1, <1>2, <3>2, <3>3, ClosingFacts DEF LeasesCounted
    <3> QED
      BY <2>1, <3>1, <3>2, <3>4, <3>5 DEF LeasesCounted
  <2>5. \A c \in Bodies : LeaseHeld(c)'
    BY <1>1, <2>1, <2>2 DEF DiaryInv, LeaseHeld
  <2>6. \A k \in Locks : LockSound(k)'
    BY <1>1, <1>2, <2>1, <2>2, LockKept DEF DiaryInv
  <2> QED
    BY <1>3, <1>4, <1>5, <2>3, <2>4, <2>5, <2>6 DEF DiaryInv
<1>7. CASE CapabilityValid(s, u)
  <2>1. /\ leases' = [leases EXCEPT ![s] = @ + 1] /\ lease' = [lease EXCEPT ![b] = u]
        /\ body' = [body EXCEPT ![b] = "open"]
        /\ UNCHANGED <<generation, quiescence, drained>>
        /\ quiescence[s] = 0 /\ u \in caps /\ SessionOf[u] = s
    BY <1>7 DEF OpenBody, CapabilityValid, fences
  <2>2. /\ body'[b] = "open" /\ lease'[b] = u
        /\ \A c \in Bodies \ {b} : body'[c] = body[c] /\ lease'[c] = lease[c]
    BY <1>1, <2>1 DEF TypeOK
  <2>3. TypeOK'
    <3>1. body' \in [Bodies -> {"idle", "open", "over"}]
      BY <1>1, <2>1 DEF TypeOK
    <3>2. lease' \in [Bodies -> Unlocks \cup {None}]
      BY <1>1, <2>1 DEF TypeOK
    <3>3. leases' \in [Sessions -> Nat]
      <4>0. leases \in [Sessions -> Nat] /\ s \in Sessions
        BY <1>1 DEF TypeOK
      <4>1. leases \in [Sessions -> Nat] /\ leases[s] + 1 \in Nat
        BY <4>0
      <4> QED
        BY <1>1, <2>1, <4>1
    <3> QED
      BY <1>1, <2>1, <3>1, <3>2, <3>3 DEF TypeOK
  <2>4. ASSUME NEW t \in Sessions
        PROVE  LeasesCounted(t)'
    <3>1. LeasesCounted(t) /\ LeasesCounted(s)
      BY <1>1 DEF DiaryInv
    <3>2. CASE t = s
      <4>1. OpenBodies(s)' = OpenBodies(s) \cup {b} /\ b \notin OpenBodies(s)
        BY <1>1, <2>2 DEF OpenBodies
      <4>2. IsFiniteSet(OpenBodies(s))
        BY BodiesAssumption, FS_Subset DEF OpenBodies
      <4>3. Cardinality(OpenBodies(s)') = Cardinality(OpenBodies(s)) + 1
        BY <4>1, <4>2, FS_AddElement
      <4>4. leases'[s] = leases[s] + 1
        BY <1>1, <2>1 DEF TypeOK
      <4> QED
        BY <2>1, <3>1, <3>2, <4>3, <4>4 DEF LeasesCounted
    <3>3. CASE t # s
      <4>1. OpenBodies(t)' = OpenBodies(t)
        BY <2>2, <3>3 DEF OpenBodies
      <4>2. leases'[t] = leases[t]
        BY <1>1, <2>1, <3>3 DEF TypeOK
      <4> QED
        BY <2>1, <3>1, <4>1, <4>2 DEF LeasesCounted
    <3> QED
      BY <3>2, <3>3
  <2>5. ASSUME NEW c \in Bodies
        PROVE  LeaseHeld(c)'
    BY <1>1, <2>1, <2>2 DEF DiaryInv, LeaseHeld
  <2>6. ASSUME NEW k \in Locks
        PROVE  LockSound(k)'
    <3>1. LockSound(k) /\ Completed(k)' = Completed(k)
      BY <1>1, <2>1 DEF DiaryInv, Completed
    <3>2. CASE lock[k] = "idle"
      BY <1>1, <3>1, <3>2 DEF LockSound
    <3>3. CASE lock[k] # "idle"
      <4>1. ASSUME Completed(k), NEW c \in OpenBodies(SessionOf[k])'
            PROVE  ticket[lease'[c]].generation >= fence[k]
        <5>1. CASE c = b
          <6>1. SessionOf[k] = s
            BY <4>1, <5>1 DEF OpenBodies
          <6>2. u \in caps \cap Of(SessionOf[k])
            BY <2>1, <6>1 DEF Of
          <6> QED
            BY <2>2, <3>1, <3>3, <4>1, <5>1, <6>2 DEF LockSound
        <5>2. CASE c # b
          <6>1. c \in OpenBodies(SessionOf[k]) /\ lease'[c] = lease[c]
            BY <2>2, <4>1, <5>2 DEF OpenBodies
          <6> QED
            BY <3>1, <3>3, <4>1, <6>1 DEF LockSound
        <5> QED
          BY <5>1, <5>2
      <4> QED
        BY <1>1, <2>1, <3>1, <3>3, <4>1 DEF LockSound, Of
    <3> QED
      BY <3>2, <3>3
  <2> QED
    BY <1>3, <1>4, <1>5, <2>3, <2>4, <2>5, <2>6 DEF DiaryInv
<1> QED
  BY <1>6, <1>7

(* The last lease of a closing session drains it. *)
LEMMA CloseBodyKeeps ==
  ASSUME DiaryInv, NEW b \in Bodies, CloseBody(b)
  PROVE  DiaryInv'
<1> DEFINE s == SessionOf[b]
<1>1. /\ TypeOK /\ s \in Sessions /\ body[b] = "open"
      /\ body' = [body EXCEPT ![b] = "over"] /\ lease' = [lease EXCEPT ![b] = None]
      /\ leases' = [leases EXCEPT ![s] = @ - 1]
      /\ drained' = IF leases[s] = 1 /\ quiescence[s] # 0 THEN drained \cup {s} ELSE drained
      /\ UNCHANGED <<epoch, caps, capEpoch, erased, grant, hash, lapsed>>
      /\ UNCHANGED <<config, auth, generation, quiescence, sequence, line, key, unlock, ticket,
                     lock, fence, waits>>
  BY SessionKnown DEF DiaryInv, CloseBody, memory
<1>2. \A c \in Bodies : (body'[c] = "open") = (body[c] = "open" /\ c # b)
  BY <1>1 DEF TypeOK
<1>12. \A c \in Bodies : body'[c] = "open" => lease'[c] = lease[c]
  BY <1>1, <1>2 DEF TypeOK
<1>3. /\ OpenBodies(s)' = OpenBodies(s) \ {b} /\ b \in OpenBodies(s)
      /\ \A t \in Sessions \ {s} : OpenBodies(t)' = OpenBodies(t)
  BY <1>1, <1>2 DEF OpenBodies
<1>4. /\ leases[s] = Cardinality(OpenBodies(s)) /\ leases[s] \in Nat /\ leases[s] # 0
      /\ Cardinality(OpenBodies(s)') = leases[s] - 1 /\ leases'[s] = leases[s] - 1
  <2>1. IsFiniteSet(OpenBodies(s))
    BY BodiesAssumption, FS_Subset DEF OpenBodies
  <2>2. leases[s] = Cardinality(OpenBodies(s)) /\ leases[s] \in Nat
    BY <1>1 DEF DiaryInv, LeasesCounted, TypeOK
  <2>3. Cardinality(OpenBodies(s)') = leases[s] - 1
    BY <1>3, <2>1, <2>2, FS_RemoveElement
  <2>4. leases[s] # 0
    BY <1>3, <2>1, <2>2, FS_EmptySet
  <2>5. leases'[s] = leases[s] - 1
    BY <1>1 DEF TypeOK
  <2> QED
    BY <2>2, <2>3, <2>4, <2>5
<1>5. TypeOK'
  <2>1. body' \in [Bodies -> {"idle", "open", "over"}]
    BY <1>1 DEF TypeOK
  <2>2. leases' \in [Sessions -> Nat]
    <3>1. leases \in [Sessions -> Nat] /\ leases[s] - 1 \in Nat
      BY <1>1, <1>4 DEF TypeOK
    <3> QED
      BY <1>1, <3>1
  <2>3. drained' \subseteq Sessions
    BY <1>1 DEF TypeOK
  <2>4. lease' \in [Bodies -> Unlocks \cup {None}]
    BY <1>1 DEF TypeOK
  <2> QED
    BY <1>1, <2>1, <2>2, <2>3, <2>4 DEF TypeOK
<1>6. ASSUME NEW t \in Sessions
      PROVE  LeasesCounted(t)'
  <2>1. LeasesCounted(t)
    BY DEF DiaryInv
  <2>2. CASE t = s
    <3>1. s \notin drained
      BY <1>4, <2>1, <2>2 DEF LeasesCounted
    <3> QED
      BY <1>1, <1>4, <2>1, <2>2, <3>1 DEF LeasesCounted
  <2>3. CASE t # s
    <3>1. leases'[t] = leases[t] /\ (t \in drained' <=> t \in drained)
      BY <1>1, <2>3 DEF TypeOK
    <3> QED
      BY <1>1, <1>3, <2>1, <2>3, <3>1 DEF LeasesCounted
  <2> QED
    BY <2>2, <2>3
<1>7. \A c \in Bodies : LeaseHeld(c)'
  BY <1>1, <1>2, <1>12 DEF DiaryInv, LeaseHeld
<1>8. \A v \in Unlocks : UnlockSound(v)' /\ CapabilitySound(v)'
  BY <1>1 DEF DiaryInv, UnlockSound, CapabilitySound
<1>9. \A v \in Unlocks : DrainSound(v)'
  BY <1>1 DEF DiaryInv, DrainSound, InTurn
<1>10. ASSUME NEW k \in Locks
       PROVE  LockSound(k)'
  <2>1. LockSound(k) /\ Completed(k)' = Completed(k)
    BY <1>1 DEF DiaryInv, Completed
  <2>2. \A c \in OpenBodies(SessionOf[k])' :
          c \in OpenBodies(SessionOf[k]) /\ lease'[c] = lease[c]
    BY <1>1, <1>2, <1>12 DEF OpenBodies
  <2> QED
    BY <1>1, <2>1, <2>2 DEF LockSound
<1>11. GrantsAreLive'
  BY <1>1 DEF DiaryInv, GrantsAreLive
<1> QED
  BY <1>5, <1>6, <1>7, <1>8, <1>9, <1>10, <1>11 DEF DiaryInv

(* Tokens come and go, and lead to live capabilities. *)
LEMMA GrantsKeep ==
  ASSUME DiaryInv, NEW g \in Grants,
         (\E u \in Unlocks : Remember(u, g)) \/ Forget(g)
  PROVE  DiaryInv'
<1>1. /\ TypeOK
      /\ UNCHANGED <<epoch, caps, capEpoch, erased, lapsed>>
      /\ UNCHANGED <<config, auth, generation, quiescence, drained, sequence, leases, line,
                     key, unlock, ticket, lock, fence, body, lease, waits>>
  BY DEF DiaryInv, Remember, Forget, fences
<1>2. TypeOK' /\ GrantsAreLive'
  <2>1. ASSUME NEW u \in Unlocks, Remember(u, g)
        PROVE  TypeOK' /\ GrantsAreLive'
    <3>1. /\ u \in caps /\ g \notin {hash[v] : v \in Unlocks} /\ hash' = [hash EXCEPT ![u] = g]
          /\ grant' = [h \in Grants |-> IF h = g THEN u
                                        ELSE IF h = hash[u] THEN None ELSE grant[h]]
      BY <2>1 DEF Remember, CapabilityValid
    <3>2. hash' \in [Unlocks -> Grants \cup {None}]
      BY <1>1, <3>1 DEF TypeOK
    <3>3. grant' \in [Grants -> Unlocks \cup {None}]
      BY <1>1, <3>1 DEF TypeOK
    <3>4. TypeOK'
      BY <1>1, <3>2, <3>3 DEF TypeOK
    <3>5. hash'[u] = g /\ \A v \in Unlocks \ {u} : hash'[v] = hash[v]
      BY <1>1, <3>1 DEF TypeOK
    <3>6. ASSUME NEW h \in Grants, grant'[h] # None
          PROVE  grant'[h] \in caps' /\ hash'[grant'[h]] = h
      <4>1. CASE h = g
        BY <1>1, <3>1, <3>5, <4>1
      <4>2. CASE h # g
        <5>1. grant'[h] = grant[h] /\ h # hash[u] /\ grant[h] # None
          BY <3>1, <3>6, <4>2
        <5>2. grant[h] \in caps /\ hash[grant[h]] = h /\ grant[h] \in Unlocks
          BY <1>1, <5>1 DEF DiaryInv, GrantsAreLive, TypeOK
        <5> QED
          BY <1>1, <3>5, <5>1, <5>2
      <4> QED
        BY <4>1, <4>2
    <3> QED
      BY <3>4, <3>6 DEF GrantsAreLive
  <2>2. CASE Forget(g)
    <3>1. grant' = [grant EXCEPT ![g] = None] /\ hash' = hash
      BY <2>2 DEF Forget
    <3>2. grant' \in [Grants -> Unlocks \cup {None}]
      BY <1>1, <3>1 DEF TypeOK
    <3>3. TypeOK'
      BY <1>1, <3>1, <3>2 DEF TypeOK
    <3>4. GrantsAreLive'
      BY <1>1, <3>1 DEF DiaryInv, GrantsAreLive, TypeOK
    <3> QED
      BY <3>3, <3>4
  <2> QED
    BY <2>1, <2>2
<1>3. \A t \in Sessions : LeasesCounted(t)'
  BY <1>1 DEF DiaryInv, LeasesCounted, OpenBodies
<1>4. \A b \in Bodies : LeaseHeld(b)'
  BY <1>1 DEF DiaryInv, LeaseHeld
<1>5. \A v \in Unlocks : UnlockSound(v)' /\ CapabilitySound(v)' /\ DrainSound(v)'
  BY <1>1 DEF DiaryInv, UnlockSound, CapabilitySound, DrainSound, InTurn
<1>6. \A k \in Locks : LockSound(k)'
  BY <1>1 DEF DiaryInv, LockSound, Completed, OpenBodies
<1> QED
  BY <1>2, <1>3, <1>4, <1>5, <1>6 DEF DiaryInv

(* Every step of every request keeps the maps in agreement. *)
LEMMA DiaryStep == DiaryInv /\ [Next]_vars => DiaryInv'
<1> SUFFICES ASSUME DiaryInv, [Next]_vars PROVE DiaryInv'
  OBVIOUS
<1>1. ASSUME NEW s \in Sessions, Finalize(s) \/ Expire(s) \/ Notice(s) PROVE DiaryInv'
  BY <1>1, FinalizeKeeps, ExpireAndNoticeKeep
<1>2. ASSUME NEW u \in Unlocks,
             \/ Begin(u) \/ HashFails(u) \/ Unwrap(u) \/ Store(u)
             \/ Turn(u) \/ Replace(u) \/ TimerDrops(u)
      PROVE  DiaryInv'
  BY <1>2, BeginKeeps, HashFailsKeeps, UnwrapKeeps, StoreKeeps, TurnKeeps, ReplaceKeeps,
     TimerDropsKeeps
<1>3. ASSUME NEW k \in Locks, BeginLock(k) \/ \E logout \in BOOLEAN : EndLock(k, logout)
      PROVE  DiaryInv'
  BY <1>3, BeginLockKeeps, EndLockKeeps
<1>4. ASSUME NEW b \in Bodies, CloseBody(b) \/ \E u \in Unlocks : OpenBody(b, u)
      PROVE  DiaryInv'
  BY <1>4, OpenBodyKeeps, CloseBodyKeeps
<1>5. ASSUME NEW g \in Grants, (\E u \in Unlocks : Remember(u, g)) \/ Forget(g)
      PROVE  DiaryInv'
  BY <1>5, GrantsKeep
<1>6. CASE UNCHANGED vars
  BY <1>6, ClosingKeeps DEF vars, Closing, memory, fences
<1> QED
  BY <1>1, <1>2, <1>3, <1>4, <1>5, <1>6 DEF Next

(* The maps of the service agree with each other in every reachable state, *)
(* for any number of sessions, calls and body operations.                  *)
THEOREM DiaryInvariant == Spec => []DiaryInv
  BY DiaryInit, DiaryStep, PTL DEF Spec

(* A lock or logout that has answered is final: no capability from before  *)
(* it is alive and no body operation with one is under way.                *)
THEOREM LocksAreFinal == Spec => []LockIsFinal
<1>1. DiaryInv => LockIsFinal
  BY DEF DiaryInv, LockSound, LockIsFinal, OpenBodies
<1> QED
  BY <1>1, DiaryInvariant, PTL

(* A body operation keeps its key until its callback is over. *)
THEOREM LeasesKeepTheKey == Spec => []LeaseKeepsKey
<1>1. DiaryInv => LeaseKeepsKey
  BY DEF DiaryInv, LeaseHeld, CapabilitySound, LeaseKeepsKey
<1> QED
  BY <1>1, DiaryInvariant, PTL

(* Every live capability holds the key that is stored. *)
THEOREM OneKey == Spec => []KeyIsTheDiarys
<1>1. DiaryInv => KeyIsTheDiarys
  BY DEF DiaryInv, TypeOK, UnlockSound, CapabilitySound, KeyIsTheDiarys
<1> QED
  BY <1>1, DiaryInvariant, PTL

(* A call that is over and has no live capability has left no key behind.  *)
THEOREM KeysAreErased == Spec => []NoKeyLeftBehind
<1>1. DiaryInv => NoKeyLeftBehind
  BY DEF DiaryInv, UnlockSound, NoKeyLeftBehind
<1> QED
  BY <1>1, DiaryInvariant, PTL

(* The lines that no step touches stay sound, as long as the unlocks in    *)
(* issuance are the same.                                                  *)
LEMMA LineUntouched ==
  ASSUME UNCHANGED <<line, Issuing>>, \A s \in Sessions : LineSound(s)
  PROVE  \A s \in Sessions : LineSound(s)'
  BY DEF LineSound

(* An unlock gets in line behind all the others.                           *)
LEMMA LineJoined ==
  ASSUME TypeOK, \A s \in Sessions : LineSound(s),
         NEW u \in Unlocks, u \notin Issuing, Issuing' = Issuing \cup {u},
         line' = [line EXCEPT ![SessionOf[u]] = Append(@, u)]
  PROVE  \A s \in Sessions : LineSound(s)'
<1> SUFFICES ASSUME NEW s \in Sessions PROVE LineSound(s)'
  OBVIOUS
<1>1. line[s] \in Seq(Unlocks) /\ SessionOf[u] \in Sessions
  BY SessionKnown DEF TypeOK
<1>2. LineSound(s)
  OBVIOUS
<1>3. CASE s # SessionOf[u]
  <2>1. line'[s] = line[s]
    BY <1>3 DEF TypeOK
  <2>2. Issuing' \cap Of(s) = Issuing \cap Of(s)
    BY <1>3 DEF Of
  <2> QED BY <1>2, <2>1, <2>2 DEF LineSound, Of
<1>4. CASE s = SessionOf[u]
  <2>1. line'[s] = Append(line[s], u)
    BY <1>1, <1>4 DEF TypeOK
  <2>2. /\ DOMAIN line'[s] = 1..(Len(line[s]) + 1)
        /\ \A i \in 1..Len(line[s]) : line'[s][i] = line[s][i]
        /\ line'[s][Len(line[s]) + 1] = u
        /\ DOMAIN line[s] = 1..Len(line[s]) /\ Len(line[s]) \in Nat
    BY <1>1, <2>1
  <2>3. \A i \in 1..Len(line[s]) : line[s][i] \in Issuing /\ SessionOf[line[s][i]] = s
    BY <1>2, <2>2 DEF LineSound
  <2>4. \A i \in DOMAIN line'[s] : line'[s][i] \in Issuing' /\ SessionOf[line'[s][i]] = s
    BY <1>4, <2>2, <2>3
  <2>5. \A i, j \in DOMAIN line'[s] : line'[s][i] = line'[s][j] => i = j
    <3> SUFFICES ASSUME NEW i \in DOMAIN line'[s], NEW j \in DOMAIN line'[s],
                        line'[s][i] = line'[s][j]
                 PROVE  i = j
      OBVIOUS
    <3>1. CASE i \in 1..Len(line[s]) /\ j \in 1..Len(line[s])
      BY <1>2, <2>2, <3>1 DEF LineSound
    <3>2. CASE i = Len(line[s]) + 1 \/ j = Len(line[s]) + 1
      BY <2>2, <2>3, <3>2
    <3> QED BY <2>2, <3>1, <3>2
  <2>6. \A v \in Issuing' \cap Of(s) : \E i \in DOMAIN line'[s] : line'[s][i] = v
    <3> SUFFICES ASSUME NEW v \in Issuing' \cap Of(s)
                 PROVE  \E i \in DOMAIN line'[s] : line'[s][i] = v
      OBVIOUS
    <3>1. CASE v = u
      BY <2>2, <3>1
    <3>2. CASE v # u
      <4>1. PICK i \in DOMAIN line[s] : line[s][i] = v
        BY <1>2, <3>2 DEF LineSound
      <4> QED BY <2>2, <4>1
    <3> QED BY <3>1, <3>2
  <2> QED BY <2>4, <2>5, <2>6 DEF LineSound, Of
<1> QED BY <1>3, <1>4

(* The unlock at the head leaves, and the next one moves up.               *)
LEMMA LineMovesUp ==
  ASSUME TypeOK, \A s \in Sessions : LineSound(s),
         NEW u \in Unlocks, InTurn(u), LeavesLine(u), Issuing' = Issuing \ {u}
  PROVE  \A s \in Sessions : LineSound(s)'
<1> SUFFICES ASSUME NEW s \in Sessions PROVE LineSound(s)'
  OBVIOUS
<1>1. line[s] \in Seq(Unlocks) /\ SessionOf[u] \in Sessions
  BY SessionKnown DEF TypeOK
<1>2. LineSound(s)
  OBVIOUS
<1>3. CASE s # SessionOf[u]
  <2>1. line'[s] = line[s]
    BY <1>3 DEF TypeOK, LeavesLine
  <2>2. Issuing' \cap Of(s) = Issuing \cap Of(s)
    BY <1>3 DEF Of
  <2>3. \A i \in DOMAIN line[s] : line[s][i] # u
    BY <1>2, <1>3 DEF LineSound
  <2> QED BY <1>2, <2>1, <2>2, <2>3 DEF LineSound, Of
<1>4. CASE s = SessionOf[u]
  <2>1. line'[s] = Tail(line[s]) /\ line[s] # <<>> /\ Head(line[s]) = u
    BY <1>1, <1>4 DEF TypeOK, LeavesLine, InTurn
  <2>2. /\ DOMAIN line[s] = 1..Len(line[s]) /\ Len(line[s]) \in Nat /\ Len(line[s]) # 0
        /\ DOMAIN line'[s] = 1..(Len(line[s]) - 1)
        /\ \A i \in 1..(Len(line[s]) - 1) : line'[s][i] = line[s][i + 1]
        /\ line[s][1] = u
    BY <1>1, <2>1
  <2>3. \A i \in DOMAIN line'[s] : line'[s][i] \in Issuing' /\ SessionOf[line'[s][i]] = s
    <3> SUFFICES ASSUME NEW i \in DOMAIN line'[s]
                 PROVE  line'[s][i] \in Issuing' /\ SessionOf[line'[s][i]] = s
      OBVIOUS
    <3>1. i + 1 \in DOMAIN line[s] /\ 1 \in DOMAIN line[s] /\ i + 1 # 1
      BY <2>2
    <3>2. line[s][i + 1] \in Issuing /\ SessionOf[line[s][i + 1]] = s /\ line[s][i + 1] # u
      BY <1>2, <2>2, <3>1 DEF LineSound
    <3> QED BY <2>2, <3>2
  <2>4. \A i, j \in DOMAIN line'[s] : line'[s][i] = line'[s][j] => i = j
    <3> SUFFICES ASSUME NEW i \in DOMAIN line'[s], NEW j \in DOMAIN line'[s],
                        line'[s][i] = line'[s][j]
                 PROVE  i = j
      OBVIOUS
    <3>1. i + 1 \in DOMAIN line[s] /\ j + 1 \in DOMAIN line[s]
      BY <2>2
    <3>2. line[s][i + 1] = line[s][j + 1]
      BY <2>2
    <3>3. i + 1 = j + 1
      BY <1>2, <3>1, <3>2 DEF LineSound
    <3> QED BY <2>2, <3>3
  <2>5. \A v \in Issuing' \cap Of(s) : \E i \in DOMAIN line'[s] : line'[s][i] = v
    <3> SUFFICES ASSUME NEW v \in Issuing' \cap Of(s)
                 PROVE  \E i \in DOMAIN line'[s] : line'[s][i] = v
      OBVIOUS
    <3>1. PICK i \in DOMAIN line[s] : line[s][i] = v
      BY <1>2 DEF LineSound
    <3>2. i # 1
      BY <2>2, <3>1
    <3>3. i \in 1..Len(line[s]) /\ i - 1 \in 1..(Len(line[s]) - 1) /\ (i - 1) + 1 = i
      BY <2>2, <3>1, <3>2
    <3>4. line'[s][i - 1] = line[s][(i - 1) + 1]
      BY <2>2, <3>3
    <3>5. i - 1 \in DOMAIN line'[s] /\ line'[s][i - 1] = v
      BY <2>2, <3>1, <3>3, <3>4
    <3> QED BY <3>5
  <2> QED BY <2>3, <2>4, <2>5 DEF LineSound, Of
<1> QED BY <1>3, <1>4

(* Only these steps touch a line or the state of an unlock in issuance.    *)
LEMMA LineStep ==
  ASSUME DiaryInv, \A s \in Sessions : LineSound(s), [Next]_vars
  PROVE  \A s \in Sessions : LineSound(s)'
<1>0. TypeOK
  BY DEF DiaryInv
<1>1. ASSUME UNCHANGED <<line, unlock>>
      PROVE  \A s \in Sessions : LineSound(s)'
  BY <1>1, LineUntouched DEF Issuing
<1>2. ASSUME NEW u \in Unlocks, Begin(u) \/ HashFails(u)
      PROVE  \A s \in Sessions : LineSound(s)'
  <2>1. line' = line /\ u \notin Issuing
    BY <1>2 DEF Begin, HashFails, Issuing
  <2>2. \/ unlock' = [unlock EXCEPT ![u] = IF config = None THEN "setup" ELSE "hashing"]
        \/ unlock' = [unlock EXCEPT ![u] = "failed"]
    BY <1>2 DEF Begin, HashFails, Fails
  <2>3. Issuing' = Issuing
    BY <1>0, <2>1, <2>2 DEF Issuing, TypeOK
  <2> QED BY <2>1, <2>3, LineUntouched
<1>3. ASSUME NEW u \in Unlocks, Unwrap(u) \/ Store(u)
      PROVE  \A s \in Sessions : LineSound(s)'
  <2>1. u \notin Issuing
    BY <1>3 DEF Unwrap, Store, Issuing
  <2>2. CASE Joins(u)
    <3>1. Issuing' = Issuing \cup {u}
      BY <1>0, <2>2 DEF Joins, Issuing, TypeOK
    <3> QED BY <1>0, <2>1, <2>2, <3>1, LineJoined DEF Joins
  <2>3. CASE Fails(u) /\ line' = line
    <3>1. Issuing' = Issuing
      BY <1>0, <2>1, <2>3 DEF Fails, Issuing, TypeOK
    <3> QED BY <2>3, <3>1, LineUntouched
  <2> QED BY <1>3, <2>2, <2>3 DEF Unwrap, Store
<1>4. ASSUME NEW u \in Unlocks, InTurn(u), LeavesLine(u), Publishes(u) \/ Fails(u)
      PROVE  \A s \in Sessions : LineSound(s)'
  <2>1. Issuing' = Issuing \ {u}
    BY <1>0, <1>4 DEF Publishes, Fails, Issuing, TypeOK
  <2> QED BY <1>0, <1>4, <2>1, LineMovesUp
<1>5. ASSUME NEW u \in Unlocks, Turn(u) \/ Replace(u)
      PROVE  \A s \in Sessions : LineSound(s)'
  <2>1. CASE LeavesLine(u) /\ (Publishes(u) \/ Fails(u))
    BY <1>4, <1>5, <2>1 DEF Turn, Replace
  <2>2. CASE line' = line /\ unlock[u] = "inline" /\ unlock' = [unlock EXCEPT ![u] = "draining"]
    <3>1. Issuing' = Issuing
      BY <1>0, <2>2 DEF Issuing, TypeOK
    <3> QED BY <2>2, <3>1, LineUntouched
  <2> QED BY <1>5, <2>1, <2>2 DEF Turn, Replace
<1>6. CASE \/ UNCHANGED vars
           \/ \E s \in Sessions : Finalize(s) \/ Expire(s) \/ Notice(s)
           \/ \E u \in Unlocks : TimerDrops(u)
           \/ \E k \in Locks : BeginLock(k) \/ \E logout \in BOOLEAN : EndLock(k, logout)
           \/ \E b \in Bodies : CloseBody(b) \/ \E u \in Unlocks : OpenBody(b, u)
           \/ \E u \in Unlocks, g \in Grants : Remember(u, g)
           \/ \E g \in Grants : Forget(g)
  <2>1. UNCHANGED <<line, unlock>>
    BY <1>6 DEF vars, Finalize, Expire, Notice, TimerDrops, BeginLock, EndLock, CloseBody,
                OpenBody, Remember, Forget
  <2> QED BY <1>1, <2>1
<1> QED BY <1>2, <1>3, <1>5, <1>6 DEF Next

(* A closing session has a lease under way from the moment it has not      *)
(* resolved drained, and drains with the last of them.                     *)
Draining == \A s \in Sessions : quiescence[s] # 0 => s \in drained \/ OpenBodies(s) # {}

(* A session that begins to close with nothing leased is drained at once.  *)
LEMMA ClosingDrains ==
  ASSUME DiaryInv, Draining, Closing, UNCHANGED <<leases, body>>
  PROVE  Draining'
<1>1. SUFFICES ASSUME NEW s \in Sessions, quiescence'[s] # 0
               PROVE  s \in drained' \/ OpenBodies(s)' # {}
  BY DEF Draining
<1>2. OpenBodies(s)' = OpenBodies(s)
  BY DEF OpenBodies
<1>3. leases[s] = 0 \/ OpenBodies(s) # {}
  BY FS_EmptySet DEF DiaryInv, LeasesCounted
<1>4. drained \subseteq drained'
  BY ClosingFacts DEF DiaryInv
<1>5. CASE quiescence[s] # 0
  BY <1>2, <1>4, <1>5 DEF Draining
<1>6. CASE quiescence[s] = 0
  <2>1. ~UNCHANGED fences
    BY <1>1, <1>6 DEF fences
  <2>2. PICK t \in Sessions : Invalidates(t)
    BY <2>1 DEF Closing
  <2>3. t = s
    BY <1>1, <1>6, <2>2 DEF Invalidates, DiaryInv, TypeOK
  <2>4. leases[s] = 0 => s \in drained'
    BY <1>6, <2>2, <2>3 DEF Invalidates
  <2> QED BY <1>2, <1>3, <2>4
<1> QED BY <1>5, <1>6

(* Every step leaves a closing session with somebody who ends the closing. *)
LEMMA DrainingStep ==
  ASSUME DiaryInv, Draining, [Next]_vars
  PROVE  Draining'
<1>0. TypeOK
  BY DEF DiaryInv
<1>1. ASSUME NEW s \in Sessions, Finalize(s) PROVE Draining'
  <2>1. /\ quiescence' = [quiescence EXCEPT ![s] = 0] /\ drained' = drained \ {s}
        /\ body' = body
    BY <1>1 DEF Finalize
  <2> QED BY <1>0, <2>1 DEF Draining, OpenBodies, TypeOK
<1>2. ASSUME NEW b \in Bodies, CloseBody(b) PROVE Draining'
  <2> DEFINE t == SessionOf[b]
  <2>1. /\ body[b] = "open" /\ body' = [body EXCEPT ![b] = "over"]
        /\ quiescence' = quiescence /\ drained \subseteq drained'
        /\ leases[t] = 1 /\ quiescence[t] # 0 => t \in drained'
        /\ t \in Sessions
    BY <1>2, SessionKnown DEF CloseBody
  <2>2. SUFFICES ASSUME NEW s \in Sessions, quiescence'[s] # 0
                 PROVE  s \in drained' \/ OpenBodies(s)' # {}
    BY DEF Draining
  <2>3. CASE s # t
    <3>1. OpenBodies(s)' = OpenBodies(s)
      BY <1>0, <2>1, <2>3 DEF OpenBodies, TypeOK
    <3> QED BY <2>1, <2>2, <3>1 DEF Draining
  <2>4. CASE s = t
    <3>1. OpenBodies(s)' = OpenBodies(s) \ {b} /\ b \in OpenBodies(s)
      BY <1>0, <2>1, <2>4 DEF OpenBodies, TypeOK
    <3>2. IsFiniteSet(OpenBodies(s)) /\ leases[s] = Cardinality(OpenBodies(s))
      BY BodiesAssumption, FS_Subset DEF OpenBodies, DiaryInv, LeasesCounted
    <3>3. ASSUME OpenBodies(s)' = {} PROVE leases[s] = 1
      <4>1. OpenBodies(s) = {b}
        BY <3>1, <3>3
      <4> QED BY <3>2, <4>1, FS_Singleton
    <3> QED BY <2>1, <2>2, <2>4, <3>3
  <2> QED BY <2>3, <2>4
<1>3. ASSUME NEW b \in Bodies, NEW u \in Unlocks, OpenBody(b, u) PROVE Draining'
  <2>1. CASE body' = [body EXCEPT ![b] = "open"] /\ UNCHANGED fences /\ body[b] = "idle"
    <3>1. \A s \in Sessions : OpenBodies(s) \subseteq OpenBodies(s)'
      BY <1>0, <2>1 DEF OpenBodies, TypeOK
    <3> QED BY <2>1, <3>1 DEF Draining, fences
  <2>2. CASE /\ body[b] = "idle" /\ body' = [body EXCEPT ![b] = "over"]
             /\ leases' = leases /\ Closing
    <3>1. \A s \in Sessions : OpenBodies(s)' = OpenBodies(s)
      BY <1>0, <2>2 DEF OpenBodies, TypeOK
    <3>2. SUFFICES ASSUME NEW s \in Sessions, quiescence'[s] # 0
                   PROVE  s \in drained' \/ OpenBodies(s)' # {}
      BY DEF Draining
    <3>3. leases[s] = 0 \/ OpenBodies(s) # {}
      BY FS_EmptySet DEF DiaryInv, LeasesCounted
    <3>4. drained \subseteq drained'
      BY <1>0, <2>2, ClosingFacts
    <3>5. CASE quiescence[s] # 0
      BY <3>1, <3>4, <3>5 DEF Draining
    <3>6. CASE quiescence[s] = 0
      <4>1. PICK t \in Sessions : Invalidates(t)
        BY <2>2, <3>2, <3>6 DEF Closing, fences
      <4>2. t = s
        BY <1>0, <3>2, <3>6, <4>1 DEF Invalidates, TypeOK
      <4> QED BY <3>1, <3>3, <3>6, <4>1, <4>2 DEF Invalidates
    <3> QED BY <3>5, <3>6
  <2> QED BY <1>3, <2>1, <2>2, CheckingCloses, SessionKnown DEF OpenBody, Closing
<1>4. ASSUME NEW u \in Unlocks,
             \/ Begin(u) \/ HashFails(u) \/ Unwrap(u) \/ Store(u)
             \/ Turn(u) \/ Replace(u) \/ TimerDrops(u)
      PROVE  Draining'
  <2>1. UNCHANGED <<leases, body>>
    BY <1>4 DEF Begin, HashFails, Unwrap, Store, Turn, Replace, TimerDrops
  <2>2. Closing
    BY <1>4, SessionKnown DEF Begin, HashFails, Unwrap, Store, Turn, Replace, TimerDrops,
                              AuthChecked, AssertEffect, Closing
  <2> QED BY <2>1, <2>2, ClosingDrains
<1>5. ASSUME NEW k \in Locks, BeginLock(k) \/ \E logout \in BOOLEAN : EndLock(k, logout)
      PROVE  Draining'
  BY <1>5, ClosingDrains, SessionKnown DEF BeginLock, EndLock, Closing
<1>6. ASSUME NEW s \in Sessions, Expire(s) \/ Notice(s) PROVE Draining'
  BY <1>6, ClosingDrains DEF Expire, Notice, Closing
<1>7. ASSUME NEW g \in Grants, (\E u \in Unlocks : Remember(u, g)) \/ Forget(g)
      PROVE  Draining'
  BY <1>7, ClosingDrains DEF Remember, Forget, Closing
<1>8. CASE UNCHANGED vars
  BY <1>8, ClosingDrains DEF vars, Closing, fences
<1> QED BY <1>1, <1>2, <1>3, <1>4, <1>5, <1>6, <1>7, <1>8 DEF Next

(* lock, logout, the replacing unlock and the issuance line never wait for *)
(* each other in vain, for any number of sessions, calls and bodies.       *)
THEOREM NobodyIsStuck == Spec => []NobodyWaitsInVain
<1> DEFINE Lines == \A s \in Sessions : LineSound(s)
<1>1. Init => Lines /\ Draining
  BY DEF Init, LineSound, Issuing, Draining
<1>2. DiaryInv /\ Lines /\ [Next]_vars => Lines'
  BY LineStep
<1>3. DiaryInv /\ Draining /\ [Next]_vars => Draining'
  BY DrainingStep
<1>4. DiaryInv /\ Lines /\ Draining => NobodyWaitsInVain
  <2> SUFFICES ASSUME DiaryInv, Lines, Draining PROVE NobodyWaitsInVain
    OBVIOUS
  <2>1. ASSUME NEW k \in Locks, lock[k] = "waiting"
        PROVE  Completed(k) \/ quiescence[SessionOf[k]] # 0
    BY <2>1 DEF DiaryInv, LockSound, Completed
  <2>2. ASSUME NEW u \in Unlocks, unlock[u] = "draining"
        PROVE  Completed(u) \/ quiescence[SessionOf[u]] # 0
    <3>1. ticket[u].generation \in Nat /\ waits[u] = ticket[u].generation + 1
      BY <2>2 DEF DiaryInv, TypeOK, DrainSound
    <3> QED BY <3>1 DEF Completed
  <2>3. ASSUME NEW u \in Issuing
        PROVE  \E i \in DOMAIN line[SessionOf[u]] : line[SessionOf[u]][i] = u
    BY SessionKnown DEF LineSound, Issuing, Of
  <2>4. ASSUME NEW s \in Sessions, line[s] # <<>> PROVE Head(line[s]) \in Issuing
    <3>1. line[s] \in Seq(Unlocks)
      BY DEF DiaryInv, TypeOK
    <3>2. 1 \in DOMAIN line[s] /\ Head(line[s]) = line[s][1]
      BY <2>4, <3>1
    <3> QED BY <3>2 DEF LineSound
  <2> QED BY <2>1, <2>2, <2>3, <2>4 DEF NobodyWaitsInVain, Waiting, Draining
<1> HIDE DEF Lines
<1> QED BY <1>1, <1>2, <1>3, <1>4, DiaryInvariant, PTL DEF Spec
=============================================================================
