---------------------------- MODULE KdfGuardProofs ----------------------------
(***************************************************************************)
(* Proofs about KdfGuard for every finite set of calls, every number of    *)
(* slots and every length of the queue.                                    *)
(***************************************************************************)
EXTENDS KdfGuard, FiniteSetTheorems, SequenceTheorems, TLAPS

(* No two entries of the queue are the same job. *)
QueuedOnce ==
    \A a, b \in 1..Len(queue) : queue[a] = queue[b] => a = b

(* A caller without a slot and without an error has no answer yet. *)
NoAnswerYet ==
    \A j \in Jobs : state[j] \in {"new", "queued", "running"} => answer[j] = "none"

(* The inductive invariant: the exact bookkeeping, and what makes a removal *)
(* from the queue take out one entry.                                       *)
GuardInv == BudgetExact /\ QueuedOnce /\ NoAnswerYet

(* The sets that are counted are finite. *)
LEMMA CountedFinite == IsFiniteSet(InSlot) /\ IsFiniteSet(Queued)
  BY JobsAssumption, FS_Subset DEF InSlot, Queued

LEMMA GuardInit == Init => GuardInv
<1> SUFFICES ASSUME Init PROVE GuardInv
  OBVIOUS
<1> USE DEF Init
<1>1. InSlot = {} /\ Queued = {} /\ Range(queue) = {}
  BY DEF InSlot, Queued, Range
<1>2. Cardinality({}) = 0
  BY FS_EmptySet
<1>3. TypeOK
  BY BoundsAssumption DEF TypeOK
<1>4. SlotsExact /\ WorkConserving /\ QueueExact /\ QueuedOnce /\ NoAnswerYet
  BY <1>1, <1>2, BoundsAssumption
  DEF SlotsExact, WorkConserving, QueueExact, QueuedOnce, NoAnswerYet
<1> QED
  BY <1>3, <1>4 DEF GuardInv, BudgetExact

(* What splicing one entry out of a sequence leaves. *)
LEMMA SplicedOut ==
  ASSUME NEW S, NEW s \in Seq(S), NEW i \in 1..Len(s)
  PROVE  /\ RemoveAt(s, i) \in Seq(S)
         /\ Len(RemoveAt(s, i)) = Len(s) - 1
         /\ \A k \in 1..(Len(s) - 1) :
               RemoveAt(s, i)[k] = IF k < i THEN s[k] ELSE s[k + 1]
<1> DEFINE front == SubSeq(s, 1, i - 1)
           back  == SubSeq(s, i + 1, Len(s))
<1>1. /\ front \in Seq(S) /\ Len(front) = i - 1
      /\ \A k \in 1..(i - 1) : front[k] = s[k]
  <2>1. \A k \in 1..(i - 1) : s[k] \in S
    BY ElementOfSeq
  <2> QED
    BY <2>1, SubSeqProperties, LenProperties
<1>2. /\ back \in Seq(S) /\ Len(back) = Len(s) - i
      /\ \A k \in 1..(Len(s) - i) : back[k] = s[i + k]
  <2>1. \A k \in (i + 1)..Len(s) : s[k] \in S
    BY ElementOfSeq
  <2> QED
    BY <2>1, SubSeqProperties, LenProperties
<1> HIDE DEF front, back
<1>3. /\ front \o back \in Seq(S)
      /\ Len(front \o back) = Len(front) + Len(back)
      /\ \A k \in 1..(Len(front) + Len(back)) :
            (front \o back)[k] = IF k <= Len(front) THEN front[k]
                                                    ELSE back[k - Len(front)]
  BY <1>1, <1>2, ConcatProperties
<1>4. RemoveAt(s, i) = front \o back
  BY DEF RemoveAt, front, back
<1>5. Len(s) \in Nat
  BY LenProperties
<1>6. ASSUME NEW k \in 1..(Len(s) - 1)
      PROVE  (front \o back)[k] = IF k < i THEN s[k] ELSE s[k + 1]
  <2>1. CASE k < i
    BY <1>1, <1>2, <1>3, <1>5, <2>1
  <2>2. CASE k >= i
    <3>1. k - (i - 1) \in 1..(Len(s) - i) /\ i + (k - (i - 1)) = k + 1
      BY <1>5, <2>2
    <3>2. (front \o back)[k] = back[k - (i - 1)]
      BY <1>1, <1>2, <1>3, <1>5, <2>2
    <3> QED
      BY <1>2, <2>2, <3>1, <3>2
  <2>3. k < i \/ k >= i
    BY <1>5
  <2> QED
    BY <2>1, <2>2, <2>3
<1> QED
  BY <1>1, <1>2, <1>3, <1>4, <1>5, <1>6

(* A job that waits has one place in the queue, and everybody else in the  *)
(* queue stays in it when that place is spliced out.                       *)
LEMMA RemovedOnce ==
  ASSUME GuardInv, NEW j \in Queued
  PROVE  /\ RemoveQueued(j) \in Seq(Jobs)
         /\ Len(RemoveQueued(j)) = Len(queue) - 1
         /\ Range(RemoveQueued(j)) = Range(queue) \ {j}
         /\ \A a, b \in 1..Len(RemoveQueued(j)) :
               RemoveQueued(j)[a] = RemoveQueued(j)[b] => a = b
<1> DEFINE i == CHOOSE k \in 1..Len(queue) : queue[k] = j
           rest == RemoveAt(queue, i)
<1>1. queue \in Seq(Jobs) /\ Len(queue) \in Nat /\ QueuedOnce
  BY LenProperties DEF GuardInv, BudgetExact, TypeOK
<1>2. Range(queue) = {queue[k] : k \in 1..Len(queue)}
  BY <1>1, RangeEquality
<1>3. i \in 1..Len(queue) /\ queue[i] = j
  BY <1>2 DEF GuardInv, BudgetExact, QueueExact
<1> HIDE DEF i
<1>4. /\ rest \in Seq(Jobs) /\ Len(rest) = Len(queue) - 1
      /\ \A k \in 1..(Len(queue) - 1) : rest[k] = IF k < i THEN queue[k] ELSE queue[k + 1]
  BY <1>1, <1>3, SplicedOut
<1>5. RemoveQueued(j) = rest
  BY DEF RemoveQueued, i
<1> HIDE DEF rest
<1>6. Range(rest) = {rest[k] : k \in 1..Len(rest)}
  BY <1>4, RangeEquality
<1>7. ASSUME NEW e \in Range(rest)
      PROVE  e \in Range(queue) \ {j}
  BY <1>1, <1>2, <1>3, <1>4, <1>6, <1>7 DEF QueuedOnce
<1>8. ASSUME NEW e \in Range(queue), e # j
      PROVE  e \in Range(rest)
  <2>1. PICK k \in 1..Len(queue) : queue[k] = e
    BY <1>2
  <2>2. k # i
    BY <1>3, <1>8, <2>1
  <2>3. CASE k < i
    BY <1>1, <1>3, <1>4, <1>6, <2>1, <2>3
  <2>4. CASE k > i
    <3>1. k - 1 \in 1..Len(rest) /\ rest[k - 1] = queue[k]
      BY <1>1, <1>3, <1>4, <2>4
    <3> QED
      BY <1>6, <2>1, <3>1
  <2> QED
    BY <2>2, <2>3, <2>4, <1>1, <1>3
<1>9. ASSUME NEW a \in 1..Len(rest), NEW b \in 1..Len(rest), rest[a] = rest[b]
      PROVE  a = b
  BY <1>1, <1>3, <1>4, <1>9 DEF QueuedOnce
<1> QED
  BY <1>4, <1>5, <1>7, <1>8, <1>9

(* A job that leaves the queue with an error leaves the bookkeeping exact, *)
(* whether its signal has fired or its time is over.                       *)
LEMMA LeavingKeeps ==
  ASSUME GuardInv, NEW j \in Jobs, state[j] = "queued",
         NEW error \in {"timeout", "aborted"}, Leaves(j, error),
         aborted' = aborted \/ aborted' = aborted \cup {j}
  PROVE  GuardInv'
<1> USE DEF GuardInv, BudgetExact
<1>1. TypeOK /\ SlotsExact /\ WorkConserving /\ QueueExact /\ NoAnswerYet
  OBVIOUS
<1>2. /\ state' = [state EXCEPT ![j] = "over"] /\ answer' = [answer EXCEPT ![j] = error]
      /\ queue' = RemoveQueued(j) /\ active' = active
  BY DEF Leaves, Rejects
<1>3. j \in Queued
  BY DEF Queued
<1>4. /\ queue' \in Seq(Jobs) /\ Len(queue') = Len(queue) - 1
      /\ Range(queue') = Range(queue) \ {j} /\ QueuedOnce'
  BY <1>2, <1>3, RemovedOnce DEF QueuedOnce
<1>5. InSlot' = InSlot /\ Queued' = Queued \ {j}
  BY <1>1, <1>2 DEF TypeOK, InSlot, Queued
<1>6. TypeOK'
  BY <1>1, <1>2, <1>4 DEF TypeOK
<1>7. SlotsExact'
  BY <1>1, <1>2, <1>5 DEF SlotsExact
<1>8. WorkConserving'
  <2>1. queue # <<>>
    BY <1>1, <1>3, CountedFinite, FS_EmptySet, EmptySeq DEF QueueExact, TypeOK, Range
  <2> QED
    BY <1>1, <1>2, <2>1 DEF WorkConserving
<1>9. QueueExact'
  <2>1. Cardinality(Queued \ {j}) = Cardinality(Queued) - 1
    BY <1>3, CountedFinite, FS_RemoveElement
  <2>2. Len(queue') <= MaxQueue
    BY <1>1, <1>4, BoundsAssumption, LenProperties DEF QueueExact, TypeOK
  <2>3. Range(queue') = Queued'
    BY <1>1, <1>4, <1>5 DEF QueueExact
  <2>4. Queued' \cap aborted' = {}
    BY <1>1, <1>5 DEF QueueExact
  <2> QED
    BY <1>1, <1>4, <1>5, <2>1, <2>2, <2>3, <2>4 DEF QueueExact
<1>10. NoAnswerYet'
  BY <1>1, <1>2 DEF NoAnswerYet, TypeOK
<1> QED
  BY <1>4, <1>6, <1>7, <1>8, <1>9, <1>10

(* A job that is turned away at the door changes nothing for the others. *)
LEMMA TurnedAwayKeeps ==
  ASSUME GuardInv, NEW j \in Jobs, state[j] = "new",
         NEW error \in {"full", "aborted"}, Rejects(j, error),
         UNCHANGED <<active, queue, aborted>>
  PROVE  GuardInv'
<1> USE DEF GuardInv, BudgetExact
<1>1. InSlot' = InSlot /\ Queued' = Queued
  BY DEF TypeOK, InSlot, Queued, Rejects
<1>2. TypeOK' /\ NoAnswerYet'
  BY DEF TypeOK, NoAnswerYet, Rejects
<1> QED
  BY <1>1, <1>2 DEF SlotsExact, WorkConserving, QueueExact, QueuedOnce

(* A job that finds a free slot takes one. *)
LEMMA StartKeeps ==
  ASSUME GuardInv, NEW j \in Jobs, state[j] = "new", active < Concurrency,
         state' = [state EXCEPT ![j] = "running"], active' = active + 1,
         UNCHANGED <<answer, queue, aborted>>
  PROVE  GuardInv'
<1> USE DEF GuardInv, BudgetExact
<1>1. InSlot' = InSlot \cup {j} /\ j \notin InSlot /\ Queued' = Queued
  BY DEF TypeOK, InSlot, Queued
<1>2. Cardinality(InSlot') = Cardinality(InSlot) + 1
  BY <1>1, CountedFinite, FS_AddElement
<1>3. queue = <<>>
  BY BoundsAssumption DEF WorkConserving, TypeOK
<1>4. TypeOK' /\ SlotsExact' /\ NoAnswerYet'
  BY <1>2, BoundsAssumption DEF TypeOK, SlotsExact, NoAnswerYet
<1> QED
  BY <1>1, <1>3, <1>4 DEF WorkConserving, QueueExact, QueuedOnce

(* A job that finds none and a place in the queue takes the last place. *)
LEMMA EnqueueKeeps ==
  ASSUME GuardInv, NEW j \in Jobs, state[j] = "new", j \notin aborted,
         active >= Concurrency, Len(queue) < MaxQueue,
         state' = [state EXCEPT ![j] = "queued"], queue' = Append(queue, j),
         UNCHANGED <<answer, active, aborted>>
  PROVE  GuardInv'
<1> USE DEF GuardInv, BudgetExact
<1>1. InSlot' = InSlot /\ Queued' = Queued \cup {j} /\ j \notin Queued
  BY DEF TypeOK, InSlot, Queued
<1>2. /\ queue \in Seq(Jobs) /\ queue' \in Seq(Jobs) /\ Len(queue) \in Nat
      /\ Len(queue') = Len(queue) + 1
      /\ \A i \in 1..Len(queue) : queue'[i] = queue[i]
      /\ queue'[Len(queue) + 1] = j
  BY AppendProperties, LenProperties DEF TypeOK
<1>3. /\ Range(queue) = {queue[i] : i \in 1..Len(queue)}
      /\ Range(queue') = {queue'[i] : i \in 1..Len(queue')}
  <2>1. Range(queue) = {queue[i] : i \in 1..Len(queue)}
    BY <1>2, RangeEquality
  <2> DEFINE longer == Append(queue, j)
  <2>2. longer \in Seq(Jobs)
    BY <1>2
  <2> HIDE DEF longer
  <2>3. Range(longer) = {longer[i] : i \in 1..Len(longer)}
    BY <2>2, RangeEquality
  <2> QED
    BY <2>1, <2>3 DEF longer
<1>4. Range(queue') = Range(queue) \cup {j}
  BY <1>2, <1>3
<1>5. QueuedOnce'
  <2>1. \A i \in 1..Len(queue) : queue[i] # j
    BY <1>1, <1>3 DEF QueueExact
  <2>2. ASSUME NEW a \in 1..Len(queue'), NEW b \in 1..Len(queue'), queue'[a] = queue'[b]
        PROVE  a = b
    <3>1. a \in 1..Len(queue) \/ a = Len(queue) + 1
      BY <1>2
    <3>2. b \in 1..Len(queue) \/ b = Len(queue) + 1
      BY <1>2
    <3> QED
      BY <1>2, <2>1, <2>2, <3>1, <3>2 DEF QueuedOnce
  <2> QED
    BY <2>2 DEF QueuedOnce
<1>6. TypeOK' /\ SlotsExact' /\ NoAnswerYet'
  BY <1>1, <1>2, BoundsAssumption DEF TypeOK, SlotsExact, NoAnswerYet
<1>7. WorkConserving'
  BY BoundsAssumption DEF TypeOK, WorkConserving
<1>8. QueueExact'
  <2>1. Cardinality(Queued') = Cardinality(Queued) + 1
    BY <1>1, CountedFinite, FS_AddElement
  <2> QED
    BY <1>1, <1>2, <1>4, <2>1, BoundsAssumption DEF QueueExact
<1> QED
  BY <1>5, <1>6, <1>7, <1>8

(* While the queue holds anybody drain hands out exactly one slot, and no  *)
(* entry it meets has been aborted.                                        *)
LEMMA DrainShiftsOne ==
  ASSUME GuardInv, active \in 1..Concurrency
  PROVE  Shifted(Concurrency - (active - 1)) = IF queue = <<>> THEN 0 ELSE 1
<1> USE DEF GuardInv, BudgetExact
<1> DEFINE slots == Concurrency - (active - 1)
           Fits(n) == /\ Willing(n) = slots \/ n = Len(queue)
                      /\ \A m \in 0..(n - 1) : Willing(m) < slots
<1>1. queue \in Seq(Jobs) /\ Len(queue) \in Nat /\ slots \in Nat \ {0}
  BY BoundsAssumption, LenProperties DEF TypeOK
<1>2. Shifted(slots) = CHOOSE n \in 0..Len(queue) : Fits(n)
  BY DEF Shifted
<1>3. CASE queue = <<>>
  <2>1. Len(queue) = 0
    BY <1>3
  <2>2. Fits(0)
    BY <2>1
  <2>3. 0..Len(queue) = {0}
    BY <2>1
  <2> QED
    BY <1>2, <1>3, <2>2, <2>3
<1>4. CASE queue # <<>>
  <2>1. Len(queue) >= 1
    BY <1>1, <1>4, EmptySeq
  <2>2. slots = 1
    BY <1>4, BoundsAssumption DEF WorkConserving
  <2>3. \A i \in 1..Len(queue) : queue[i] \notin aborted
    BY <1>1, RangeEquality DEF QueueExact
  <2>4. Willing(0) = 0
    <3>1. {i \in 1..0 : queue[i] \notin aborted} = {}
      OBVIOUS
    <3> QED
      BY <3>1, FS_EmptySet DEF Willing
  <2>5. Willing(1) = 1
    <3>1. {i \in 1..1 : queue[i] \notin aborted} = {1}
      BY <2>1, <2>3, <1>1
    <3> QED
      BY <3>1, FS_Singleton DEF Willing
  <2>6. Fits(1) /\ 1 \in 0..Len(queue)
    BY <1>1, <2>1, <2>2, <2>4, <2>5
  <2>7. ASSUME NEW n \in 0..Len(queue), Fits(n)
        PROVE  n = 1
    <3>1. n # 0
      BY <2>1, <2>2, <2>4, <2>7
    <3>2. n > 1 => Willing(1) < slots
      BY <1>1, <2>7
    <3> QED
      BY <1>1, <2>2, <2>5, <3>1, <3>2
  <2> HIDE DEF Fits
  <2> QED
    BY <1>2, <1>4, <2>6, <2>7
<1> QED
  BY <1>3, <1>4

(* The finally block gives its slot to the head of the queue, or back.     *)
LEMMA FreeKeeps ==
  ASSUME GuardInv, NEW j \in Jobs, Free(j)
  PROVE  GuardInv'
<1> USE DEF GuardInv, BudgetExact
<1>1. queue \in Seq(Jobs) /\ Len(queue) \in Nat /\ state[j] = "settled" /\ aborted' = aborted
  BY LenProperties DEF TypeOK, Free
<1>2. active \in 1..Concurrency
  <2>1. j \in InSlot
    BY <1>1 DEF InSlot
  <2>2. Cardinality(InSlot) # 0
    BY <2>1, CountedFinite, FS_EmptySet
  <2> QED
    BY <2>2, BoundsAssumption DEF SlotsExact, TypeOK
<1> DEFINE n == Shifted(Concurrency - (active - 1))
           shifted == {queue[i] : i \in 1..n}
<1>3. n = IF queue = <<>> THEN 0 ELSE 1
  BY <1>2, DrainShiftsOne
<1>4. /\ state' = [k \in Jobs |-> IF k = j \/ k \in shifted \cap aborted THEN "over"
                                  ELSE IF k \in shifted THEN "running" ELSE state[k]]
      /\ answer' = [k \in Jobs |-> IF k \in shifted \cap aborted THEN "aborted" ELSE answer[k]]
      /\ active' = active - 1 + Cardinality(shifted \ aborted)
      /\ queue' = SubSeq(queue, n + 1, Len(queue))
  BY DEF Free
<1> HIDE DEF n
<1>5. CASE queue = <<>>
  <2>1. shifted = {} /\ Len(queue) = 0
    BY <1>3, <1>5
  <2> HIDE DEF shifted
  <2>2. queue' = <<>>
    BY <1>3, <1>4, <1>5, <2>1, SubSeqEmpty
  <2>3. active' = active - 1
    BY <1>2, <1>4, <2>1, FS_EmptySet
  <2>4. state' = [state EXCEPT ![j] = "over"] /\ answer' = answer
    BY <1>4, <2>1 DEF TypeOK
  <2>5. InSlot' = InSlot \ {j} /\ Queued' = Queued /\ j \in InSlot
    BY <1>1, <2>4 DEF TypeOK, InSlot, Queued
  <2>6. Cardinality(InSlot') = Cardinality(InSlot) - 1
    BY <2>5, CountedFinite, FS_RemoveElement
  <2>7. TypeOK' /\ SlotsExact' /\ NoAnswerYet'
    BY <1>1, <1>2, <1>5, <2>2, <2>3, <2>4, <2>6, BoundsAssumption
    DEF TypeOK, SlotsExact, NoAnswerYet
  <2> QED
    BY <1>1, <1>5, <2>2, <2>5, <2>7 DEF WorkConserving, QueueExact, QueuedOnce
<1>6. CASE queue # <<>>
  <2> DEFINE h == queue[1]
  <2>1. Len(queue) >= 1 /\ n = 1 /\ active = Concurrency
    BY <1>1, <1>3, <1>6, EmptySeq DEF WorkConserving
  <2>2. shifted = {h}
    BY <2>1
  <2>3. Range(queue) = {queue[i] : i \in 1..Len(queue)}
    BY <1>1, RangeEquality
  <2>4. h \in Jobs /\ h \in Queued /\ h \notin aborted /\ h # j
    <3>1. h \in Range(queue)
      BY <1>1, <2>1, <2>3
    <3> QED
      BY <1>1, <3>1 DEF QueueExact, Queued
  <2> HIDE DEF shifted, h
  <2>5. Cardinality(shifted \ aborted) = 1 /\ shifted \cap aborted = {}
    <3>1. shifted \ aborted = {h} /\ shifted \cap aborted = {}
      BY <2>2, <2>4
    <3> QED
      BY <3>1, FS_Singleton
  <2>6. /\ state' = [state EXCEPT ![j] = "over", ![h] = "running"]
        /\ answer' = answer /\ active' = active
    <3>1. answer' = answer
      BY <1>4, <2>5 DEF TypeOK
    <3>2. active' = active
      BY <1>2, <1>4, <2>5
    <3>3. \A k \in Jobs : k \in shifted \cap aborted <=> FALSE
      BY <2>5
    <3>4. state' = [k \in Jobs |-> IF k = j THEN "over"
                                  ELSE IF k = h THEN "running" ELSE state[k]]
      BY <1>4, <2>2, <3>3
    <3>5. [state EXCEPT ![j] = "over", ![h] = "running"]
             = [k \in Jobs |-> IF k = j THEN "over"
                              ELSE IF k = h THEN "running" ELSE state[k]]
      BY <2>4 DEF TypeOK
    <3> QED
      BY <3>1, <3>2, <3>4, <3>5
  <2>7. /\ queue' \in Seq(Jobs) /\ Len(queue') = Len(queue) - 1
        /\ \A i \in 1..(Len(queue) - 1) : queue'[i] = queue[i + 1]
    <3>1. \A i \in 2..Len(queue) : queue[i] \in Jobs
      BY <1>1, ElementOfSeq
    <3>2. queue' = SubSeq(queue, 2, Len(queue))
      BY <1>4, <2>1
    <3> DEFINE rest == SubSeq(queue, 2, Len(queue))
    <3>3. /\ rest \in Seq(Jobs)
          /\ Len(rest) = IF 2 <= Len(queue) THEN Len(queue) - 2 + 1 ELSE 0
          /\ \A i \in 1..(Len(queue) - 2 + 1) : rest[i] = queue[2 + i - 1]
      BY <1>1, <3>1, SubSeqProperties
    <3> HIDE DEF rest
    <3>4. Len(rest) = Len(queue) - 1
      <4>1. Len(queue) \in Nat /\ Len(queue) >= 1
        BY <1>1, <2>1
      <4>2. Len(rest) = IF 2 <= Len(queue) THEN Len(queue) - 2 + 1 ELSE 0
        BY <3>3
      <4>3. CASE 2 <= Len(queue)
        BY <4>1, <4>2, <4>3
      <4>4. CASE Len(queue) = 1
        BY <4>2, <4>4
      <4>5. \A l \in Nat : l >= 1 => l = 1 \/ 2 <= l
        OBVIOUS
      <4> QED
        BY <4>1, <4>3, <4>4, <4>5
    <3>5. ASSUME NEW i \in 1..(Len(queue) - 1) PROVE rest[i] = queue[i + 1]
      <4>1. i \in 1..(Len(queue) - 2 + 1) /\ 2 + i - 1 = i + 1
        BY <1>1
      <4>2. rest[i] = queue[2 + i - 1]
        BY <3>3, <4>1
      <4> QED
        BY <4>1, <4>2
    <3> QED
      BY <3>2, <3>3, <3>4, <3>5 DEF rest
  <2>8. Range(queue') = {queue'[i] : i \in 1..Len(queue')}
    BY <2>7, RangeEquality
  <2>9. InSlot' = (InSlot \ {j}) \cup {h} /\ Queued' = Queued \ {h}
        /\ j \in InSlot /\ h \notin InSlot
    BY <1>1, <2>4, <2>6 DEF TypeOK, InSlot, Queued
  <2>10. Cardinality(InSlot') = Cardinality(InSlot)
    <3>1. /\ IsFiniteSet(InSlot \ {j})
          /\ Cardinality(InSlot \ {j}) = Cardinality(InSlot) - 1
      BY <2>9, CountedFinite, FS_RemoveElement
    <3>2. Cardinality((InSlot \ {j}) \cup {h}) = Cardinality(InSlot \ {j}) + 1
      BY <2>9, <3>1, FS_AddElement
    <3>3. Cardinality(InSlot) \in Nat
      BY CountedFinite, FS_CardinalityType
    <3> QED
      BY <2>9, <3>1, <3>2, <3>3
  <2>11. Range(queue') = Range(queue) \ {h}
    <3>1. ASSUME NEW e \in Range(queue') PROVE e \in Range(queue) \ {h}
      <4>1. PICK i \in 1..(Len(queue) - 1) : e = queue[i + 1]
        BY <2>7, <2>8
      <4>2. i + 1 \in 1..Len(queue) /\ i + 1 # 1 /\ 1 \in 1..Len(queue)
        BY <1>1, <2>1
      <4> QED
        BY <2>3, <4>1, <4>2 DEF QueuedOnce, h
    <3>2. ASSUME NEW e \in Range(queue), e # h PROVE e \in Range(queue')
      <4>1. PICK i \in 1..Len(queue) : e = queue[i]
        BY <2>3
      <4>2. i # 1
        BY <3>2, <4>1 DEF h
      <4>3. i - 1 \in 1..Len(queue') /\ queue'[i - 1] = queue[i]
        BY <1>1, <2>7, <4>2
      <4> QED
        BY <2>8, <4>1, <4>3
    <3> QED
      BY <3>1, <3>2
  <2>12. Cardinality(Queued') = Cardinality(Queued) - 1
    BY <2>4, <2>9, CountedFinite, FS_RemoveElement
  <2>13. TypeOK' /\ SlotsExact' /\ WorkConserving' /\ NoAnswerYet'
    BY <1>1, <2>1, <2>4, <2>6, <2>7, <2>10
    DEF TypeOK, SlotsExact, WorkConserving, NoAnswerYet, Queued
  <2>14. QueueExact'
    BY <1>1, <2>7, <2>9, <2>11, <2>12, BoundsAssumption DEF QueueExact
  <2>15. QueuedOnce'
    BY <1>1, <2>7 DEF QueuedOnce
  <2> QED
    BY <2>13, <2>14, <2>15
<1> QED
  BY <1>5, <1>6

(* Every step of every job keeps the bookkeeping exact. *)
LEMMA GuardStep == GuardInv /\ [Next]_vars => GuardInv'
<1> SUFFICES ASSUME GuardInv, [Next]_vars PROVE GuardInv'
  OBVIOUS
<1>1. ASSUME NEW j \in Jobs, Run(j) PROVE GuardInv'
  BY <1>1, TurnedAwayKeeps, StartKeeps, EnqueueKeeps DEF Run
<1>2. ASSUME NEW j \in Jobs, Abort(j) PROVE GuardInv'
  <2>1. CASE state[j] = "queued"
    BY <1>2, <2>1, LeavingKeeps DEF Abort
  <2>2. CASE state[j] # "queued"
    <3>1. UNCHANGED <<state, answer, active, queue>> /\ aborted' = aborted \cup {j}
      BY <1>2, <2>2 DEF Abort
    <3>2. InSlot' = InSlot /\ Queued' = Queued /\ j \notin Queued
      BY <2>2, <3>1 DEF InSlot, Queued
    <3> QED
      BY <3>1, <3>2 DEF GuardInv, BudgetExact, TypeOK, SlotsExact, WorkConserving,
                        QueueExact, QueuedOnce, NoAnswerYet
  <2> QED
    BY <2>1, <2>2
<1>3. ASSUME NEW j \in Jobs, TimeOut(j) PROVE GuardInv'
  BY <1>3, LeavingKeeps DEF TimeOut
<1>4. ASSUME NEW j \in Jobs, Settle(j) PROVE GuardInv'
  <2>1. InSlot' = InSlot /\ Queued' = Queued
    BY <1>4 DEF Settle, GuardInv, BudgetExact, TypeOK, InSlot, Queued
  <2> QED
    BY <1>4, <2>1 DEF Settle, GuardInv, BudgetExact, TypeOK, SlotsExact, WorkConserving,
                      QueueExact, QueuedOnce, NoAnswerYet
<1>5. ASSUME NEW j \in Jobs, Free(j) PROVE GuardInv'
  BY <1>5, FreeKeeps
<1>6. CASE UNCHANGED vars
  <2>1. InSlot' = InSlot /\ Queued' = Queued
    BY <1>6 DEF vars, InSlot, Queued
  <2> QED
    BY <1>6, <2>1 DEF vars, GuardInv, BudgetExact, TypeOK, SlotsExact, WorkConserving,
                      QueueExact, QueuedOnce, NoAnswerYet
<1> QED
  BY <1>1, <1>2, <1>3, <1>4, <1>5, <1>6 DEF Next

(* The inductive invariant holds in every reachable state. *)
THEOREM GuardInvariant == Spec => []GuardInv
  BY GuardInit, GuardStep, PTL DEF Spec

(* The budget of kdfGuard.ts is exact for every number of callers, slots   *)
(* and places: the slots are counted, nobody waits while one is free, and  *)
(* the queue holds every waiting job once.                                 *)
THEOREM BudgetIsExact == Spec => []BudgetExact
<1>1. GuardInv => BudgetExact
  BY DEF GuardInv
<1> QED
  BY <1>1, GuardInvariant, PTL

(* No hash starts for a caller that was answered, or that gave up before   *)
(* the start.                                                              *)
THEOREM NoAbandonedStart == Spec => AbandonedNeverRuns
<1> DEFINE Starts == \A j \in Jobs : state[j] # "running" /\ state'[j] = "running"
                                       => answer[j] = "none" /\ j \notin aborted
<1>1. GuardInv /\ [Next]_vars => [Starts]_vars
  <2> SUFFICES ASSUME GuardInv, Next, NEW j \in Jobs,
                      state[j] # "running", state'[j] = "running"
               PROVE  answer[j] = "none" /\ j \notin aborted
    OBVIOUS
  <2> USE DEF GuardInv, BudgetExact, TypeOK
  <2>1. ASSUME NEW k \in Jobs, Run(k) PROVE answer[j] = "none" /\ j \notin aborted
    BY <2>1 DEF Run, Rejects, NoAnswerYet
  <2>2. ASSUME NEW k \in Jobs, Abort(k) \/ TimeOut(k) \/ Settle(k) PROVE FALSE
    BY <2>2 DEF Abort, TimeOut, Settle, Leaves, Rejects
  <2>3. ASSUME NEW k \in Jobs, Free(k) PROVE answer[j] = "none" /\ j \notin aborted
    <3> DEFINE n == Shifted(Concurrency - (active - 1))
               shifted == {queue[i] : i \in 1..n}
    <3>1. state' = [i \in Jobs |-> IF i = k \/ i \in shifted \cap aborted THEN "over"
                                   ELSE IF i \in shifted THEN "running" ELSE state[i]]
      BY <2>3 DEF Free
    <3>2. j \in shifted /\ j \notin aborted
      <4> HIDE DEF shifted
      <4> QED
        BY <3>1
    <3>3. k \in InSlot
      BY <2>3 DEF Free, InSlot
    <3>4. active \in 1..Concurrency
      <4>1. Cardinality(InSlot) # 0
        BY <3>3, CountedFinite, FS_EmptySet
      <4> QED
        BY <4>1, BoundsAssumption DEF SlotsExact
    <3>5. n = IF queue = <<>> THEN 0 ELSE 1
      BY <3>4, DrainShiftsOne
    <3> HIDE DEF n
    <3>6. queue # <<>> /\ j = queue[1] /\ 1 \in 1..Len(queue)
      <4>1. queue # <<>> /\ j = queue[1]
        BY <3>2, <3>5
      <4> QED
        BY <4>1, EmptySeq, LenProperties
    <3>7. j \in Queued
      <4>1. Range(queue) = {queue[i] : i \in 1..Len(queue)}
        BY RangeEquality
      <4> QED
        BY <3>6, <4>1 DEF QueueExact
    <3> QED
      BY <3>2, <3>7 DEF NoAnswerYet, Queued
  <2>4. CASE Done /\ UNCHANGED vars
    BY <2>4 DEF vars
  <2> QED
    BY <2>1, <2>2, <2>3, <2>4 DEF Next
<1> QED
  BY <1>1, GuardInvariant, PTL DEF Spec, AbandonedNeverRuns
=============================================================================
