------------------------------- MODULE KdfGuard -------------------------------
(***************************************************************************)
(* The budget for password hashing (server/auth/kdfGuard.ts): at most      *)
(* Concurrency jobs run, at most MaxQueue wait, and a waiting job leaves   *)
(* when its request is aborted or it has waited too long.  run, the abort  *)
(* listener, the timer and the finally block of a finished job each run to *)
(* completion before another one starts; a job ends whenever it likes.     *)
(***************************************************************************)
EXTENDS Naturals, Sequences, FiniteSets, SequencesExt

CONSTANTS Jobs,         \* the calls of run
          Concurrency,  \* jobs that may run together
          MaxQueue      \* jobs that may wait

ASSUME JobsAssumption == IsFiniteSet(Jobs)
ASSUME BoundsAssumption == Concurrency \in Nat \ {0} /\ MaxQueue \in Nat

VARIABLES state,    \* where each job is
          answer,   \* what its caller got
          aborted,  \* the jobs whose signal has fired
          active,   \* this.active
          queue     \* this.queue

vars == <<state, answer, aborted, active, queue>>

\* A job has its slot from start to the finally block after its promise settled.
InSlot == {j \in Jobs : state[j] \in {"running", "settled"}}

Queued == {j \in Jobs : state[j] = "queued"}

-----------------------------------------------------------------------------
Init == /\ state = [j \in Jobs |-> "new"]
        /\ answer = [j \in Jobs |-> "none"]
        /\ aborted = {}
        /\ active = 0
        /\ queue = <<>>

\* One of the guard's own errors.
Rejects(j, error) == /\ state' = [state EXCEPT ![j] = "over"]
                     /\ answer' = [answer EXCEPT ![j] = error]

Run(j) == /\ state[j] = "new"
          /\ \/ /\ j \in aborted
                /\ Rejects(j, "aborted")
                /\ UNCHANGED <<active, queue>>
             \/ /\ j \notin aborted
                /\ active < Concurrency
                /\ state' = [state EXCEPT ![j] = "running"]
                /\ active' = active + 1
                /\ UNCHANGED <<answer, queue>>
             \/ /\ j \notin aborted
                /\ active >= Concurrency
                /\ Len(queue) >= MaxQueue
                /\ Rejects(j, "full")
                /\ UNCHANGED <<active, queue>>
             \/ /\ j \notin aborted
                /\ active >= Concurrency
                /\ Len(queue) < MaxQueue
                /\ state' = [state EXCEPT ![j] = "queued"]
                /\ queue' = Append(queue, j)
                /\ UNCHANGED <<answer, active>>
          /\ UNCHANGED aborted

\* The caller's error, without removeQueued.
LeavesStale(j, error) == Rejects(j, error) /\ UNCHANGED <<active, queue>>

\* removeQueued: the entry is spliced out at its index.
RemoveQueued(j) == RemoveAt(queue, CHOOSE i \in 1..Len(queue) : queue[i] = j)

\* removeQueued, and the caller's error.
Leaves(j, error) == /\ Rejects(j, error)
                    /\ queue' = RemoveQueued(j)
                    /\ UNCHANGED active

\* The request's signal fires.  The listener is there only while the job waits;
\* a running job is not stopped.
Abort(j) == /\ state[j] # "over"
            /\ j \notin aborted
            /\ aborted' = aborted \cup {j}
            /\ IF state[j] = "queued"
               THEN Leaves(j, "aborted")
               ELSE UNCHANGED <<state, answer, active, queue>>

\* The timer rejects the caller and leaves the entry in the queue.
TimeOutStaysQueued(j) == /\ state[j] = "queued"
                         /\ answer' = [answer EXCEPT ![j] = "timeout"]
                         /\ UNCHANGED <<state, aborted, active, queue>>

\* The timer of maxQueueWaitMs, cleared when the job starts.
TimeOut(j) == /\ state[j] = "queued"
              /\ Leaves(j, "timeout")
              /\ UNCHANGED aborted

\* The job's promise settles and so does the caller's.
Settle(j) == /\ state[j] = "running"
             /\ state' = [state EXCEPT ![j] = "settled"]
             /\ answer' = [answer EXCEPT ![j] = "answered"]
             /\ UNCHANGED <<aborted, active, queue>>

\* The slot is given back and nobody is woken.
FreeWithoutDrain(j) == /\ state[j] = "settled"
                       /\ state' = [state EXCEPT ![j] = "over"]
                       /\ active' = active - 1
                       /\ UNCHANGED <<answer, aborted, queue>>

\* drain shifts entries off the queue while a slot is free; one whose signal has
\* fired is rejected and takes none.
Willing(n) == Cardinality({i \in 1..n : queue[i] \notin aborted})

Shifted(slots) ==
    CHOOSE n \in 0..Len(queue) : /\ Willing(n) = slots \/ n = Len(queue)
                                 /\ \A m \in 0..(n - 1) : Willing(m) < slots

\* finally: the slot is free, and drain gives it to the queue.
Free(j) ==
    /\ state[j] = "settled"
    /\ LET n == Shifted(Concurrency - (active - 1))
           shifted == {queue[i] : i \in 1..n}
       IN /\ state' = [k \in Jobs |-> IF k = j \/ k \in shifted \cap aborted THEN "over"
                                      ELSE IF k \in shifted THEN "running"
                                      ELSE state[k]]
          /\ answer' = [k \in Jobs |-> IF k \in shifted \cap aborted THEN "aborted"
                                       ELSE answer[k]]
          /\ active' = active - 1 + Cardinality(shifted \ aborted)
          /\ queue' = SubSeq(queue, n + 1, Len(queue))
    /\ UNCHANGED aborted

Done == \A j \in Jobs : state[j] = "over"

Next == \/ \E j \in Jobs : Run(j) \/ Abort(j) \/ TimeOut(j) \/ Settle(j) \/ Free(j)
        \/ Done /\ UNCHANGED vars

\* A hash always ends, and the finally block of a settled job always runs.  The
\* timer is not relied upon.
Fairness == \A j \in Jobs : WF_vars(Settle(j)) /\ WF_vars(Free(j))

Spec == Init /\ [][Next]_vars /\ Fairness

-----------------------------------------------------------------------------
TypeOK == /\ state \in [Jobs -> {"new", "queued", "running", "settled", "over"}]
          /\ answer \in [Jobs -> {"none", "answered", "full", "timeout", "aborted"}]
          /\ aborted \subseteq Jobs
          /\ active \in 0..Concurrency
          /\ queue \in Seq(Jobs)

SlotsExact == active = Cardinality(InSlot) /\ active <= Concurrency

WorkConserving == queue # <<>> => active = Concurrency

QueueExact == /\ Range(queue) = Queued
              /\ Len(queue) = Cardinality(Queued)
              /\ Len(queue) <= MaxQueue
              /\ Queued \cap aborted = {}

\* The bookkeeping of the budget is exact through every abort, timeout and failure
\* (run, removeQueued, start, drain: 145-219): this.active counts the jobs that hold
\* a slot and never passes the limit, nobody waits while a slot is free, and the
\* queue holds the waiting jobs, each once and none whose signal has fired.
BudgetExact == TypeOK /\ SlotsExact /\ WorkConserving /\ QueueExact

\* No hash is spent on a job whose caller has its answer already or gave up
\* before the job started (the abort listener and the timer, 154-168, removeQueued).
AbandonedNeverRuns == [][\A j \in Jobs :
                           state[j] # "running" /\ state'[j] = "running"
                             => answer[j] = "none" /\ j \notin aborted]_vars

\* Every job that called run is answered, even if no timer ever fires: a slot
\* that is given back always goes to the head of the queue.
EveryJobIsAnswered == \A j \in Jobs : state[j] = "queued" ~> answer[j] # "none"
=============================================================================
