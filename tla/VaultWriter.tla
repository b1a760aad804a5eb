----------------------------- MODULE VaultWriter -----------------------------
(***************************************************************************)
(* Which process may write to the vault (server/vaultWriterOwnership.ts).  *)
(* Every start of the server creates .nuvyn/vault-writer.json exclusively; *)
(* a record left by a dead process of the same host is replaced under an   *)
(* exclusive guard directory.  Processes race with each other at every     *)
(* system call and may die at each of them; a call to the disk may fail.   *)
(*                                                                         *)
(* A member of Processes is one start of the server: it has a host and a   *)
(* pid, writes a record with a nonce of its own (its name stands for the   *)
(* nonce), and never runs again once it has ended.                         *)
(***************************************************************************)
EXTENDS Naturals, FiniteSets

CONSTANTS Processes,  \* the starts of the server
          HostOf,     \* os.hostname() of each
          PidOf,      \* process.pid of each
          Strangers,  \* TRUE when programs other than the server reuse pids
          Stops,      \* how an owner may stop: "abort" and "signal"
          MaxFaults   \* how many calls may fail

CONSTANT NoOne        \* no record, no guard

ASSUME NoOneAssumption == NoOne \notin Processes
ASSUME FaultsAssumption == MaxFaults \in Nat
ASSUME StrangersAssumption == Strangers \in BOOLEAN
ASSUME StopsAssumption == Stops \subseteq {"abort", "signal"}

VARIABLES pc,         \* where each process is
          record,     \* whose ownership record is at the path
          whole,      \* whether that record is completely written
          guard,      \* who made the takeover directory
          incumbent,  \* the owner each process read from the record
          releases,   \* the calls of release each process has under way
          faults,     \* failed calls so far
          astray      \* history: a release has removed another process's record

vars == <<pc, record, whole, guard, incumbent, releases, faults, astray>>

Ended == {"off", "refused", "exited", "dead"}

\* The steps of a takeover that run with the guard in hand.
Guarded == {"claim", "reread", "rejudge", "unlink", "recreate", "rewrite",
            "unguard", "abandon"}

\* From the moment its record is complete, a process counts on it.
Owning == {"unguard", "own"}

\* release is called by the shutdown handler (or by the handler of a failed
\* start) and, when the listener closes, by its 'close' event as well.
Callers == {"shutdown", "close"}

Steps == Ended \cup Guarded \cup Owning
           \cup {"check", "create", "write", "read", "judge", "mkdir", "closing"}

Alive(p) == pc[p] \notin Ended

\* The processes that may be writing: acquire has returned, and the listener is
\* not closed yet.
Writers == {p \in Processes : pc[p] = "own"}

-----------------------------------------------------------------------------
Init == /\ pc = [p \in Processes |-> "off"]
        /\ record = NoOne
        /\ whole = FALSE
        /\ guard = NoOne
        /\ incumbent = [p \in Processes |-> NoOne]
        /\ releases = [p \in Processes |-> [c \in Callers |-> "none"]]
        /\ faults = 0
        /\ astray = FALSE

Goto(p, step) == pc' = [pc EXCEPT ![p] = step]

\* A pid of a running process is not given to another one on the same host.
Start(p) == /\ pc[p] = "off"
            /\ \A q \in Processes :
                 Alive(q) => <<HostOf[q], PidOf[q]>> # <<HostOf[p], PidOf[p]>>
            /\ Goto(p, "check")
            /\ UNCHANGED <<record, whole, guard, incumbent, releases, faults, astray>>

\* assertNoExistingTakeoverGuard
CheckGuard(p) == /\ pc[p] = "check"
                 /\ Goto(p, IF guard = NoOne THEN "create" ELSE "refused")
                 /\ UNCHANGED <<record, whole, guard, incumbent, releases, faults, astray>>

\* open(O_CREAT | O_EXCL): the record exists and is empty, or somebody's
\* record is already there.
Opens(p, from, made, occupied) ==
    /\ pc[p] = from
    /\ IF record = NoOne
       THEN record' = p /\ whole' = FALSE /\ Goto(p, made)
       ELSE Goto(p, occupied) /\ UNCHANGED <<record, whole>>
    /\ UNCHANGED <<guard, incumbent, releases, faults, astray>>

Create(p) == Opens(p, "create", "write", "read")

\* handle.writeFile, through the descriptor: it completes the record at the
\* path only if that is still the one this process created.
Fills(p, from, to) ==
    /\ pc[p] = from
    /\ whole' = (whole \/ record = p)
    /\ Goto(p, to)
    /\ UNCHANGED <<record, guard, incumbent, releases, faults, astray>>

Write(p) == Fills(p, "write", "own")

Fault == faults < MaxFaults /\ faults' = faults + 1

\* A failed write, or sync, throws out of acquire, and the record stays, empty or
\* complete; in a takeover the guard stays too, because the stale record is gone
\* already.
WriteFails(p) == /\ pc[p] \in {"write", "rewrite"}
                 /\ Fault
                 /\ whole' \in {whole, whole \/ record = p}
                 /\ Goto(p, "refused")
                 /\ UNCHANGED <<record, guard, incumbent, releases, astray>>

\* readRecord refuses a record that is missing or incomplete.
Read(p) == /\ pc[p] = "read"
           /\ IF record # NoOne /\ whole
              THEN incumbent' = [incumbent EXCEPT ![p] = record] /\ Goto(p, "judge")
              ELSE Goto(p, "refused") /\ UNCHANGED incumbent
           /\ UNCHANGED <<record, whole, guard, releases, faults, astray>>

\* kill(pid, 0) on this host: some process has that pid.
PidInUse(p, o) == \E q \in Processes :
                    Alive(q) /\ HostOf[q] = HostOf[p] /\ PidOf[q] = PidOf[o]

\* A record whose owner runs on another host counts as stale when its pid is
\* free here.
LooksStaleAnywhere(p, o) == ~PidInUse(p, o)

\* assertStaleOwner lets only a pid of the same host pass that kill says is
\* nobody's.
LooksStale(p, o) == HostOf[o] = HostOf[p] /\ ~PidInUse(p, o)

Judges(p, from, stale, active) ==
    /\ pc[p] = from
    /\ LET o == incumbent[p]
       IN \/ LooksStale(p, o) /\ Goto(p, stale)
          \/ (~LooksStale(p, o) \/ Strangers) /\ Goto(p, active)
    /\ UNCHANGED <<record, whole, guard, incumbent, releases, faults, astray>>

Judge(p) == Judges(p, "judge", "mkdir", "refused")

\* Two contenders get past mkdir.
MakeGuardShared(p) == /\ pc[p] = "mkdir"
                      /\ guard' = p
                      /\ Goto(p, "claim")
                      /\ UNCHANGED <<record, whole, incumbent, releases, faults, astray>>

\* acquireTakeoverGuard: mkdir succeeds for one process only.
MakeGuard(p) == /\ pc[p] = "mkdir"
                /\ IF guard = NoOne
                   THEN guard' = p /\ Goto(p, "claim")
                   ELSE Goto(p, "refused") /\ UNCHANGED guard
                /\ UNCHANGED <<record, whole, incumbent, releases, faults, astray>>

\* ... and then writes record.json into it; a guard whose record could not be
\* written is left standing.
Claim(p) == /\ pc[p] = "claim"
            /\ \/ Goto(p, "reread") /\ UNCHANGED faults
               \/ Fault /\ Goto(p, "refused")
            /\ UNCHANGED <<record, whole, guard, incumbent, releases, astray>>

\* Under the guard: read the record again and compare the nonce.
Reread(p) == /\ pc[p] = "reread"
             /\ Goto(p, IF record = incumbent[p] /\ whole THEN "rejudge" ELSE "abandon")
             /\ UNCHANGED <<record, whole, guard, incumbent, releases, faults, astray>>

Rejudge(p) == Judges(p, "rejudge", "unlink", "abandon")

\* unlink goes by the path, whatever is there by now.
Unlink(p) == /\ pc[p] = "unlink"
             /\ record' = NoOne
             /\ whole' = FALSE
             /\ Goto(p, IF record = NoOne THEN "abandon" ELSE "recreate")
             /\ UNCHANGED <<guard, incumbent, releases, faults, astray>>

\* A process that looked for the guard before it was made may get in between;
\* the takeover then fails and leaves its guard.
Recreate(p) == Opens(p, "recreate", "rewrite", "refused")

Rewrite(p) == Fills(p, "rewrite", "unguard")

\* releaseTakeoverGuard, on success and when nothing was removed yet; a guard
\* that cannot be removed is left standing.
Unguard(p) == /\ pc[p] \in {"unguard", "abandon"}
              /\ \/ guard' = NoOne /\ UNCHANGED faults
                 \/ Fault /\ UNCHANGED guard
              /\ Goto(p, IF pc[p] = "unguard" THEN "own" ELSE "refused")
              /\ UNCHANGED <<record, whole, incumbent, releases, astray>>

\* A start that fails after acquire calls release once.  A signal closes the
\* listener first, and both the 'close' event and the handler then call it, in
\* one turn: neither sees the other's released flag.
Stop(p, how) ==
    /\ pc[p] = "own"
    /\ releases' = [releases EXCEPT ![p] =
                     [c \in Callers |->
                        IF c = "shutdown" \/ how = "signal" THEN "reading" ELSE "none"]]
    /\ Goto(p, "closing")
    /\ UNCHANGED <<record, whole, guard, incumbent, faults, astray>>

\* release compares with a nonce drawn anew, so it never matches.
ReleaseReadNever(p, c) ==
    /\ pc[p] = "closing"
    /\ releases[p][c] = "reading"
    /\ releases' = [releases EXCEPT ![p][c] = "done"]
    /\ UNCHANGED <<pc, record, whole, guard, incumbent, faults, astray>>

\* release: read the record, compare the nonce, ...
ReleaseRead(p, c) ==
    /\ pc[p] = "closing"
    /\ releases[p][c] = "reading"
    /\ releases' = [releases EXCEPT ![p][c] =
                     IF record = p /\ whole THEN "removing" ELSE "done"]
    /\ UNCHANGED <<pc, record, whole, guard, incumbent, faults, astray>>

\* ... and unlink the path, which may fail.
ReleaseUnlink(p, c) ==
    /\ pc[p] = "closing"
    /\ releases[p][c] = "removing"
    /\ \/ /\ record' = NoOne
          /\ whole' = FALSE
          /\ astray' = (astray \/ record \notin {p, NoOne})
          /\ UNCHANGED faults
       \/ Fault /\ UNCHANGED <<record, whole, astray>>
    /\ releases' = [releases EXCEPT ![p][c] = "done"]
    /\ UNCHANGED <<pc, guard, incumbent>>

\* The process exits when the handler's own call is over.
Exit(p) == /\ pc[p] = "closing"
           /\ releases[p]["shutdown"] = "done"
           /\ Goto(p, "exited")
           /\ UNCHANGED <<record, whole, guard, incumbent, releases, faults, astray>>

\* What the process knew is gone with it; the disk keeps what is there.
Crash(p) == /\ Alive(p)
            /\ Goto(p, "dead")
            /\ incumbent' = [incumbent EXCEPT ![p] = NoOne]
            /\ releases' = [releases EXCEPT ![p] = [c \in Callers |-> "none"]]
            /\ UNCHANGED <<record, whole, guard, faults, astray>>

Next == \E p \in Processes :
          \/ Start(p) \/ CheckGuard(p) \/ Create(p) \/ Write(p) \/ WriteFails(p)
          \/ Read(p) \/ Judge(p) \/ MakeGuard(p) \/ Claim(p) \/ Reread(p)
          \/ Rejudge(p) \/ Unlink(p) \/ Recreate(p) \/ Rewrite(p) \/ Unguard(p)
          \/ \E how \in Stops : Stop(p, how)
          \/ \E c \in Callers : ReleaseRead(p, c) \/ ReleaseUnlink(p, c)
          \/ Exit(p) \/ Crash(p)

Spec == Init /\ [][Next]_vars

-----------------------------------------------------------------------------
TypeOK == /\ pc \in [Processes -> Steps]
          /\ record \in Processes \cup {NoOne}
          /\ whole \in BOOLEAN
          /\ guard \in Processes \cup {NoOne}
          /\ incumbent \in [Processes -> Processes \cup {NoOne}]
          /\ releases \in [Processes -> [Callers -> {"none", "reading", "removing", "done"}]]
          /\ faults \in 0..MaxFaults
          /\ astray \in BOOLEAN

\* What the documentation promises without condition ("preserves the single-writer
\* guarantee", docs/deployment/docker.md): at most one process serves the vault.  A
\* stop on a signal breaks it: both of its calls of release pass the nonce check,
\* and the second unlink (317) may hit the record of the next process.
OneWriter == \A p, q \in Writers : p = q

\* At most one process serves the vault, whatever races, crashes and stale records
\* preceded it (250-326), until a release has removed another process's record.
\* LiveRecordStands says which release alone can do that.
SingleWriter == ~astray => \A p, q \in Writers : p = q

\* The record of a process that is still running is never removed by a takeover,
\* only by a release that passed the nonce check (201-224, 311-317): its own, or, of
\* the two calls of a process that stops on a signal, the one whose unlink comes
\* second.  Nor does any other release go astray, be the record that of a dead
\* process.  (Once it has happened, a takeover under way may remove a live record
\* too.)
RemovedByRelease ==
    \A p \in Processes :
      ~astray /\ record = p /\ record' # p /\ (Alive(p) \/ astray') =>
        \E q \in Processes, c \in Callers :
          /\ pc[q] = "closing"
          /\ releases[q][c] = "removing"
          /\ releases'[q][c] = "done"
          /\ q = p \/ \E d \in Callers : releases[q][d] = "done"

LiveRecordStands == [][RemovedByRelease]_vars

\* A process that ended on its own, refused, or stopped in either way, leaves no
\* record behind that would keep the next one from starting, unless a call failed
\* (307-324, 328-354).
NoRecordLeftBehind ==
    faults = 0 => \A p \in Processes : pc[p] \in {"refused", "exited"} => record # p

-----------------------------------------------------------------------------
\* No record and no judgement names a process that has not started.
Named(p) == pc[p] = "off" => record # p /\ \A q \in Processes : incumbent[q] # p

\* Whoever got past assertStaleOwner judged a process that is dead for good.
JudgedDead(p) ==
    /\ pc[p] \in {"judge", "mkdir", "claim", "reread", "rejudge", "unlink"}
         => incumbent[p] \in Processes
    /\ pc[p] \in {"mkdir", "claim", "reread", "rejudge", "unlink"} => ~Alive(incumbent[p])

\* Under the guard, the record read again is still that process's.
GuardKeeps(p) ==
    /\ pc[p] \in Guarded => guard = p
    /\ pc[p] \in {"rejudge", "unlink"} => record = incumbent[p] /\ whole

\* Whoever wrote its record finds it at the path until it removes it.
RecordIsMine(p) ==
    /\ pc[p] \in {"write", "rewrite"} => record = p
    /\ pc[p] \in Owning => record = p /\ whole
    /\ pc[p] = "closing" /\ (\A c \in Callers : releases[p][c] # "done")
         => record = p /\ whole

\* As long as no call failed: whose record is at the path will remove it, unless
\* it dies, and release finds it complete and does not give up on it.
WillCleanUp(p) ==
    faults = 0 /\ record = p =>
      /\ pc[p] \in {"write", "rewrite", "unguard", "own", "closing", "dead"}
      /\ pc[p] \in Owning \cup {"closing"} => whole
      /\ pc[p] = "closing" => releases[p]["shutdown"] \in {"reading", "removing"}

\* Why a takeover is safe, as long as no release went astray.
OwnershipInv ==
    /\ TypeOK
    /\ \A p \in Processes : /\ Named(p)
                            /\ ~astray => JudgedDead(p) /\ GuardKeeps(p) /\ RecordIsMine(p)
=============================================================================
