-------------------------- MODULE ExclusionProofs --------------------------
(***************************************************************************)
(* Proofs that writers exclude each other, at the two levels of the server *)
(* (VaultWriter and WriteLock, whose variables are disjoint): one process  *)
(* owns the vault, and in that process one operation holds a lock key.     *)
(*                                                                         *)
(* VaultWriter: for any processes, hosts, pids and number of failing       *)
(* calls, and for both ways of stopping.  The second release of a stop on  *)
(* a signal may remove the record of another process; the theorems say     *)
(* that no other step can, and what holds until it has happened.           *)
(*                                                                         *)
(* WriteLock: for every set of operations, every set of keys and every     *)
(* assignment of footprints.                                               *)
(***************************************************************************)
EXTENDS WriteLock, VaultWriter, FiniteSetTheorems, TLAPS

\* OwnershipInv holds when no process has started yet.
LEMMA OwnershipInitially == Init => OwnershipInv
<1> SUFFICES ASSUME Init PROVE OwnershipInv
  OBVIOUS
<1>1. TypeOK
  <2>1. releases \in [Processes -> [Callers -> {"none", "reading", "removing", "done"}]]
    BY DEF Init
  <2>2. pc \in [Processes -> Steps]
    BY DEF Init, Steps, Ended
  <2>3. /\ record \in Processes \cup {NoOne}
        /\ guard \in Processes \cup {NoOne}
        /\ incumbent \in [Processes -> Processes \cup {NoOne}]
    BY DEF Init
  <2>4. whole \in BOOLEAN
    BY DEF Init
  <2>5. faults \in 0..MaxFaults
    BY FaultsAssumption DEF Init
  <2>6. astray \in BOOLEAN
    BY DEF Init
  <2> QED BY <2>1, <2>2, <2>3, <2>4, <2>5, <2>6 DEF TypeOK
<1>2. ASSUME NEW p \in Processes
      PROVE  Named(p) /\ JudgedDead(p) /\ GuardKeeps(p) /\ RecordIsMine(p)
  BY NoOneAssumption
     DEF Init, Named, JudgedDead, GuardKeeps, RecordIsMine, Guarded, Owning, Callers
<1> QED BY <1>1, <1>2 DEF OwnershipInv

\* A pid that assertStaleOwner finds free on the record's own host belongs to a
\* process that has ended.
LEMMA StaleHasEnded ==
  ASSUME NEW p \in Processes, NEW o \in Processes, LooksStale(p, o)
  PROVE  ~Alive(o)
  BY DEF LooksStale, PidInUse

\* A failing call stays within the bound.
LEMMA FaultCounted ==
  ASSUME faults \in 0..MaxFaults, Fault
  PROVE  faults' \in 0..MaxFaults
  BY FaultsAssumption DEF Fault

\* The types are preserved by every step.
LEMMA TypesPreserved ==
  ASSUME TypeOK, [Next]_vars
  PROVE  TypeOK'
<1> USE NoOneAssumption, FaultsAssumption DEF TypeOK
<1>1. CASE UNCHANGED vars
  BY <1>1 DEF vars
<1>2. CASE Next
  <2> SUFFICES ASSUME NEW p \in Processes,
                      \/ Start(p) \/ CheckGuard(p) \/ Create(p) \/ Write(p) \/ WriteFails(p)
                      \/ Read(p) \/ Judge(p) \/ MakeGuard(p) \/ Claim(p) \/ Reread(p)
                      \/ Rejudge(p) \/ Unlink(p) \/ Recreate(p) \/ Rewrite(p) \/ Unguard(p)
                      \/ \E how \in Stops : Stop(p, how)
                      \/ \E c \in Callers : ReleaseRead(p, c) \/ ReleaseUnlink(p, c)
                      \/ Exit(p) \/ Crash(p)
               PROVE  TypeOK'
    BY <1>2 DEF Next
  <2> USE DEF Goto, Steps, Ended, Guarded, Owning
  <2>1. CASE Start(p) BY <2>1 DEF Start
  <2>2. CASE CheckGuard(p) BY <2>2 DEF CheckGuard
  <2>3. CASE Create(p) BY <2>3 DEF Create, Opens
  <2>4. CASE Write(p) BY <2>4 DEF Write, Fills
  <2>5. CASE WriteFails(p)
    <3>1. faults' \in 0..MaxFaults
      BY <2>5, FaultCounted DEF WriteFails
    <3>2. whole' \in BOOLEAN
      BY <2>5 DEF WriteFails
    <3>3. pc' \in [Processes -> Steps]
      BY <2>5 DEF WriteFails
    <3> QED BY <2>5, <3>1, <3>2, <3>3 DEF WriteFails
  <2>6. CASE Read(p)
    <3>1. CASE record # NoOne /\ whole
      <4>1. incumbent' = [incumbent EXCEPT ![p] = record] /\ pc' = [pc EXCEPT ![p] = "judge"]
        BY <2>6, <3>1 DEF Read
      <4> QED BY <2>6, <4>1 DEF Read
    <3>2. CASE ~(record # NoOne /\ whole)
      BY <2>6, <3>2 DEF Read
    <3> QED BY <3>1, <3>2
  <2>7. CASE Judge(p) BY <2>7 DEF Judge, Judges
  <2>8. CASE MakeGuard(p) BY <2>8 DEF MakeGuard
  <2>9. CASE Claim(p)
    <3>1. pc' \in [Processes -> Steps]
      BY <2>9 DEF Claim
    <3>2. faults' \in 0..MaxFaults
      BY <2>9, FaultCounted DEF Claim
    <3> QED BY <2>9, <3>1, <3>2 DEF Claim
  <2>10. CASE Reread(p) BY <2>10 DEF Reread
  <2>11. CASE Rejudge(p) BY <2>11 DEF Rejudge, Judges
  <2>12. CASE Unlink(p) BY <2>12 DEF Unlink
  <2>13. CASE Recreate(p) BY <2>13 DEF Recreate, Opens
  <2>14. CASE Rewrite(p) BY <2>14 DEF Rewrite, Fills
  <2>15. CASE Unguard(p)
    <3>1. faults' \in 0..MaxFaults
      BY <2>15, FaultCounted DEF Unguard
    <3>2. pc' \in [Processes -> Steps]
      BY <2>15 DEF Unguard
    <3> QED BY <2>15, <3>1, <3>2 DEF Unguard
  <2>16. CASE \E how \in Stops : Stop(p, how) BY <2>16 DEF Stop, Callers
  <2>17. CASE \E c \in Callers : ReleaseRead(p, c) BY <2>17 DEF ReleaseRead, Callers
  <2>18. CASE \E c \in Callers : ReleaseUnlink(p, c)
    <3> PICK c \in Callers : ReleaseUnlink(p, c)
      BY <2>18
    <3>1. releases' = [releases EXCEPT ![p] = [releases[p] EXCEPT ![c] = "done"]]
      BY DEF ReleaseUnlink
    <3>2. [releases[p] EXCEPT ![c] = "done"]
            \in [Callers -> {"none", "reading", "removing", "done"}]
      OBVIOUS
    <3>3. releases' \in [Processes -> [Callers -> {"none", "reading", "removing", "done"}]]
      BY <3>1, <3>2
    <3>4. faults' \in 0..MaxFaults
      BY FaultCounted DEF ReleaseUnlink
    <3>5. astray' \in BOOLEAN
      BY DEF ReleaseUnlink
    <3> QED BY <3>3, <3>4, <3>5 DEF ReleaseUnlink
  <2>19. CASE Exit(p) BY <2>19 DEF Exit
  <2>20. CASE Crash(p) BY <2>20 DEF Crash
  <2> QED BY <2>1, <2>2, <2>3, <2>4, <2>5, <2>6, <2>7, <2>8, <2>9, <2>10, <2>11,
             <2>12, <2>13, <2>14, <2>15, <2>16, <2>17, <2>18, <2>19, <2>20
<1> QED BY <1>1, <1>2

\* A step of process p keeps process q out of the record and of every judgement
\* until q starts.
LEMMA NamedPreserved ==
  ASSUME TypeOK, NEW p \in Processes, NEW q \in Processes, Named(q),
         \/ Start(p) \/ CheckGuard(p) \/ Create(p) \/ Write(p) \/ WriteFails(p)
         \/ Read(p) \/ Judge(p) \/ MakeGuard(p) \/ Claim(p) \/ Reread(p)
         \/ Rejudge(p) \/ Unlink(p) \/ Recreate(p) \/ Rewrite(p) \/ Unguard(p)
         \/ \E how \in Stops : Stop(p, how)
         \/ \E c \in Callers : ReleaseRead(p, c) \/ ReleaseUnlink(p, c)
         \/ Exit(p) \/ Crash(p)
  PROVE  Named(q)'
<1> USE NoOneAssumption DEF TypeOK, Named, Goto
<1>1. ASSUME incumbent' = incumbent, record' \in {record, p, NoOne},
             pc'[q] = pc[q] \/ pc'[q] # "off",
             record' = p /\ record # p => pc'[p] # "off"
      PROVE  Named(q)'
  BY <1>1
<1>2. CASE Read(p)
  <2>1. CASE record # NoOne /\ whole
    <3>1. incumbent' = [incumbent EXCEPT ![p] = record]
      BY <1>2, <2>1 DEF Read
    <3>2. record' = record /\ (pc'[q] = "off" => pc[q] = "off")
      BY <1>2, <2>1 DEF Read
    <3> QED BY <3>1, <3>2
  <2>2. CASE ~(record # NoOne /\ whole)
    BY <1>1, <1>2, <2>2 DEF Read
  <2> QED BY <2>1, <2>2
<1>3. CASE Create(p) \/ Recreate(p)
  BY <1>1, <1>3 DEF Create, Recreate, Opens
<1>4. CASE Start(p) \/ CheckGuard(p) \/ MakeGuard(p) \/ Claim(p) \/ Reread(p) \/ Unguard(p)
  BY <1>1, <1>4 DEF Start, CheckGuard, MakeGuard, Claim, Reread, Unguard
<1>5. CASE Write(p) \/ Rewrite(p) \/ WriteFails(p)
  BY <1>1, <1>5 DEF Write, Rewrite, Fills, WriteFails
<1>6. CASE Judge(p) \/ Rejudge(p) \/ Unlink(p)
  BY <1>1, <1>6 DEF Judge, Rejudge, Judges, Unlink
<1>7. CASE (\E how \in Stops : Stop(p, how)) \/ Exit(p) \/ Crash(p)
  BY <1>1, <1>7 DEF Stop, Exit, Crash
<1>8. CASE \E c \in Callers : ReleaseRead(p, c) \/ ReleaseUnlink(p, c)
  BY <1>1, <1>8 DEF ReleaseRead, ReleaseUnlink
<1> QED BY <1>2, <1>3, <1>4, <1>5, <1>6, <1>7, <1>8

\* What a release that goes astray has done is not undone.
LEMMA AstrayGrows ==
  ASSUME TypeOK, [Next]_vars, ~astray'
  PROVE  ~astray
  BY DEF TypeOK, Next, vars, Start, CheckGuard, Create, Opens, Write, Fills, WriteFails, Read,
         Judge, Judges, MakeGuard, Claim, Reread, Rejudge, Unlink, Recreate, Rewrite,
         Unguard, Stop, ReleaseRead, ReleaseUnlink, Exit, Crash

\* What a step of process p does to the claims of process q, unless a release goes
\* astray in it.
LEMMA ClaimsPreserved ==
  ASSUME OwnershipInv, ~astray, ~astray', TypeOK',
         NEW p \in Processes, NEW q \in Processes,
         \/ Start(p) \/ CheckGuard(p) \/ Create(p) \/ Write(p) \/ WriteFails(p)
         \/ Read(p) \/ Judge(p) \/ MakeGuard(p) \/ Claim(p) \/ Reread(p)
         \/ Rejudge(p) \/ Unlink(p) \/ Recreate(p) \/ Rewrite(p) \/ Unguard(p)
         \/ \E how \in Stops : Stop(p, how)
         \/ \E c \in Callers : ReleaseRead(p, c) \/ ReleaseUnlink(p, c)
         \/ Exit(p) \/ Crash(p)
  PROVE  JudgedDead(q)' /\ GuardKeeps(q)' /\ RecordIsMine(q)'
<1> USE NoOneAssumption
    DEF OwnershipInv, TypeOK, Named, JudgedDead, GuardKeeps, RecordIsMine, Alive,
        Goto, Ended, Guarded, Owning
<1>1. CASE Start(p) BY <1>1 DEF Start
<1>2. CASE CheckGuard(p) BY <1>2 DEF CheckGuard
<1>3. CASE Create(p) BY <1>3 DEF Create, Opens
<1>4. CASE Write(p)
  <2>1. JudgedDead(q)'
    BY <1>4 DEF Write, Fills
  <2>2. GuardKeeps(q)'
    BY <1>4 DEF Write, Fills
  <2>3. RecordIsMine(q)'
    BY <1>4 DEF Write, Fills
  <2> QED BY <2>1, <2>2, <2>3
<1>5. CASE WriteFails(p) BY <1>5 DEF WriteFails
<1>6. CASE Read(p) BY <1>6 DEF Read
<1>7. CASE Judge(p) BY <1>7, StaleHasEnded DEF Judge, Judges
<1>8. CASE MakeGuard(p) BY <1>8 DEF MakeGuard
<1>9. CASE Claim(p) BY <1>9 DEF Claim
<1>10. CASE Reread(p) BY <1>10 DEF Reread
<1>11. CASE Rejudge(p) BY <1>11 DEF Rejudge, Judges
<1>12. CASE Unlink(p) BY <1>12 DEF Unlink
<1>13. CASE Recreate(p)
  <2>1. JudgedDead(q)'
    BY <1>13 DEF Recreate, Opens
  <2>2. GuardKeeps(q)'
    BY <1>13 DEF Recreate, Opens
  <2>3. RecordIsMine(q)'
    BY <1>13 DEF Recreate, Opens
  <2> QED BY <2>1, <2>2, <2>3
<1>14. CASE Rewrite(p)
  <2>1. JudgedDead(q)'
    BY <1>14 DEF Rewrite, Fills
  <2>2. GuardKeeps(q)'
    BY <1>14 DEF Rewrite, Fills
  <2>3. RecordIsMine(q)'
    BY <1>14 DEF Rewrite, Fills
  <2> QED BY <2>1, <2>2, <2>3
<1>15. CASE Unguard(p) BY <1>15 DEF Unguard
<1>16. CASE \E how \in Stops : Stop(p, how)
  <2>1. record = p /\ whole
    BY <1>16 DEF Stop
  <2>2. JudgedDead(q)' /\ GuardKeeps(q)'
    BY <1>16 DEF Stop
  <2>3. RecordIsMine(q)'
    BY <1>16, <2>1 DEF Stop
  <2> QED BY <2>2, <2>3
<1>17. CASE \E c \in Callers : ReleaseRead(p, c)
  <2> PICK c \in Callers : ReleaseRead(p, c)
    BY <1>17
  <2>1. JudgedDead(q)' /\ GuardKeeps(q)'
    BY DEF ReleaseRead
  <2>2. CASE q = p
    <3>1. pc'[p] = "closing" /\ record' = record /\ whole' = whole
      BY DEF ReleaseRead
    <3>2. releases'[p][c] # "done" => record = p /\ whole
      BY DEF ReleaseRead
    <3> QED BY <2>2, <3>1, <3>2
  <2>3. CASE q # p
    BY <2>3 DEF ReleaseRead
  <2> QED BY <2>1, <2>2, <2>3
<1>18. CASE \E c \in Callers : ReleaseUnlink(p, c)
  <2> PICK c \in Callers : ReleaseUnlink(p, c)
    BY <1>18
  <2>1. pc' = pc /\ guard' = guard /\ incumbent' = incumbent /\ pc[p] = "closing"
    BY DEF ReleaseUnlink
  <2>2. (record' = record /\ whole' = whole) \/ record \in {p, NoOne}
    BY DEF ReleaseUnlink
  <2>3. JudgedDead(q)' /\ GuardKeeps(q)'
    BY <2>1, <2>2
  <2>4. CASE q = p
    <3>1. releases'[p][c] = "done"
      BY DEF ReleaseUnlink
    <3> QED BY <2>1, <2>4, <3>1
  <2>5. CASE q # p
    <3>1. releases'[q] = releases[q]
      BY <2>5 DEF ReleaseUnlink
    <3> QED BY <2>1, <2>2, <2>5, <3>1
  <2> QED BY <2>3, <2>4, <2>5
<1>19. CASE Exit(p) BY <1>19 DEF Exit
<1>20. CASE Crash(p) BY <1>20 DEF Crash
<1> QED BY <1>1, <1>2, <1>3, <1>4, <1>5, <1>6, <1>7, <1>8, <1>9, <1>10, <1>11,
           <1>12, <1>13, <1>14, <1>15, <1>16, <1>17, <1>18, <1>19, <1>20

\* OwnershipInv is inductive, for both ways of stopping.
LEMMA OwnershipPreserved ==
  ASSUME OwnershipInv, [Next]_vars
  PROVE  OwnershipInv'
<1>1. TypeOK'
  BY TypesPreserved DEF OwnershipInv
<1>2. CASE UNCHANGED vars
  BY <1>2 DEF vars, OwnershipInv, TypeOK, Named, JudgedDead, GuardKeeps, RecordIsMine, Alive
<1>3. CASE Next
  <2> PICK p \in Processes :
                      \/ Start(p) \/ CheckGuard(p) \/ Create(p) \/ Write(p) \/ WriteFails(p)
                      \/ Read(p) \/ Judge(p) \/ MakeGuard(p) \/ Claim(p) \/ Reread(p)
                      \/ Rejudge(p) \/ Unlink(p) \/ Recreate(p) \/ Rewrite(p) \/ Unguard(p)
                      \/ \E how \in Stops : Stop(p, how)
                      \/ \E c \in Callers : ReleaseRead(p, c) \/ ReleaseUnlink(p, c)
                      \/ Exit(p) \/ Crash(p)
    BY <1>3 DEF Next
  <2>1. \A q \in Processes : Named(q)'
    BY NamedPreserved DEF OwnershipInv
  <2>2. ASSUME ~astray' PROVE ~astray
    BY <2>2, AstrayGrows DEF OwnershipInv
  <2>3. ASSUME ~astray', NEW q \in Processes
        PROVE  JudgedDead(q)' /\ GuardKeeps(q)' /\ RecordIsMine(q)'
    BY <1>1, <2>2, <2>3, ClaimsPreserved
  <2> QED BY <1>1, <2>1, <2>3 DEF OwnershipInv
<1> QED BY <1>2, <1>3

\* In every reachable state, as long as no release has gone astray: an owner's
\* record is at the path, and a takeover under way deals with a dead process's
\* record.
THEOREM OwnershipInvariant == Spec => []OwnershipInv
<1>1. Init => OwnershipInv
  BY OwnershipInitially
<1>2. OwnershipInv /\ [Next]_vars => OwnershipInv'
  BY OwnershipPreserved
<1> QED BY <1>1, <1>2, PTL DEF Spec

\* acquireVaultWriterOwnership: at most one process serves the vault, for any
\* number of starts, hosts, pids, crashes, failing calls and stops of both kinds,
\* until a release has removed another process's record.
THEOREM OneWriterAtATime == Spec => []SingleWriter
<1>1. OwnershipInv => SingleWriter
  BY DEF OwnershipInv, RecordIsMine, SingleWriter, Writers, Owning
<1> QED BY <1>1, OwnershipInvariant, PTL

\* release and stale-owner takeover: no takeover removes the record of a running
\* process, and no release does but its own and the second one of a process that
\* stops on a signal.
THEOREM LiveRecordsStand == Spec => LiveRecordStands
<1>1. ASSUME OwnershipInv, [Next]_vars, NEW q \in Processes,
             ~astray, record = q, record' # q, Alive(q) \/ astray'
      PROVE  \E p \in Processes, c \in Callers :
               /\ pc[p] = "closing" /\ releases[p][c] = "removing" /\ releases'[p][c] = "done"
               /\ p = q \/ \E d \in Callers : releases[p][d] = "done"
  <2>0. record' # record
    BY <1>1
  <2>1. PICK p \in Processes :
                      \/ Start(p) \/ CheckGuard(p) \/ Create(p) \/ Write(p) \/ WriteFails(p)
                      \/ Read(p) \/ Judge(p) \/ MakeGuard(p) \/ Claim(p) \/ Reread(p)
                      \/ Rejudge(p) \/ Unlink(p) \/ Recreate(p) \/ Rewrite(p) \/ Unguard(p)
                      \/ \E how \in Stops : Stop(p, how)
                      \/ \E c \in Callers : ReleaseRead(p, c) \/ ReleaseUnlink(p, c)
                      \/ Exit(p) \/ Crash(p)
    BY <1>1, <2>0 DEF Next, vars
  <2>2. ~Unlink(p)
    BY <1>1 DEF Unlink, OwnershipInv, JudgedDead, GuardKeeps
  <2>3. ~Create(p) /\ ~Recreate(p)
    BY <1>1, <2>0, NoOneAssumption DEF Create, Recreate, Opens
  <2>4. ~(Unlink(p) \/ Create(p) \/ Recreate(p) \/ \E c \in Callers : ReleaseUnlink(p, c))
          => record' = record
    BY <2>1 DEF Start, CheckGuard, Write, Fills, WriteFails, Read, Judge, Judges, MakeGuard,
                Claim, Reread, Rejudge, Rewrite, Unguard, Stop, ReleaseRead, Exit, Crash
  <2>5. PICK c \in Callers : ReleaseUnlink(p, c)
    BY <2>0, <2>2, <2>3, <2>4
  <2>6. pc[p] = "closing" /\ releases[p][c] = "removing" /\ releases'[p][c] = "done"
    BY <1>1, <2>5 DEF ReleaseUnlink, OwnershipInv, TypeOK
  <2>7. p = q \/ \E d \in Callers : releases[p][d] = "done"
    BY <1>1, <2>6 DEF OwnershipInv, RecordIsMine
  <2> QED BY <2>6, <2>7
<1>2. OwnershipInv /\ [Next]_vars => [RemovedByRelease]_vars
  BY <1>1 DEF RemovedByRelease
<1> QED BY <1>2, OwnershipInvariant, PTL DEF Spec, LiveRecordStands

\* A step of process p keeps what is said of process q as long as no call failed.
LEMMA CleanUpPreserved ==
  ASSUME TypeOK, TypeOK', NEW p \in Processes, NEW q \in Processes, WillCleanUp(q), Named(q),
         \/ Start(p) \/ CheckGuard(p) \/ Create(p) \/ Write(p) \/ WriteFails(p)
         \/ Read(p) \/ Judge(p) \/ MakeGuard(p) \/ Claim(p) \/ Reread(p)
         \/ Rejudge(p) \/ Unlink(p) \/ Recreate(p) \/ Rewrite(p) \/ Unguard(p)
         \/ \E how \in Stops : Stop(p, how)
         \/ \E c \in Callers : ReleaseRead(p, c) \/ ReleaseUnlink(p, c)
         \/ Exit(p) \/ Crash(p)
  PROVE  WillCleanUp(q)'
<1>1. SUFFICES ASSUME faults' = 0 PROVE WillCleanUp(q)'
  BY DEF WillCleanUp
<1> USE NoOneAssumption, <1>1 DEF TypeOK, Named, WillCleanUp, Goto, Owning
<1>2. faults \in Nat /\ ~Fault
  BY FaultsAssumption DEF Fault
<1>3. CASE Start(p) BY <1>3 DEF Start
<1>4. CASE CheckGuard(p) BY <1>4 DEF CheckGuard
<1>5. CASE Create(p) BY <1>5 DEF Create, Opens
<1>6. CASE Write(p) BY <1>6 DEF Write, Fills
<1>7. CASE WriteFails(p) BY <1>2, <1>7 DEF WriteFails
<1>8. CASE Read(p) BY <1>8 DEF Read
<1>9. CASE Judge(p) BY <1>9 DEF Judge, Judges
<1>10. CASE MakeGuard(p) BY <1>10 DEF MakeGuard
<1>11. CASE Claim(p) BY <1>2, <1>11 DEF Claim
<1>12. CASE Reread(p) BY <1>12 DEF Reread
<1>13. CASE Rejudge(p) BY <1>13 DEF Rejudge, Judges
<1>14. CASE Unlink(p) BY <1>14 DEF Unlink
<1>15. CASE Recreate(p) BY <1>15 DEF Recreate, Opens
<1>16. CASE Rewrite(p) BY <1>16 DEF Rewrite, Fills
<1>17. CASE Unguard(p) BY <1>2, <1>17 DEF Unguard
<1>18. CASE \E how \in Stops : Stop(p, how) BY <1>18 DEF Stop, Callers
<1>19. CASE \E c \in Callers : ReleaseRead(p, c) BY <1>19 DEF ReleaseRead, Callers
<1>20. CASE \E c \in Callers : ReleaseUnlink(p, c) BY <1>2, <1>20 DEF ReleaseUnlink, Callers
<1>21. CASE Exit(p) BY <1>21 DEF Exit
<1>22. CASE Crash(p) BY <1>22 DEF Crash
<1> QED BY <1>3, <1>4, <1>5, <1>6, <1>7, <1>8, <1>9, <1>10, <1>11, <1>12, <1>13,
           <1>14, <1>15, <1>16, <1>17, <1>18, <1>19, <1>20, <1>21, <1>22

\* acquireVaultWriterOwnership and release: a process that is refused or exits,
\* on a signal too, leaves no record behind, unless a call failed.
THEOREM NobodyLeavesARecord == Spec => []NoRecordLeftBehind
<1> DEFINE CleanUp == \A q \in Processes : WillCleanUp(q)
<1>1. Init => CleanUp
  BY NoOneAssumption DEF Init, WillCleanUp
<1>2. OwnershipInv /\ OwnershipInv' /\ CleanUp /\ [Next]_vars => CleanUp'
  <2> SUFFICES ASSUME OwnershipInv, OwnershipInv', CleanUp, [Next]_vars, NEW q \in Processes
               PROVE  WillCleanUp(q)'
    OBVIOUS
  <2>1. CASE UNCHANGED vars
    BY <2>1 DEF vars, WillCleanUp
  <2>2. CASE Next
    BY <2>2, CleanUpPreserved DEF Next, OwnershipInv
  <2> QED BY <2>1, <2>2
<1>3. CleanUp => NoRecordLeftBehind
  BY DEF WillCleanUp, NoRecordLeftBehind, Owning
<1> HIDE DEF CleanUp
<1> QED BY <1>1, <1>2, <1>3, OwnershipInvariant, PTL DEF Spec

-----------------------------------------------------------------------------
(* The locks inside the process.                                           *)

(* The chain invariant holds before any operation has asked for a key. *)
LEMMA ChainInit == LockInit => ChainInv
  BY NoneAssumption
  DEF LockInit, ChainInv, LockTypeOK, Status, ArrivalIsTotal, ArrivalIsRequested,
      TailIsLast, PreviousIsJustBefore, GrantedInOrder, Requested, Active

(* Every step of every operation keeps the tails one chain in order of     *)
(* arrival.                                                                *)
LEMMA ChainStep == ChainInv /\ [LockNext]_lockVars => ChainInv'
<1> SUFFICES ASSUME ChainInv, [LockNext]_lockVars
             PROVE  ChainInv'
  OBVIOUS
<1> USE NoneAssumption, KeysAssumption, FootprintAssumption
<1>1. ASSUME NEW o \in Ops, NEW k \in Keys, Enter(o, k)
      PROVE  ChainInv'
  <2>1. LockTypeOK'
    BY <1>1 DEF ChainInv, LockTypeOK, Status, Enter, WaitersOnEntry
  <2>2. ArrivalIsTotal'
    BY <1>1 DEF ChainInv, LockTypeOK, ArrivalIsTotal, Enter, Requested
  <2>3. ArrivalIsRequested'
    BY <1>1 DEF ChainInv, LockTypeOK, ArrivalIsRequested, Enter, Requested
  <2>4. TailIsLast'
    BY <1>1 DEF ChainInv, LockTypeOK, TailIsLast, Enter, Requested, Active
  <2>5. PreviousIsJustBefore'
    BY <1>1 DEF ChainInv, LockTypeOK, TailIsLast, PreviousIsJustBefore, ArrivalIsRequested,
                Enter, Requested, Active, Status
  <2>6. GrantedInOrder'
    BY <1>1 DEF ChainInv, LockTypeOK, GrantedInOrder, ArrivalIsRequested, Enter, Requested
  <2> QED
    BY <2>1, <2>2, <2>3, <2>4, <2>5, <2>6 DEF ChainInv
<1>2. ASSUME NEW o \in Ops, NEW k \in Keys, Acquire(o, k)
      PROVE  ChainInv'
  <2>1. LockTypeOK'
    BY <1>2 DEF ChainInv, LockTypeOK, Status, Acquire
  <2>2. ArrivalIsTotal' /\ ArrivalIsRequested' /\ TailIsLast'
    BY <1>2 DEF ChainInv, LockTypeOK, ArrivalIsTotal, ArrivalIsRequested, TailIsLast,
                Acquire, Requested, Active
  <2>3. PreviousIsJustBefore'
    BY <1>2 DEF ChainInv, LockTypeOK, PreviousIsJustBefore, Acquire, Requested
  <2>4. \A p \in earlier[o][k] : status[p][k] = "released"
    <3>1. CASE previous[o][k] = None
      BY <1>2, <3>1 DEF ChainInv, PreviousIsJustBefore, Acquire, Requested
    <3>2. CASE previous[o][k] # None
      <4>1. previous[o][k] \in Ops /\ status[previous[o][k]][k] = "released"
        BY <1>2, <3>2 DEF ChainInv, LockTypeOK, Acquire, Resolved
      <4>2. earlier[o][k] \subseteq earlier[previous[o][k]][k] \cup {previous[o][k]}
        BY <1>2, <3>2 DEF ChainInv, PreviousIsJustBefore, Acquire, Requested
      <4>3. \A p \in earlier[previous[o][k]][k] : status[p][k] = "released"
        BY <4>1 DEF ChainInv, GrantedInOrder
      <4> QED BY <4>1, <4>2, <4>3
    <3> QED BY <3>1, <3>2
  <2>5. GrantedInOrder'
    BY <1>2, <2>4 DEF ChainInv, LockTypeOK, GrantedInOrder, Acquire
  <2> QED
    BY <2>1, <2>2, <2>3, <2>5 DEF ChainInv
<1>3. ASSUME NEW o \in Ops, NEW k \in Keys, Release(o, k)
      PROVE  ChainInv'
  <2>1. LockTypeOK'
    BY <1>3 DEF ChainInv, LockTypeOK, Status, Release, TailAfterRelease
  <2>2. ArrivalIsTotal' /\ ArrivalIsRequested'
    BY <1>3 DEF ChainInv, LockTypeOK, ArrivalIsTotal, ArrivalIsRequested, Release, Requested
  <2>3. TailIsLast'
    BY <1>3 DEF ChainInv, LockTypeOK, TailIsLast, GrantedInOrder, Release, TailAfterRelease,
                Requested, Active, Status
  <2>4. PreviousIsJustBefore'
    BY <1>3 DEF ChainInv, LockTypeOK, PreviousIsJustBefore, Release, Requested
  <2>5. GrantedInOrder'
    BY <1>3 DEF ChainInv, LockTypeOK, GrantedInOrder, Release
  <2> QED
    BY <2>1, <2>2, <2>3, <2>4, <2>5 DEF ChainInv
<1>4. CASE UNCHANGED lockVars
  BY <1>4 DEF lockVars, ChainInv, LockTypeOK, ArrivalIsTotal, ArrivalIsRequested, TailIsLast,
              PreviousIsJustBefore, GrantedInOrder, Requested, Active
<1> QED
  BY <1>1, <1>2, <1>3, <1>4 DEF LockNext

(* The chain invariant holds in every reachable state. *)
THEOREM ChainInvariant == LockSpec => []ChainInv
<1>1. LockInit => ChainInv
  BY ChainInit
<1>2. ChainInv /\ [LockNext]_lockVars => ChainInv'
  BY ChainStep
<1> QED
  BY <1>1, <1>2, PTL DEF LockSpec

(* The lock table and the per-operation states keep their types. *)
THEOREM TypeCorrect == LockSpec => []LockTypeOK
<1>1. ChainInv => LockTypeOK
  BY DEF ChainInv
<1> QED
  BY <1>1, ChainInvariant, PTL

(* withInternalWriteLock serialises: no two operations are ever inside the *)
(* same key, for any number of operations, keys and footprints.            *)
THEOREM LockMutualExclusion == LockSpec => []MutualExclusion
<1>1. ChainInv => MutualExclusion
  BY DEF ChainInv, LockTypeOK, MutualExclusion, ArrivalIsTotal, GrantedInOrder, Requested
<1> QED
  BY <1>1, ChainInvariant, PTL

(* Operations are served in the order in which they asked for a key. *)
THEOREM LockGrantsInOrder == LockSpec => []GrantedInOrder
<1>1. ChainInv => GrantedInOrder
  BY DEF ChainInv
<1> QED
  BY <1>1, ChainInvariant, PTL

(* The number of operations behind another one is counted exactly. *)
WaitersCounted == \A k \in Keys : waiters[k] = Cardinality(Behind(k))

(* The operations behind a key are finitely many. *)
LEMMA BehindIsFinite == ASSUME NEW k \in Keys PROVE IsFiniteSet(Behind(k))
  BY OpsAssumption, FS_Subset DEF Behind

(* An operation enters the count when it enters the queue, and leaves it   *)
(* when the tail it awaits has resolved.                                   *)
LEMMA WaitersStep ==
  LockTypeOK /\ WaitersCounted /\ [LockNext]_lockVars => WaitersCounted'
<1> SUFFICES ASSUME LockTypeOK, WaitersCounted, [LockNext]_lockVars, NEW j \in Keys
             PROVE  waiters'[j] = Cardinality(Behind(j)')
  BY DEF WaitersCounted
<1> USE NoneAssumption
<1>0. waiters[j] = Cardinality(Behind(j)) /\ IsFiniteSet(Behind(j))
  BY BehindIsFinite DEF WaitersCounted
<1>1. ASSUME NEW o \in Ops, NEW k \in Keys, Enter(o, k)
      PROVE  waiters'[j] = Cardinality(Behind(j)')
  <2>1. CASE k = j /\ tails[j] # None
    <3>1. Behind(j)' = Behind(j) \cup {o} /\ o \notin Behind(j)
      BY <1>1, <2>1 DEF Enter, Behind, LockTypeOK
    <3>2. waiters'[j] = waiters[j] + 1
      BY <1>1, <2>1 DEF Enter, WaitersOnEntry, LockTypeOK
    <3> QED
      BY <1>0, <3>1, <3>2, FS_AddElement
  <2>2. CASE ~(k = j /\ tails[j] # None)
    <3>1. Behind(j)' = Behind(j)
      BY <1>1, <2>2 DEF Enter, Behind, LockTypeOK
    <3>2. waiters'[j] = waiters[j]
      BY <1>1, <2>2 DEF Enter, WaitersOnEntry, LockTypeOK
    <3> QED
      BY <1>0, <3>1, <3>2
  <2> QED
    BY <2>1, <2>2
<1>2. ASSUME NEW o \in Ops, NEW k \in Keys, Acquire(o, k)
      PROVE  waiters'[j] = Cardinality(Behind(j)')
  <2>1. CASE k = j /\ previous[o][j] # None
    <3>1. Behind(j)' = Behind(j) \ {o} /\ o \in Behind(j)
      BY <1>2, <2>1 DEF Acquire, Behind, LockTypeOK
    <3>2. waiters'[j] = waiters[j] - 1
      BY <1>2, <2>1 DEF Acquire, LockTypeOK
    <3> QED
      BY <1>0, <3>1, <3>2, FS_RemoveElement
  <2>2. CASE ~(k = j /\ previous[o][j] # None)
    <3>1. Behind(j)' = Behind(j)
      BY <1>2, <2>2 DEF Acquire, Behind, LockTypeOK
    <3>2. waiters'[j] = waiters[j]
      BY <1>2, <2>2 DEF Acquire, LockTypeOK
    <3> QED
      BY <1>0, <3>1, <3>2
  <2> QED
    BY <2>1, <2>2
<1>3. ASSUME NEW o \in Ops, NEW k \in Keys, Release(o, k)
      PROVE  waiters'[j] = Cardinality(Behind(j)')
  <2>1. Behind(j)' = Behind(j)
    BY <1>3 DEF Release, Behind, LockTypeOK
  <2> QED
    BY <1>0, <1>3, <2>1 DEF Release
<1>4. CASE UNCHANGED lockVars
  BY <1>0, <1>4 DEF lockVars, Behind
<1> QED
  BY <1>1, <1>2, <1>3, <1>4 DEF LockNext

(* The lock table holds an entry for exactly the keys in use, and the      *)
(* waiter count is the number of operations queued behind another: none is *)
(* lost while somebody waits and none outlives its last user.              *)
THEOREM LockTableIsExact == LockSpec => []TableIsExact
<1>1. ChainInv /\ WaitersCounted => TableIsExact
  BY NoneAssumption DEF ChainInv, LockTypeOK, TailIsLast, TableIsExact, WaitersCounted
<1>2. LockInit => WaitersCounted
  <2>1. ASSUME LockInit, NEW k \in Keys PROVE waiters[k] = Cardinality(Behind(k))
    <3>1. Behind(k) = {} /\ waiters[k] = 0
      BY <2>1 DEF LockInit, Behind
    <3> QED
      BY <3>1, FS_EmptySet
  <2> QED
    BY <2>1 DEF WaitersCounted
<1>3. LockTypeOK /\ WaitersCounted /\ [LockNext]_lockVars => WaitersCounted'
  BY WaitersStep
<1> QED
  BY <1>1, <1>2, <1>3, ChainInvariant, TypeCorrect, PTL DEF LockSpec

=============================================================================
