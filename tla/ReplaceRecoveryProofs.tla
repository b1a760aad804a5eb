------------------------ MODULE ReplaceRecoveryProofs ------------------------
(***************************************************************************)
(* Proofs about ReplaceRecovery, for any number of operations, external    *)
(* steps, failing calls and crashes.                                       *)
(*                                                                         *)
(* NeverOutOfReach and StagedIsJournaled are not inductive: whether a step *)
(* may unlink a staged file depends on what the steps before it saw and    *)
(* did.  RecoveryInv adds what the server's position says about the disk:  *)
(* the files a call is about to link are there, before a staged name is    *)
(* unlinked the document is visible again, an operation has staged nothing *)
(* before its takeover, and it gets there with its journal written.        *)
(*                                                                         *)
(* Four more invariants rest on it.  RefusalInv: what a refused operation  *)
(* wrote is at no name and in no journal that a recovery would act on.     *)
(* EditInv: where each external edit is, or which call still holds it.     *)
(* TextInv: which texts the path and the staged names may hold, given what *)
(* was acknowledged.  These two are for saves and creations whose calls do *)
(* not fail: a failing link makes the server rename over a path it looked  *)
(* at before, and a removal has no text to compare with.  IdempotentInv:   *)
(* what a pass has still to do is on its lists, and what a finished        *)
(* recovery left gives the next one nothing to do.                         *)
(***************************************************************************)
EXTENDS ReplaceRecovery, TLAPS

USE BoundsAssumption, NoneIsNoInode, CallersAssumption, CrashesAssumption
USE DEF CommitSteps, RecoverySteps, Ops, Inodes, Bytes, Kinds, JournalStates, Verdicts, Request
USE DEF disk, server, caller, outside, vars, pass, recoveryVars, allVars

(* The initial state satisfies the invariant. *)
LEMMA InitInv == Init => RecoveryInv
<1> SUFFICES ASSUME Init PROVE RecoveryInv
  OBVIOUS
<1>1. deleted \in BOOLEAN /\ progressed \in BOOLEAN /\ acted \in BOOLEAN
  BY DEF Init, AtomicTextInit
<1>2. TypeOK
  <2>1. content \in [Inodes -> Bytes] /\ request \in [Ops -> Request]
    BY DEF Init, AtomicTextInit
  <2>2. target \in Inodes /\ op \in 0 .. MaxOps /\ item \in 0 .. MaxOps
    BY DEF Init, AtomicTextInit
  <2> QED BY <1>1, <2>1, <2>2 DEF Init, AtomicTextInit, AtomicTextTypeOK, TypeOK
<1>3. NeverOutOfReach /\ RunningIsCurrent /\ StagedLater /\ StagedIsJournaled
  BY DEF Init, AtomicTextInit, NeverOutOfReach, RunningIsCurrent, StagedLater, StagedIsJournaled
<1>4. RegistersNamed /\ CallsLeft /\ FilesHeld /\ VisibleBeforeUnlink /\ RemovalSteps
  BY DEF Init, AtomicTextInit, RegistersNamed, CallsLeft, FilesHeld, VisibleBeforeUnlink, RemovalSteps
<1> QED BY <1>2, <1>3, <1>4 DEF RecoveryInv

(* A report changes neither the disk nor the history: it only ends the     *)
(* operation.                                                              *)
LEMMA ReportKeepsInv ==
  ASSUME RecoveryInv, pc \in CommitSteps \ {"idle"}, NEW v \in Verdicts, Report(v),
         UNCHANGED <<disk, faults>>, UNCHANGED deleted, UNCHANGED outside, UNCHANGED recoveryVars
  PROVE  RecoveryInv'
<1> USE DEF RecoveryInv, TypeOK, AtomicTextTypeOK, RegistersNamed, CallsLeft, FilesHeld, VisibleBeforeUnlink,
      Visible, NeverOutOfReach, RunningIsCurrent, RemovalSteps, StagedLater, StagedIsJournaled
<1>1. TypeOK'
  BY DEF Report
<1>2. RegistersNamed' /\ CallsLeft' /\ FilesHeld' /\ VisibleBeforeUnlink' /\ NeverOutOfReach'
  BY DEF Report
<1>3. RunningIsCurrent' /\ RemovalSteps' /\ StagedLater' /\ StagedIsJournaled'
  BY DEF Report
<1> QED BY <1>1, <1>2, <1>3

(* Every call of a replace, a create and a removal keeps the invariant. *)
LEMMA StepKeepsInv ==
  ASSUME RecoveryInv, Step, UNCHANGED deleted, UNCHANGED outside, UNCHANGED recoveryVars
  PROVE  RecoveryInv'
<1> USE DEF RecoveryInv, TypeOK, AtomicTextTypeOK, RegistersNamed, CallsLeft, FilesHeld, VisibleBeforeUnlink,
      Visible, NeverOutOfReach, RunningIsCurrent, RemovalSteps, StagedLater, StagedIsJournaled
<1>1. CASE WriteTemp
  BY <1>1 DEF WriteTemp, Goto
<1>2. CASE OpenJournal
  BY <1>2 DEF OpenJournal, Goto
<1>3. CASE WriteJournal
  BY <1>3 DEF WriteJournal, Goto
<1>4. CASE Capture
  <2>1. CASE target = None
    BY <1>4, <2>1 DEF Capture
  <2>2. CASE target # None
    BY <1>4, <2>2 DEF Capture
  <2> QED BY <2>1, <2>2
<1>5. CASE Takeover
  <2>1. CASE target = None
    BY <1>5, <2>1 DEF Takeover, Reads, Goto, Fail
  <2>2. CASE target # None
    <3>1. TypeOK'
      BY <1>5, <2>2 DEF Takeover, Reads, Goto, Fail
    <3>2. RegistersNamed' /\ CallsLeft' /\ FilesHeld'
      BY <1>5, <2>2 DEF Takeover, Reads, Goto, Fail
    <3>3. VisibleBeforeUnlink' /\ NeverOutOfReach' /\ RunningIsCurrent'
      BY <1>5, <2>2 DEF Takeover, Reads, Goto, Fail
    <3>4. RemovalSteps' /\ StagedLater' /\ StagedIsJournaled'
      BY <1>5, <2>2 DEF Takeover, Reads, Goto, Fail
    <3> QED BY <3>1, <3>2, <3>3, <3>4
  <2> QED BY <2>1, <2>2
<1>6. CASE VerifyOwner
  <2>1. CASE staged[op] = owned
    BY <1>6, <2>1 DEF VerifyOwner, Goto, Fail
  <2>2. CASE staged[op] # owned
    BY <1>6, <2>2 DEF VerifyOwner, Goto, Fail
  <2> QED BY <2>1, <2>2
<1>7. CASE VerifyBytes
  <2>1. CASE content[staged[op]] = request[op].expected
    BY <1>7, <2>1 DEF VerifyBytes, Goto
  <2>2. CASE content[staged[op]] # request[op].expected
    BY <1>7, <2>2 DEF VerifyBytes, Goto
  <2> QED BY <2>1, <2>2
<1>8. CASE Link
  <2>1. CASE target = None
    BY <1>8, <2>1 DEF Link, Goto
  <2>2. CASE target # None
    BY <1>8, <2>2 DEF Link, Goto
  <2> QED BY <2>1, <2>2
<1>9. CASE LinkFails
  BY <1>9 DEF LinkFails
<1>10. CASE DropStaged
  BY <1>10 DEF DropStaged, Unlinks, Goto
<1>11. CASE RestoreLink
  <2>1. CASE target = None
    BY <1>11, <2>1 DEF RestoreLink, EndRestore, Goto, Report
  <2>2. CASE target # None /\ request[op].kind = "replace"
    <3>1. TypeOK'
      BY <1>11, <2>2 DEF RestoreLink, EndRestore, Goto, Report
    <3>2. RegistersNamed' /\ CallsLeft' /\ FilesHeld'
      BY <1>11, <2>2 DEF RestoreLink, EndRestore, Goto, Report
    <3>3. VisibleBeforeUnlink' /\ NeverOutOfReach' /\ RunningIsCurrent'
      BY <1>11, <2>2 DEF RestoreLink, EndRestore, Goto, Report
    <3>4. RemovalSteps' /\ StagedLater' /\ StagedIsJournaled'
      BY <1>11, <2>2 DEF RestoreLink, EndRestore, Goto, Report
    <3> QED BY <3>1, <3>2, <3>3, <3>4
  <2>3. CASE target # None /\ ~(request[op].kind = "replace")
    <3>1. Report(verdict) /\ UNCHANGED <<disk, faults>>
      BY <1>11, <2>3 DEF RestoreLink, EndRestore
    <3>2. verdict \in Verdicts /\ pc \in CommitSteps \ {"idle"}
      BY <1>11 DEF RestoreLink
    <3> QED BY <3>1, <3>2, ReportKeepsInv
  <2> QED BY <2>1, <2>2, <2>3
<1>12. CASE RestoreLinkFails
  BY <1>12 DEF RestoreLinkFails, Goto
<1>13. CASE RestoreClean
  <2>1. CASE request[op].kind = "replace"
    BY <1>13, <2>1 DEF RestoreClean, Unlinks, EndRestore, Goto, Report
  <2>2. CASE ~(request[op].kind = "replace")
    <3>1. TypeOK'
      BY <1>13, <2>2 DEF RestoreClean, Unlinks, EndRestore, Goto, Report
    <3>2. RegistersNamed' /\ CallsLeft' /\ FilesHeld'
      BY <1>13, <2>2 DEF RestoreClean, Unlinks, EndRestore, Goto, Report
    <3>3. VisibleBeforeUnlink' /\ NeverOutOfReach' /\ RunningIsCurrent'
      BY <1>13, <2>2 DEF RestoreClean, Unlinks, EndRestore, Goto, Report
    <3>4. RemovalSteps' /\ StagedLater' /\ StagedIsJournaled'
      BY <1>13, <2>2 DEF RestoreClean, Unlinks, EndRestore, Goto, Report
    <3> QED BY <3>1, <3>2, <3>3, <3>4
  <2> QED BY <2>1, <2>2
<1>14. CASE RestoreStat
  <2>1. CASE target = None
    BY <1>14, <2>1 DEF RestoreStat, EndRestore, Goto, Report
  <2>2. CASE target # None /\ request[op].kind = "replace"
    BY <1>14, <2>2 DEF RestoreStat, EndRestore, Goto, Report
  <2>3. CASE target # None /\ ~(request[op].kind = "replace")
    BY <1>14, <2>3 DEF RestoreStat, EndRestore, Goto, Report
  <2> QED BY <2>1, <2>2, <2>3
<1>15. CASE RestoreRename
  <2>1. CASE request[op].kind = "replace"
    BY <1>15, <2>1 DEF RestoreRename, Unlinks, EndRestore, Goto, Report
  <2>2. CASE ~(request[op].kind = "replace")
    <3>1. TypeOK'
      BY <1>15, <2>2 DEF RestoreRename, Unlinks, EndRestore, Goto, Report
    <3>2. RegistersNamed' /\ CallsLeft' /\ FilesHeld'
      BY <1>15, <2>2 DEF RestoreRename, Unlinks, EndRestore, Goto, Report
    <3>3. VisibleBeforeUnlink' /\ NeverOutOfReach' /\ RunningIsCurrent'
      BY <1>15, <2>2 DEF RestoreRename, Unlinks, EndRestore, Goto, Report
    <3>4. RemovalSteps' /\ StagedLater' /\ StagedIsJournaled'
      BY <1>15, <2>2 DEF RestoreRename, Unlinks, EndRestore, Goto, Report
    <3> QED BY <3>1, <3>2, <3>3, <3>4
  <2> QED BY <2>1, <2>2
<1>16. CASE FinalCheck
  BY <1>16 DEF FinalCheck, Goto
<1>17. CASE Mark
  BY <1>17 DEF Mark, Goto
<1>18. CASE MarkFails
  BY <1>18 DEF MarkFails, Goto
<1>19. CASE MarkTemp
  BY <1>19 DEF MarkTemp, Unlinks, Report
<1>20. CASE CleanTemp
  BY <1>20 DEF CleanTemp, Unlinks, Goto
<1>21. CASE CleanStaged
  BY <1>21 DEF CleanStaged, Unlinks, Goto
<1>22. CASE CleanJournal
  BY <1>22 DEF CleanJournal, Report
<1>23. CASE FailTemp
  BY <1>23 DEF FailTemp, Unlinks, Goto
<1>24. CASE FailJournal
  BY <1>24 DEF FailJournal, Report
<1>25. CASE CreateClean
  BY <1>25 DEF CreateClean, Unlinks, Report
<1>26. CASE RemoveCapture
  <2>1. CASE target # None /\ content[target] = request[op].expected
    BY <1>26, <2>1 DEF RemoveCapture
  <2>2. CASE Report("kept") /\ UNCHANGED <<disk, faults>>
    BY <1>26, <2>2, ReportKeepsInv DEF RemoveCapture
  <2> QED BY <1>26, <2>1, <2>2 DEF RemoveCapture
<1>27. CASE RemoveVerify
  <2>1. CASE target = owned
    BY <1>27, <2>1 DEF RemoveVerify, Goto
  <2>2. CASE Report("ownership") /\ UNCHANGED <<disk, faults>>
    BY <1>27, <2>2, ReportKeepsInv DEF RemoveVerify
  <2> QED BY <1>27, <2>1, <2>2 DEF RemoveVerify
<1>28. CASE RemoveRename
  <2>1. CASE target # None
    BY <1>28, <2>1 DEF RemoveRename, Goto
  <2>2. CASE Report("kept") /\ UNCHANGED <<disk, faults>>
    BY <1>28, <2>2, ReportKeepsInv DEF RemoveRename
  <2> QED BY <1>28, <2>1, <2>2 DEF RemoveRename
<1>29. CASE RemoveCheck
  <2>1. CASE Report("ownership") /\ UNCHANGED <<disk, faults>>
    BY <1>29, <2>1, ReportKeepsInv DEF RemoveCheck
  <2>2. CASE staged[op] = owned
    <3>1. /\ UNCHANGED <<op, owned, caller, disk, faults>> /\ staged[op] # None
          /\ \/ pc' = "restore" /\ verdict' = "postcommit"
             \/ pc' \in {"remove_final", "remove_unlink"} /\ verdict' = verdict
      BY <1>29, <2>2 DEF RemoveCheck
    <3>2. pc \in {"remove_check", "remove_final"}
      BY <1>29 DEF RemoveCheck
    <3>3. TypeOK'
      BY <3>1
    <3>4. RegistersNamed' /\ CallsLeft' /\ FilesHeld'
      BY <3>1, <3>2
    <3>5. VisibleBeforeUnlink' /\ NeverOutOfReach'
      BY <3>1, <3>2
    <3>6. RunningIsCurrent' /\ RemovalSteps' /\ StagedLater' /\ StagedIsJournaled'
      BY <3>1, <3>2
    <3> QED BY <3>3, <3>4, <3>5, <3>6
  <2> QED BY <1>29, <2>1, <2>2 DEF RemoveCheck
<1> QED BY <1>1, <1>2, <1>3, <1>4, <1>5, <1>6, <1>7, <1>8, <1>9, <1>10, <1>11, <1>12, <1>13, <1>14, <1>15, <1>16, <1>17, <1>18, <1>19, <1>20, <1>21, <1>22, <1>23, <1>24, <1>25, <1>26, <1>27, <1>28, <1>29 DEF Step

(* So do the two calls that settle whether the document is deleted, the    *)
(* requests of clients and the steps of external writers.                  *)
LEMMA CreateLinkKeepsInv ==
  ASSUME RecoveryInv, CreateLink, UNCHANGED outside, UNCHANGED recoveryVars
  PROVE  RecoveryInv'
<1> USE DEF RecoveryInv, TypeOK, AtomicTextTypeOK, RegistersNamed, CallsLeft, FilesHeld, VisibleBeforeUnlink,
      Visible, NeverOutOfReach, RunningIsCurrent, RemovalSteps, StagedLater, StagedIsJournaled
<1>1. TypeOK'
  BY DEF CreateLink
<1>2. RegistersNamed' /\ CallsLeft' /\ FilesHeld'
  BY DEF CreateLink
<1>3. VisibleBeforeUnlink' /\ NeverOutOfReach' /\ RunningIsCurrent'
  BY DEF CreateLink
<1>4. RemovalSteps' /\ StagedLater' /\ StagedIsJournaled'
  BY DEF CreateLink
<1> QED BY <1>1, <1>2, <1>3, <1>4

LEMMA RemoveUnlinkKeepsInv ==
  ASSUME RecoveryInv, RemoveUnlink, UNCHANGED outside, UNCHANGED recoveryVars
  PROVE  RecoveryInv'
  BY DEF RemoveUnlink, Unlinks, Report, RecoveryInv, TypeOK, AtomicTextTypeOK, RegistersNamed, CallsLeft, FilesHeld, VisibleBeforeUnlink,
      Visible, NeverOutOfReach, RunningIsCurrent, RemovalSteps, StagedLater, StagedIsJournaled

LEMMA ClientKeepsInv ==
  ASSUME RecoveryInv, Client, UNCHANGED <<quarantine, pass, crashes>>
  PROVE  RecoveryInv'
<1> USE DEF RecoveryInv, TypeOK, AtomicTextTypeOK, RegistersNamed, CallsLeft, FilesHeld, VisibleBeforeUnlink,
      Visible, NeverOutOfReach, RunningIsCurrent, RemovalSteps, StagedLater, StagedIsJournaled
<1>1. ASSUME NEW kind \in Callers \ {"remove"}, NEW c \in Saves, OpenTemp(kind, c)
      PROVE  RecoveryInv'
  BY <1>1 DEF Client, OpenTemp, Enters
<1>2. CASE BeginRemove
  BY <1>2 DEF Client, BeginRemove, Enters
<1>3. CASE Load
  BY <1>3 DEF Client, Load
<1> QED BY <1>1, <1>2, <1>3 DEF Client, Begin

LEMMA ExternalKeepsInv ==
  ASSUME RecoveryInv, External, UNCHANGED <<quarantine, pass, crashes>>
  PROVE  RecoveryInv'
<1> USE DEF RecoveryInv, TypeOK, AtomicTextTypeOK, RegistersNamed, CallsLeft, FilesHeld, VisibleBeforeUnlink,
      Visible, NeverOutOfReach, RunningIsCurrent, RemovalSteps, StagedLater, StagedIsJournaled
<1>1. ASSUME NEW c \in Edits, ExternalReplace(c)
      PROVE  RecoveryInv'
  <2>1. target' \in Inodes /\ target' # None
    BY <1>1 DEF ExternalReplace, Outside
  <2>2. deleted' \in BOOLEAN
    BY <1>1 DEF ExternalReplace
  <2>3. forfeit' \subseteq Inodes
    BY <1>1 DEF ExternalReplace
  <2>4. content' \in [Inodes -> Bytes] /\ external' \in 0 .. MaxExternal
    BY <1>1 DEF ExternalReplace, Outside
  <2>5. TypeOK'
    BY <1>1, <2>1, <2>2, <2>3, <2>4 DEF ExternalReplace, Outside
  <2> QED BY <1>1, <2>1, <2>5 DEF ExternalReplace, Outside
<1>2. ASSUME NEW c \in Edits, ExternalWrite(c)
      PROVE  RecoveryInv'
  BY <1>2 DEF ExternalWrite, Outside
<1>3. CASE ExternalDelete
  <2>1. deleted' \in BOOLEAN
    BY <1>3 DEF ExternalDelete
  <2>2. forfeit' \subseteq Inodes
    BY <1>3 DEF ExternalDelete
  <2>3. TypeOK'
    BY <1>3, <2>1, <2>2 DEF ExternalDelete, Outside
  <2> QED BY <1>3, <2>3 DEF ExternalDelete, Outside
<1>4. CASE ExternalOpen
  BY <1>4 DEF ExternalOpen
<1> QED BY <1>1, <1>2, <1>3, <1>4 DEF External

(* The death of the process changes nothing on the disk. *)
LEMMA CrashKeepsInv ==
  ASSUME RecoveryInv, Crash
  PROVE  RecoveryInv'
<1> USE DEF RecoveryInv, TypeOK, AtomicTextTypeOK, RegistersNamed, CallsLeft, FilesHeld, VisibleBeforeUnlink,
      Visible, NeverOutOfReach, RunningIsCurrent, RemovalSteps, StagedLater, StagedIsJournaled
<1>1. outcome' \in [Ops -> Verdicts \cup {"unstarted", "running", "lost"}]
  BY DEF Crash
<1>2. TypeOK'
  <2>1. progressed' \in BOOLEAN /\ acted' \in BOOLEAN
    BY DEF Crash, ForgetPass
  <2> QED BY <1>1, <2>1 DEF Crash, ForgetPass
<1>3. RunningIsCurrent' /\ StagedIsJournaled'
  BY DEF Crash
<1> QED BY <1>2, <1>3 DEF Crash, ForgetPass

-----------------------------------------------------------------------------
(* note() keeps its two flags Boolean. *)
LEMMA NoteType ==
  ASSUME NEW a, NEW reports, Note(a, reports)
  PROVE  progressed' \in BOOLEAN /\ acted' \in BOOLEAN
  BY DEF Note

(* Follow makes the first call next and leaves the others. *)
LEMMA FollowCalls ==
  ASSUME NEW calls, Follow(calls)
  PROVE  /\ calls = <<>> =>
              pc' = "journals" /\ plan' = <<>>
         /\ calls = <<"drop_journal">> =>
              pc' = "drop_journal" /\ plan' = <<>>
         /\ calls = <<"postcommit">> =>
              pc' = "postcommit" /\ plan' = <<>>
         /\ calls = <<"manual">> =>
              pc' = "manual" /\ plan' = <<>>
         /\ calls = <<"recover_rest">> =>
              pc' = "recover_rest" /\ plan' = <<>>
         /\ calls = <<"recover_restore">> =>
              pc' = "recover_restore" /\ plan' = <<>>
         /\ calls = <<"drop_save", "drop_journal">> =>
              pc' = "drop_save" /\ plan' = <<"drop_journal">>
         /\ calls = <<"recover_drop_staged", "drop_journal">> =>
              pc' = "recover_drop_staged" /\ plan' = <<"drop_journal">>
         /\ calls = <<"pending_rename", "manual">> =>
              pc' = "pending_rename" /\ plan' = <<"manual">>
         /\ calls = <<"recover_restored", "recover_rest">> =>
              pc' = "recover_restored" /\ plan' = <<"recover_rest">>
         /\ calls = <<"pending", "pending_rename", "manual">> =>
              pc' = "pending" /\ plan' = <<"pending_rename", "manual">>
         /\ calls = <<"recover_drop_staged", "drop_save", "drop_journal">> =>
              pc' = "recover_drop_staged" /\ plan' = <<"drop_save", "drop_journal">>
         /\ calls = <<"drop_save", "recover_drop_staged", "drop_journal">> =>
              pc' = "drop_save" /\ plan' = <<"recover_drop_staged", "drop_journal">>
         /\ calls = <<"recover_link", "drop_save", "recover_drop_staged", "drop_journal">> =>
              pc' = "recover_link" /\ plan' = <<"drop_save", "recover_drop_staged", "drop_journal">>
<1>1. calls = <<>> =>
        pc' = "journals" /\ plan' = <<>>
  BY DEF Follow
<1>2. calls = <<"drop_journal">> =>
        pc' = "drop_journal" /\ plan' = <<>>
  BY DEF Follow
<1>3. calls = <<"postcommit">> =>
        pc' = "postcommit" /\ plan' = <<>>
  BY DEF Follow
<1>4. calls = <<"manual">> =>
        pc' = "manual" /\ plan' = <<>>
  BY DEF Follow
<1>5. calls = <<"recover_rest">> =>
        pc' = "recover_rest" /\ plan' = <<>>
  BY DEF Follow
<1>6. calls = <<"recover_restore">> =>
        pc' = "recover_restore" /\ plan' = <<>>
  BY DEF Follow
<1>7. calls = <<"drop_save", "drop_journal">> =>
        pc' = "drop_save" /\ plan' = <<"drop_journal">>
  BY DEF Follow
<1>8. calls = <<"recover_drop_staged", "drop_journal">> =>
        pc' = "recover_drop_staged" /\ plan' = <<"drop_journal">>
  BY DEF Follow
<1>9. calls = <<"pending_rename", "manual">> =>
        pc' = "pending_rename" /\ plan' = <<"manual">>
  BY DEF Follow
<1>10. calls = <<"recover_restored", "recover_rest">> =>
        pc' = "recover_restored" /\ plan' = <<"recover_rest">>
  BY DEF Follow
<1>11. calls = <<"pending", "pending_rename", "manual">> =>
        pc' = "pending" /\ plan' = <<"pending_rename", "manual">>
  BY DEF Follow
<1>12. calls = <<"recover_drop_staged", "drop_save", "drop_journal">> =>
        pc' = "recover_drop_staged" /\ plan' = <<"drop_save", "drop_journal">>
  BY DEF Follow
<1>13. calls = <<"drop_save", "recover_drop_staged", "drop_journal">> =>
        pc' = "drop_save" /\ plan' = <<"recover_drop_staged", "drop_journal">>
  BY DEF Follow
<1>14. calls = <<"recover_link", "drop_save", "recover_drop_staged", "drop_journal">> =>
        pc' = "recover_link" /\ plan' = <<"drop_save", "recover_drop_staged", "drop_journal">>
  BY DEF Follow
<1> QED BY <1>1, <1>2, <1>3, <1>4, <1>5, <1>6, <1>7, <1>8, <1>9, <1>10, <1>11, <1>12, <1>13, <1>14

LEMMA FollowPlan ==
  ASSUME CallsLeft, Follow(plan)
  PROVE  /\ pc = "drop_save" =>
              \/ pc' = "drop_journal" /\ plan' = <<>>
              \/ pc' = "recover_drop_staged" /\ plan' = <<"drop_journal">>
         /\ pc = "recover_drop_staged" =>
              \/ pc' = "drop_journal" /\ plan' = <<>>
              \/ pc' = "drop_save" /\ plan' = <<"drop_journal">>
         /\ pc \in {"drop_journal", "manual", "postcommit"} => pc' = "journals" /\ plan' = <<>>
         /\ pc = "pending" => pc' = "pending_rename" /\ plan' = <<"manual">>
         /\ pc = "pending_rename" => pc' = "manual" /\ plan' = <<>>
         /\ pc = "recover_link" =>
              pc' = "drop_save" /\ plan' = <<"recover_drop_staged", "drop_journal">>
         /\ pc = "recover_restored" => pc' = "recover_rest" /\ plan' = <<>>
  BY FollowCalls DEF CallsLeft

(* Taking up a journal with calls that suit what is on the disk. *)
LEMMA SettleKeepsInv ==
  ASSUME RecoveryInv, NEW a \in Ops, NEW calls, NEW reports, Settle(a, calls, reports),
         \/ calls = <<>>
         \/ calls = <<"drop_journal">>
         \/ calls = <<"drop_save", "drop_journal">> /\ target # None
         \/ calls = <<"recover_drop_staged", "drop_save", "drop_journal">> /\ target # None
         \/ calls = <<"postcommit">>
         \/ calls = <<"manual">>
         \/ calls = <<"pending", "pending_rename", "manual">>
         \/ calls = <<"pending_rename", "manual">>
         \/ /\ calls = <<"recover_link", "drop_save", "recover_drop_staged", "drop_journal">>
            /\ save[a] # None /\ staged[a] # None
         \/ calls = <<"recover_restore">> /\ staged[a] # None
  PROVE  RecoveryInv'
<1> USE DEF RecoveryInv, Settle, Recovering
<1>1. progressed' \in BOOLEAN /\ acted' \in BOOLEAN
  BY NoteType
<1>2. \/ pc' = "journals" /\ plan' = <<>>
      \/ pc' \in {"drop_journal", "postcommit", "manual"} /\ plan' = <<>>
      \/ pc' = "drop_save" /\ plan' = <<"drop_journal">> /\ target # None
      \/ pc' = "recover_drop_staged" /\ plan' = <<"drop_save", "drop_journal">> /\ target # None
      \/ pc' = "pending" /\ plan' = <<"pending_rename", "manual">>
      \/ pc' = "pending_rename" /\ plan' = <<"manual">>
      \/ /\ pc' = "recover_link" /\ plan' = <<"drop_save", "recover_drop_staged", "drop_journal">>
         /\ save[a] # None /\ staged[a] # None
      \/ pc' = "recover_restore" /\ plan' = <<>> /\ staged[a] # None
  BY FollowCalls
<1>3. TypeOK'
  <2>1. AtomicTextTypeOK'
    BY DEF TypeOK, AtomicTextTypeOK
  <2>2. pc' \in RecoverySteps
    BY <1>2
  <2> QED BY <1>1, <2>1, <2>2 DEF TypeOK
<1>4. RegistersNamed' /\ CallsLeft'
  BY <1>2 DEF RegistersNamed, CallsLeft
<1>5. FilesHeld' /\ VisibleBeforeUnlink'
  BY <1>2 DEF FilesHeld, VisibleBeforeUnlink, Visible
<1>6. NeverOutOfReach' /\ RunningIsCurrent' /\ RemovalSteps' /\ StagedLater' /\ StagedIsJournaled'
  BY <1>2 DEF NeverOutOfReach, RunningIsCurrent, RemovalSteps, StagedLater, StagedIsJournaled
<1> QED BY <1>3, <1>4, <1>5, <1>6

(* The decisions of recoverReplaceJournal. *)
LEMMA SettlesKeepInv ==
  ASSUME RecoveryInv, NEW a \in Ops,
         \/ SettleUnstarted(a) \/ SettleLanded(a) \/ SettleOccupied(a)
         \/ SettleInterrupted(a) \/ SettlePending(a) \/ SettleRetained(a)
  PROVE  RecoveryInv'
<1>1. CASE SettleUnstarted(a)
  BY <1>1, SettleKeepsInv DEF SettleUnstarted
<1>2. CASE SettleLanded(a)
  BY <1>2, SettleKeepsInv DEF SettleLanded
<1>3. CASE SettleOccupied(a)
  BY <1>3, SettleKeepsInv DEF SettleOccupied, QuarantineSave
<1>4. CASE SettleInterrupted(a)
  BY <1>4, SettleKeepsInv DEF SettleInterrupted, BothIntact
<1>5. CASE SettlePending(a)
  BY <1>5, SettleKeepsInv DEF SettlePending
<1>6. CASE SettleRetained(a)
  BY <1>6, SettleKeepsInv DEF SettleRetained
<1> QED BY <1>1, <1>2, <1>3, <1>4, <1>5, <1>6

(* The calls that settle a journal. *)
LEMMA CallsKeepInv ==
  ASSUME RecoveryInv,
         \/ DropSave \/ DropStagedBytes \/ DropJournal \/ RewritePhase \/ RenameSave
         \/ CompleteCommit \/ CompleteCommitFails \/ RestoreOld \/ RestoreOldFails
         \/ RestoredOld \/ AfterRestore
  PROVE  RecoveryInv'
<1> USE DEF RecoveryInv, Call, Recovering
<1>1. CASE DropSave
  <2>1. progressed' \in BOOLEAN /\ acted' \in BOOLEAN
    BY <1>1, NoteType DEF DropSave
  <2>2. \/ pc' = "drop_journal" /\ plan' = <<>>
        \/ pc' = "recover_drop_staged" /\ plan' = <<"drop_journal">>
    BY <1>1, FollowCalls, FollowPlan DEF DropSave
  <2>3. TypeOK'
    <3>1. AtomicTextTypeOK'
      BY <1>1 DEF DropSave, TypeOK, AtomicTextTypeOK, RegistersNamed
    <3>2. pc' \in RecoverySteps
      BY <2>2
    <3> QED BY <1>1, <2>1, <3>1, <3>2 DEF DropSave, TypeOK, AtomicTextTypeOK, RegistersNamed
  <2>4. RegistersNamed' /\ CallsLeft'
    BY <1>1, <2>2 DEF DropSave, RegistersNamed, CallsLeft
  <2>5. FilesHeld' /\ VisibleBeforeUnlink' /\ NeverOutOfReach'
    BY <1>1, <2>2 DEF DropSave, TypeOK, AtomicTextTypeOK,
      RegistersNamed, CallsLeft, FilesHeld, VisibleBeforeUnlink, Visible, NeverOutOfReach
  <2>6. pc \notin CommitSteps
    BY <1>1 DEF DropSave
  <2>7. RunningIsCurrent' /\ RemovalSteps' /\ StagedLater' /\ StagedIsJournaled'
    BY <1>1, <2>2, <2>6 DEF DropSave, TypeOK, AtomicTextTypeOK,
      RunningIsCurrent, RemovalSteps, StagedLater, StagedIsJournaled
  <2> QED BY <2>3, <2>4, <2>5, <2>7
<1>2. CASE DropStagedBytes
  <2>1. progressed' \in BOOLEAN /\ acted' \in BOOLEAN
    BY <1>2, NoteType DEF DropStagedBytes
  <2>2. \/ pc' = "drop_journal" /\ plan' = <<>>
        \/ pc' = "drop_save" /\ plan' = <<"drop_journal">>
    BY <1>2, FollowCalls, FollowPlan DEF DropStagedBytes
  <2>3. TypeOK'
    <3>1. AtomicTextTypeOK'
      BY <1>2 DEF DropStagedBytes, TypeOK, AtomicTextTypeOK, RegistersNamed
    <3>2. pc' \in RecoverySteps
      BY <2>2
    <3> QED BY <1>2, <2>1, <3>1, <3>2 DEF DropStagedBytes, TypeOK, AtomicTextTypeOK, RegistersNamed
  <2>4. RegistersNamed' /\ CallsLeft'
    BY <1>2, <2>2 DEF DropStagedBytes, RegistersNamed, CallsLeft
  <2>5. FilesHeld' /\ VisibleBeforeUnlink' /\ NeverOutOfReach'
    BY <1>2, <2>2 DEF DropStagedBytes, TypeOK, AtomicTextTypeOK,
      RegistersNamed, CallsLeft, FilesHeld, VisibleBeforeUnlink, Visible, NeverOutOfReach
  <2>6. pc \notin CommitSteps
    BY <1>2 DEF DropStagedBytes
  <2>7. RunningIsCurrent' /\ RemovalSteps' /\ StagedLater' /\ StagedIsJournaled'
    BY <1>2, <2>2, <2>6 DEF DropStagedBytes, TypeOK, AtomicTextTypeOK,
      RunningIsCurrent, RemovalSteps, StagedLater, StagedIsJournaled
  <2> QED BY <2>3, <2>4, <2>5, <2>7
<1>3. CASE DropJournal
  <2>1. progressed' \in BOOLEAN /\ acted' \in BOOLEAN
    BY <1>3, NoteType DEF DropJournal
  <2>2. pc' = "journals" /\ plan' = <<>>
    BY <1>3, FollowCalls, FollowPlan DEF DropJournal
  <2>3. TypeOK'
    <3>1. AtomicTextTypeOK'
      BY <1>3 DEF DropJournal, TypeOK, AtomicTextTypeOK, RegistersNamed
    <3>2. pc' \in RecoverySteps
      BY <2>2
    <3> QED BY <1>3, <2>1, <3>1, <3>2 DEF DropJournal, TypeOK, AtomicTextTypeOK, RegistersNamed
  <2>4. RegistersNamed' /\ CallsLeft'
    BY <1>3, <2>2 DEF DropJournal, RegistersNamed, CallsLeft
  <2>5. FilesHeld' /\ VisibleBeforeUnlink' /\ NeverOutOfReach'
    BY <1>3, <2>2 DEF DropJournal, TypeOK, AtomicTextTypeOK,
      RegistersNamed, CallsLeft, FilesHeld, VisibleBeforeUnlink, Visible, NeverOutOfReach
  <2>6. pc \notin CommitSteps
    BY <1>3 DEF DropJournal
  <2>7. RunningIsCurrent' /\ RemovalSteps' /\ StagedLater' /\ StagedIsJournaled'
    BY <1>3, <2>2, <2>6 DEF DropJournal, TypeOK, AtomicTextTypeOK,
      RunningIsCurrent, RemovalSteps, StagedLater, StagedIsJournaled
  <2> QED BY <2>3, <2>4, <2>5, <2>7
<1>4. CASE RewritePhase
  <2>1. progressed' \in BOOLEAN /\ acted' \in BOOLEAN
    BY <1>4, NoteType DEF RewritePhase, Rewrite
  <2>2. \/ pc' = "journals" /\ plan' = <<>>
        \/ pc' = "pending_rename" /\ plan' = <<"manual">>
    BY <1>4, FollowCalls, FollowPlan DEF RewritePhase, Rewrite
  <2>3. TypeOK'
    <3>1. AtomicTextTypeOK'
      BY <1>4 DEF RewritePhase, Rewrite, TypeOK, AtomicTextTypeOK, RegistersNamed
    <3>2. pc' \in RecoverySteps
      BY <2>2
    <3> QED BY <1>4, <2>1, <3>1, <3>2 DEF RewritePhase, Rewrite, TypeOK, AtomicTextTypeOK, RegistersNamed
  <2>4. RegistersNamed' /\ CallsLeft'
    BY <1>4, <2>2 DEF RewritePhase, Rewrite, RegistersNamed, CallsLeft
  <2>5. FilesHeld' /\ VisibleBeforeUnlink' /\ NeverOutOfReach'
    BY <1>4, <2>2 DEF RewritePhase, Rewrite, TypeOK, AtomicTextTypeOK,
      RegistersNamed, CallsLeft, FilesHeld, VisibleBeforeUnlink, Visible, NeverOutOfReach
  <2>6. pc \notin CommitSteps
    BY <1>4 DEF RewritePhase, Rewrite
  <2>7. RunningIsCurrent' /\ RemovalSteps' /\ StagedLater' /\ StagedIsJournaled'
    <3>1. RunningIsCurrent' /\ RemovalSteps'
      BY <1>4, <2>2, <2>6 DEF RewritePhase, Rewrite, RunningIsCurrent, RemovalSteps
    <3>2. StagedLater'
      BY <1>4, <2>2, <2>6 DEF RewritePhase, Rewrite, StagedLater
    <3>3. StagedIsJournaled'
      BY <1>4, <2>2, <2>6 DEF RewritePhase, Rewrite, TypeOK, AtomicTextTypeOK,
        RunningIsCurrent, StagedIsJournaled
    <3> QED BY <3>1, <3>2, <3>3
  <2> QED BY <2>3, <2>4, <2>5, <2>7
<1>5. CASE RenameSave
  <2>1. progressed' \in BOOLEAN /\ acted' \in BOOLEAN
    BY <1>5, NoteType DEF RenameSave
  <2>2. pc' = "manual" /\ plan' = <<>>
    BY <1>5, FollowCalls, FollowPlan DEF RenameSave
  <2>3. TypeOK'
    <3>1. AtomicTextTypeOK'
      BY <1>5 DEF RenameSave, TypeOK, AtomicTextTypeOK, RegistersNamed
    <3>2. pc' \in RecoverySteps
      BY <2>2
    <3> QED BY <1>5, <2>1, <3>1, <3>2 DEF RenameSave, TypeOK, AtomicTextTypeOK, RegistersNamed
  <2>4. RegistersNamed' /\ CallsLeft'
    BY <1>5, <2>2 DEF RenameSave, RegistersNamed, CallsLeft
  <2>5. FilesHeld' /\ VisibleBeforeUnlink' /\ NeverOutOfReach'
    BY <1>5, <2>2 DEF RenameSave, TypeOK, AtomicTextTypeOK,
      RegistersNamed, CallsLeft, FilesHeld, VisibleBeforeUnlink, Visible, NeverOutOfReach
  <2>6. pc \notin CommitSteps
    BY <1>5 DEF RenameSave
  <2>7. RunningIsCurrent' /\ RemovalSteps' /\ StagedLater' /\ StagedIsJournaled'
    BY <1>5, <2>2, <2>6 DEF RenameSave, TypeOK, AtomicTextTypeOK,
      RunningIsCurrent, RemovalSteps, StagedLater, StagedIsJournaled
  <2> QED BY <2>3, <2>4, <2>5, <2>7
<1>6. CASE CompleteCommit
  <2>1. progressed' \in BOOLEAN /\ acted' \in BOOLEAN
    BY <1>6, NoteType DEF CompleteCommit
  <2>2. \/ pc' = "drop_save" /\ plan' = <<"recover_drop_staged", "drop_journal">> /\ target = None
        \/ pc' = "recover_restore" /\ plan' = <<>> /\ target # None
    BY <1>6, FollowCalls, FollowPlan DEF CompleteCommit
  <2>3. TypeOK'
    <3>1. AtomicTextTypeOK'
      BY <1>6 DEF CompleteCommit, TypeOK, AtomicTextTypeOK, RegistersNamed
    <3>2. pc' \in RecoverySteps
      BY <2>2
    <3> QED BY <1>6, <2>1, <3>1, <3>2 DEF CompleteCommit, TypeOK, AtomicTextTypeOK, RegistersNamed
  <2>4. RegistersNamed' /\ CallsLeft'
    BY <1>6, <2>2 DEF CompleteCommit, RegistersNamed, CallsLeft
  <2>5. FilesHeld' /\ VisibleBeforeUnlink' /\ NeverOutOfReach'
    BY <1>6, <2>2 DEF CompleteCommit, TypeOK, AtomicTextTypeOK,
      RegistersNamed, CallsLeft, FilesHeld, VisibleBeforeUnlink, Visible, NeverOutOfReach
  <2>6. pc \notin CommitSteps
    BY <1>6 DEF CompleteCommit
  <2>7. RunningIsCurrent' /\ RemovalSteps' /\ StagedLater' /\ StagedIsJournaled'
    BY <1>6, <2>2, <2>6 DEF CompleteCommit, TypeOK, AtomicTextTypeOK,
      RunningIsCurrent, RemovalSteps, StagedLater, StagedIsJournaled
  <2> QED BY <2>3, <2>4, <2>5, <2>7
<1>7. CASE CompleteCommitFails
  <2>1. progressed' \in BOOLEAN /\ acted' \in BOOLEAN
    BY <1>7, NoteType DEF CompleteCommitFails
  <2>2. pc' = "journals" /\ plan' = <<>>
    BY <1>7, FollowCalls, FollowPlan DEF CompleteCommitFails
  <2>3. TypeOK'
    <3>0. faults' \in 0 .. MaxFaults
      <4>1. faults \in 0 .. MaxFaults
        BY DEF TypeOK, AtomicTextTypeOK
      <4>2. faults < MaxFaults /\ faults' = faults + 1
        BY <1>7 DEF CompleteCommitFails
      <4> QED BY <4>1, <4>2
    <3>1. AtomicTextTypeOK'
      BY <1>7, <3>0 DEF CompleteCommitFails, TypeOK, AtomicTextTypeOK
    <3>2. pc' \in RecoverySteps
      BY <2>2
    <3> QED BY <1>7, <2>1, <3>1, <3>2 DEF CompleteCommitFails, TypeOK, AtomicTextTypeOK, RegistersNamed
  <2>4. RegistersNamed' /\ CallsLeft'
    BY <1>7, <2>2 DEF CompleteCommitFails, RegistersNamed, CallsLeft
  <2>5. FilesHeld' /\ VisibleBeforeUnlink' /\ NeverOutOfReach'
    BY <1>7, <2>2 DEF CompleteCommitFails, TypeOK, AtomicTextTypeOK,
      RegistersNamed, CallsLeft, FilesHeld, VisibleBeforeUnlink, Visible, NeverOutOfReach
  <2>6. pc \notin CommitSteps
    BY <1>7 DEF CompleteCommitFails
  <2>7. RunningIsCurrent' /\ RemovalSteps' /\ StagedLater' /\ StagedIsJournaled'
    BY <1>7, <2>2, <2>6 DEF CompleteCommitFails, TypeOK, AtomicTextTypeOK,
      RunningIsCurrent, RemovalSteps, StagedLater, StagedIsJournaled
  <2> QED BY <2>3, <2>4, <2>5, <2>7
<1>8. CASE RestoreOld
  <2>1. progressed' \in BOOLEAN /\ acted' \in BOOLEAN
    BY <1>8, NoteType DEF RestoreOld
  <2>2. \/ pc' = "recover_restored" /\ plan' = <<"recover_rest">> /\ target = None
        \/ pc' = "recover_rest" /\ plan' = <<>> /\ target # None
    BY <1>8, FollowCalls, FollowPlan DEF RestoreOld
  <2>3. TypeOK'
    <3>1. AtomicTextTypeOK'
      <4>1. item \in Ops /\ (target' = target \/ target' = staged[item])
        BY <1>8 DEF RestoreOld, RegistersNamed
      <4>2. target' \in Inodes \cup {None}
        BY <4>1 DEF TypeOK, AtomicTextTypeOK
      <4> QED BY <1>8, <4>2 DEF RestoreOld, TypeOK, AtomicTextTypeOK
    <3>2. pc' \in RecoverySteps
      BY <2>2
    <3> QED BY <1>8, <2>1, <3>1, <3>2 DEF RestoreOld, TypeOK, AtomicTextTypeOK, RegistersNamed
  <2>4. RegistersNamed' /\ CallsLeft'
    BY <1>8, <2>2 DEF RestoreOld, RegistersNamed, CallsLeft
  <2>5. FilesHeld' /\ VisibleBeforeUnlink' /\ NeverOutOfReach'
    BY <1>8, <2>2 DEF RestoreOld, TypeOK, AtomicTextTypeOK,
      RegistersNamed, CallsLeft, FilesHeld, VisibleBeforeUnlink, Visible, NeverOutOfReach
  <2>6. pc \notin CommitSteps
    BY <1>8 DEF RestoreOld
  <2>7. RunningIsCurrent' /\ RemovalSteps' /\ StagedLater' /\ StagedIsJournaled'
    BY <1>8, <2>2, <2>6 DEF RestoreOld, TypeOK, AtomicTextTypeOK,
      RunningIsCurrent, RemovalSteps, StagedLater, StagedIsJournaled
  <2> QED BY <2>3, <2>4, <2>5, <2>7
<1>9. CASE RestoreOldFails
  <2>1. progressed' \in BOOLEAN /\ acted' \in BOOLEAN
    BY <1>9, NoteType DEF RestoreOldFails
  <2>2. pc' = "recover_rest" /\ plan' = <<>>
    BY <1>9, FollowCalls, FollowPlan DEF RestoreOldFails
  <2>3. TypeOK'
    <3>0. faults' \in 0 .. MaxFaults
      <4>1. faults \in 0 .. MaxFaults
        BY DEF TypeOK, AtomicTextTypeOK
      <4>2. faults < MaxFaults /\ faults' = faults + 1
        BY <1>9 DEF RestoreOldFails
      <4> QED BY <4>1, <4>2
    <3>1. AtomicTextTypeOK'
      BY <1>9, <3>0 DEF RestoreOldFails, TypeOK, AtomicTextTypeOK
    <3>2. pc' \in RecoverySteps
      BY <2>2
    <3> QED BY <1>9, <2>1, <3>1, <3>2 DEF RestoreOldFails, TypeOK, AtomicTextTypeOK, RegistersNamed
  <2>4. RegistersNamed' /\ CallsLeft'
    BY <1>9, <2>2 DEF RestoreOldFails, RegistersNamed, CallsLeft
  <2>5. FilesHeld' /\ VisibleBeforeUnlink' /\ NeverOutOfReach'
    BY <1>9, <2>2 DEF RestoreOldFails, TypeOK, AtomicTextTypeOK,
      RegistersNamed, CallsLeft, FilesHeld, VisibleBeforeUnlink, Visible, NeverOutOfReach
  <2>6. pc \notin CommitSteps
    BY <1>9 DEF RestoreOldFails
  <2>7. RunningIsCurrent' /\ RemovalSteps' /\ StagedLater' /\ StagedIsJournaled'
    BY <1>9, <2>2, <2>6 DEF RestoreOldFails, TypeOK, AtomicTextTypeOK,
      RunningIsCurrent, RemovalSteps, StagedLater, StagedIsJournaled
  <2> QED BY <2>3, <2>4, <2>5, <2>7
<1>10. CASE RestoredOld
  <2>1. progressed' \in BOOLEAN /\ acted' \in BOOLEAN
    BY <1>10, NoteType DEF RestoredOld
  <2>2. pc' = "recover_rest" /\ plan' = <<>>
    BY <1>10, FollowCalls, FollowPlan DEF RestoredOld
  <2>3. TypeOK'
    <3>1. AtomicTextTypeOK'
      BY <1>10 DEF RestoredOld, TypeOK, AtomicTextTypeOK, RegistersNamed
    <3>2. pc' \in RecoverySteps
      BY <2>2
    <3> QED BY <1>10, <2>1, <3>1, <3>2 DEF RestoredOld, TypeOK, AtomicTextTypeOK, RegistersNamed
  <2>4. RegistersNamed' /\ CallsLeft'
    BY <1>10, <2>2 DEF RestoredOld, RegistersNamed, CallsLeft
  <2>5. FilesHeld' /\ VisibleBeforeUnlink' /\ NeverOutOfReach'
    BY <1>10, <2>2 DEF RestoredOld, TypeOK, AtomicTextTypeOK,
      RegistersNamed, CallsLeft, FilesHeld, VisibleBeforeUnlink, Visible, NeverOutOfReach
  <2>6. pc \notin CommitSteps
    BY <1>10 DEF RestoredOld
  <2>7. RunningIsCurrent' /\ RemovalSteps' /\ StagedLater' /\ StagedIsJournaled'
    BY <1>10, <2>2, <2>6 DEF RestoredOld, TypeOK, AtomicTextTypeOK,
      RunningIsCurrent, RemovalSteps, StagedLater, StagedIsJournaled
  <2> QED BY <2>3, <2>4, <2>5, <2>7
<1>11. CASE AfterRestore
  <2>1. progressed' \in BOOLEAN /\ acted' \in BOOLEAN
    BY <1>11, NoteType DEF AfterRestore, QuarantineSave
  <2>2. \/ pc' = "pending" /\ plan' = <<"pending_rename", "manual">>
        \/ pc' = "manual" /\ plan' = <<>>
        \/ pc' = "drop_journal" /\ plan' = <<>>
    BY <1>11, FollowCalls, FollowPlan DEF AfterRestore, QuarantineSave
  <2>3. TypeOK'
    <3>1. AtomicTextTypeOK'
      BY <1>11 DEF AfterRestore, QuarantineSave, TypeOK, AtomicTextTypeOK, RegistersNamed
    <3>2. pc' \in RecoverySteps
      BY <2>2
    <3> QED BY <1>11, <2>1, <3>1, <3>2 DEF AfterRestore, QuarantineSave, TypeOK, AtomicTextTypeOK, RegistersNamed
  <2>4. RegistersNamed' /\ CallsLeft'
    BY <1>11, <2>2 DEF AfterRestore, QuarantineSave, RegistersNamed, CallsLeft
  <2>5. FilesHeld' /\ VisibleBeforeUnlink' /\ NeverOutOfReach'
    BY <1>11, <2>2 DEF AfterRestore, QuarantineSave, TypeOK, AtomicTextTypeOK,
      RegistersNamed, CallsLeft, FilesHeld, VisibleBeforeUnlink, Visible, NeverOutOfReach
  <2>6. pc \notin CommitSteps
    BY <1>11 DEF AfterRestore, QuarantineSave
  <2>7. RunningIsCurrent' /\ RemovalSteps' /\ StagedLater' /\ StagedIsJournaled'
    BY <1>11, <2>2, <2>6 DEF AfterRestore, QuarantineSave, TypeOK, AtomicTextTypeOK,
      RunningIsCurrent, RemovalSteps, StagedLater, StagedIsJournaled
  <2> QED BY <2>3, <2>4, <2>5, <2>7
<1> QED BY <1>1, <1>2, <1>3, <1>4, <1>5, <1>6, <1>7, <1>8, <1>9, <1>10, <1>11

-----------------------------------------------------------------------------
(* Judging a hidden file changes nothing but the pass's own registers. *)
LEMMA JudgeKeeps ==
  ASSUME RecoveryInv, NEW rank \in 1 .. 3, NEW a \in Ops, NEW reports, Judge(rank, a, reports)
  PROVE  /\ orphans' \subseteq (1 .. 3) \X Ops
         /\ item' = a
         /\ progressed' \in BOOLEAN /\ acted' \in BOOLEAN
         /\ pc = "orphans"
<1>1. progressed' \in BOOLEAN /\ acted' \in BOOLEAN
  BY NoteType DEF Judge
<1>2. orphans' \subseteq orphans
  BY DEF Judge
<1> QED BY <1>1, <1>2 DEF Judge, RecoveryInv, TypeOK

(* The rules for hidden files without a journal. *)
LEMMA OrphansKeepInv ==
  ASSUME RecoveryInv, NEW a \in Ops,
         \/ \E rank \in 1 .. 3 : OrphanGone(rank, a)
         \/ \E rank \in 1 .. 2 : OrphanRestored(rank, a) \/ OrphanRestoreFails(rank, a)
         \/ OrphanStagedKept(a) \/ OrphanRemoved(a) \/ OrphanSave(a)
  PROVE  RecoveryInv'
<1> USE DEF RecoveryInv, Recovering
<1>1. ASSUME NEW rank \in 1 .. 3, OrphanGone(rank, a) PROVE RecoveryInv'
  <2>1. /\ orphans' \subseteq (1 .. 3) \X Ops
        /\ item' = a
        /\ progressed' \in BOOLEAN /\ acted' \in BOOLEAN
        /\ pc = "orphans"
    <3>1. PICK reports : Judge(rank, a, reports)
      BY <1>1 DEF OrphanGone
    <3> QED BY <3>1, JudgeKeeps
  <2>2. pc' = "orphans"
    BY <1>1, <2>1 DEF OrphanGone
  <2>3. TypeOK'
    <3>1. AtomicTextTypeOK'
      BY <1>1 DEF OrphanGone, Judge, TypeOK, AtomicTextTypeOK
    <3>2. UNCHANGED <<quarantine, listed, journals, terminal, crashes>>
      BY <1>1 DEF OrphanGone, Judge
    <3> QED BY <2>1, <2>2, <3>1, <3>2 DEF TypeOK
  <2>4. RegistersNamed' /\ CallsLeft' /\ FilesHeld'
    BY <2>1, <2>2 DEF RegistersNamed, CallsLeft, FilesHeld
  <2>5. VisibleBeforeUnlink' /\ NeverOutOfReach'
    BY <1>1, <2>1, <2>2 DEF OrphanGone, Judge, TypeOK, AtomicTextTypeOK,
      VisibleBeforeUnlink, Visible, NeverOutOfReach
  <2>6. RunningIsCurrent' /\ RemovalSteps' /\ StagedLater' /\ StagedIsJournaled'
    BY <1>1, <2>1, <2>2 DEF OrphanGone, Judge, TypeOK, AtomicTextTypeOK,
      RunningIsCurrent, RemovalSteps, StagedLater, StagedIsJournaled
  <2> QED BY <2>3, <2>4, <2>5, <2>6
<1>2. ASSUME NEW rank \in 1 .. 2, OrphanRestored(rank, a) PROVE RecoveryInv'
  <2>1. /\ orphans' \subseteq (1 .. 3) \X Ops
        /\ item' = a
        /\ progressed' \in BOOLEAN /\ acted' \in BOOLEAN
        /\ pc = "orphans"
    <3>1. PICK reports : Judge(rank, a, reports)
      BY <1>2 DEF OrphanRestored
    <3> QED BY <3>1, JudgeKeeps
  <2>2. pc' = "orphan_restored"
    BY <1>2, <2>1 DEF OrphanRestored
  <2>3. TypeOK'
    <3>1. AtomicTextTypeOK'
      BY <1>2 DEF OrphanRestored, Judge, TypeOK, AtomicTextTypeOK
    <3>2. UNCHANGED <<quarantine, listed, journals, terminal, crashes>>
      BY <1>2 DEF OrphanRestored, Judge
    <3> QED BY <2>1, <2>2, <3>1, <3>2 DEF TypeOK
  <2>4. RegistersNamed' /\ CallsLeft' /\ FilesHeld'
    BY <2>1, <2>2 DEF RegistersNamed, CallsLeft, FilesHeld
  <2>5. VisibleBeforeUnlink' /\ NeverOutOfReach'
    BY <1>2, <2>1, <2>2 DEF OrphanRestored, Judge, TypeOK, AtomicTextTypeOK,
      VisibleBeforeUnlink, Visible, NeverOutOfReach
  <2>6. RunningIsCurrent' /\ RemovalSteps' /\ StagedLater' /\ StagedIsJournaled'
    BY <1>2, <2>1, <2>2 DEF OrphanRestored, Judge, TypeOK, AtomicTextTypeOK,
      RunningIsCurrent, RemovalSteps, StagedLater, StagedIsJournaled
  <2> QED BY <2>3, <2>4, <2>5, <2>6
<1>3. ASSUME NEW rank \in 1 .. 2, OrphanRestoreFails(rank, a) PROVE RecoveryInv'
  <2>1. /\ orphans' \subseteq (1 .. 3) \X Ops
        /\ item' = a
        /\ progressed' \in BOOLEAN /\ acted' \in BOOLEAN
        /\ pc = "orphans"
    <3>1. PICK reports : Judge(rank, a, reports)
      BY <1>3 DEF OrphanRestoreFails
    <3> QED BY <3>1, JudgeKeeps
  <2>2. pc' = "orphans"
    BY <1>3, <2>1 DEF OrphanRestoreFails
  <2>3. TypeOK'
    <3>0. faults' \in 0 .. MaxFaults
      <4>1. faults \in 0 .. MaxFaults
        BY DEF TypeOK, AtomicTextTypeOK
      <4>2. faults < MaxFaults /\ faults' = faults + 1
        BY <1>3 DEF OrphanRestoreFails
      <4> QED BY <4>1, <4>2
    <3>1. AtomicTextTypeOK'
      BY <1>3, <3>0 DEF OrphanRestoreFails, Judge, TypeOK, AtomicTextTypeOK
    <3>2. UNCHANGED <<quarantine, listed, journals, terminal, crashes>>
      BY <1>3 DEF OrphanRestoreFails, Judge
    <3> QED BY <2>1, <2>2, <3>1, <3>2 DEF TypeOK
  <2>4. RegistersNamed' /\ CallsLeft' /\ FilesHeld'
    BY <2>1, <2>2 DEF RegistersNamed, CallsLeft, FilesHeld
  <2>5. VisibleBeforeUnlink' /\ NeverOutOfReach'
    BY <1>3, <2>1, <2>2 DEF OrphanRestoreFails, Judge, TypeOK, AtomicTextTypeOK,
      VisibleBeforeUnlink, Visible, NeverOutOfReach
  <2>6. RunningIsCurrent' /\ RemovalSteps' /\ StagedLater' /\ StagedIsJournaled'
    BY <1>3, <2>1, <2>2 DEF OrphanRestoreFails, Judge, TypeOK, AtomicTextTypeOK,
      RunningIsCurrent, RemovalSteps, StagedLater, StagedIsJournaled
  <2> QED BY <2>3, <2>4, <2>5, <2>6
<1>4. CASE OrphanStagedKept(a)
  <2>1. /\ orphans' \subseteq (1 .. 3) \X Ops
        /\ item' = a
        /\ progressed' \in BOOLEAN /\ acted' \in BOOLEAN
        /\ pc = "orphans"
    <3>1. PICK reports : Judge(1, a, reports)
      BY <1>4 DEF OrphanStagedKept
    <3> QED BY <3>1, JudgeKeeps
  <2>2. pc' = "orphans"
    BY <1>4, <2>1 DEF OrphanStagedKept
  <2>3. TypeOK'
    <3>1. AtomicTextTypeOK'
      BY <1>4 DEF OrphanStagedKept, Judge, TypeOK, AtomicTextTypeOK
    <3>2. UNCHANGED <<quarantine, listed, journals, terminal, crashes>>
      BY <1>4 DEF OrphanStagedKept, Judge
    <3> QED BY <2>1, <2>2, <3>1, <3>2 DEF TypeOK
  <2>4. RegistersNamed' /\ CallsLeft' /\ FilesHeld'
    BY <2>1, <2>2 DEF RegistersNamed, CallsLeft, FilesHeld
  <2>5. VisibleBeforeUnlink' /\ NeverOutOfReach'
    BY <1>4, <2>1, <2>2 DEF OrphanStagedKept, Judge, TypeOK, AtomicTextTypeOK,
      VisibleBeforeUnlink, Visible, NeverOutOfReach
  <2>6. RunningIsCurrent' /\ RemovalSteps' /\ StagedLater' /\ StagedIsJournaled'
    BY <1>4, <2>1, <2>2 DEF OrphanStagedKept, Judge, TypeOK, AtomicTextTypeOK,
      RunningIsCurrent, RemovalSteps, StagedLater, StagedIsJournaled
  <2> QED BY <2>3, <2>4, <2>5, <2>6
<1>5. CASE OrphanRemoved(a)
  <2>1. /\ orphans' \subseteq (1 .. 3) \X Ops
        /\ item' = a
        /\ progressed' \in BOOLEAN /\ acted' \in BOOLEAN
        /\ pc = "orphans"
    <3>1. PICK reports : Judge(2, a, reports)
      BY <1>5 DEF OrphanRemoved
    <3> QED BY <3>1, JudgeKeeps
  <2>2. pc' = "orphans"
    BY <1>5, <2>1 DEF OrphanRemoved
  <2>3. TypeOK'
    <3>1. AtomicTextTypeOK'
      BY <1>5 DEF OrphanRemoved, Judge, TypeOK, AtomicTextTypeOK
    <3>2. UNCHANGED <<quarantine, listed, journals, terminal, crashes>>
      BY <1>5 DEF OrphanRemoved, Judge
    <3> QED BY <2>1, <2>2, <3>1, <3>2 DEF TypeOK
  <2>4. RegistersNamed' /\ CallsLeft' /\ FilesHeld'
    BY <2>1, <2>2 DEF RegistersNamed, CallsLeft, FilesHeld
  <2>5. VisibleBeforeUnlink' /\ NeverOutOfReach'
    BY <1>5, <2>1, <2>2 DEF OrphanRemoved, Judge, TypeOK, AtomicTextTypeOK,
      VisibleBeforeUnlink, Visible, NeverOutOfReach
  <2>6. RunningIsCurrent' /\ RemovalSteps' /\ StagedLater' /\ StagedIsJournaled'
    BY <1>5, <2>1, <2>2 DEF OrphanRemoved, Judge, TypeOK, AtomicTextTypeOK,
      RunningIsCurrent, RemovalSteps, StagedLater, StagedIsJournaled
  <2> QED BY <2>3, <2>4, <2>5, <2>6
<1>6. CASE OrphanSave(a)
  <2>1. /\ orphans' \subseteq (1 .. 3) \X Ops
        /\ item' = a
        /\ progressed' \in BOOLEAN /\ acted' \in BOOLEAN
        /\ pc = "orphans"
    <3>1. PICK reports : Judge(3, a, reports)
      BY <1>6 DEF OrphanSave
    <3> QED BY <3>1, JudgeKeeps
  <2>2. pc' = "orphans"
    BY <1>6, <2>1 DEF OrphanSave
  <2>3. TypeOK'
    <3>1. AtomicTextTypeOK'
      BY <1>6 DEF OrphanSave, Judge, TypeOK, AtomicTextTypeOK
    <3>2. UNCHANGED <<quarantine, listed, journals, terminal, crashes>>
      BY <1>6 DEF OrphanSave, Judge
    <3> QED BY <2>1, <2>2, <3>1, <3>2 DEF TypeOK
  <2>4. RegistersNamed' /\ CallsLeft' /\ FilesHeld'
    BY <2>1, <2>2 DEF RegistersNamed, CallsLeft, FilesHeld
  <2>5. VisibleBeforeUnlink' /\ NeverOutOfReach'
    BY <1>6, <2>1, <2>2 DEF OrphanSave, Judge, TypeOK, AtomicTextTypeOK,
      VisibleBeforeUnlink, Visible, NeverOutOfReach
  <2>6. RunningIsCurrent' /\ RemovalSteps' /\ StagedLater' /\ StagedIsJournaled'
    BY <1>6, <2>1, <2>2 DEF OrphanSave, Judge, TypeOK, AtomicTextTypeOK,
      RunningIsCurrent, RemovalSteps, StagedLater, StagedIsJournaled
  <2> QED BY <2>3, <2>4, <2>5, <2>6
<1> QED BY <1>1, <1>2, <1>3, <1>4, <1>5, <1>6

(* The steps around the passes. *)
LEMMA PassesKeepInv ==
  ASSUME RecoveryInv,
         \/ Restart \/ ListDirectory \/ JournalsSettled \/ NextPass \/ Serve \/ OrphanUnstaged
  PROVE  RecoveryInv'
<1> USE DEF RecoveryInv
<1>1. CASE Restart
  <2>1. pc = "down" /\ pc' = "list"
    BY <1>1 DEF Restart
  <2>2. progressed' \in BOOLEAN /\ acted' \in BOOLEAN
    BY <1>1 DEF Restart, recoveryVars, pass, disk, TypeOK
  <2>3. orphans' \subseteq (1 .. 3) \X Ops
    BY <1>1 DEF Restart, recoveryVars, pass, disk, TypeOK
  <2>4. TypeOK'
    <3>1. AtomicTextTypeOK'
      BY <1>1 DEF Restart, recoveryVars, pass, disk, TypeOK, AtomicTextTypeOK, RegistersNamed
    <3> QED BY <1>1, <2>1, <2>2, <2>3, <3>1 DEF Restart, recoveryVars, pass, disk, TypeOK
  <2>5. RegistersNamed' /\ CallsLeft' /\ FilesHeld'
    BY <2>1 DEF RegistersNamed, CallsLeft, FilesHeld
  <2>6. VisibleBeforeUnlink' /\ NeverOutOfReach'
    BY <1>1, <2>1 DEF Restart, recoveryVars, pass, disk, VisibleBeforeUnlink, Visible, NeverOutOfReach
  <2>7. RunningIsCurrent' /\ RemovalSteps' /\ StagedLater' /\ StagedIsJournaled'
    BY <1>1, <2>1 DEF Restart, recoveryVars, pass, disk, TypeOK, AtomicTextTypeOK, RegistersNamed,
      caller, server, RunningIsCurrent, RemovalSteps, StagedLater, StagedIsJournaled
  <2> QED BY <2>4, <2>5, <2>6, <2>7
<1>2. CASE ListDirectory
  <2>1. pc = "list" /\ pc' = "journals"
    BY <1>2 DEF ListDirectory
  <2>2. progressed' \in BOOLEAN /\ acted' \in BOOLEAN
    BY <1>2 DEF ListDirectory, disk, TypeOK
  <2>3. orphans' \subseteq (1 .. 3) \X Ops
    BY <1>2 DEF ListDirectory, Hidden, Rank
  <2>4. TypeOK'
    <3>1. AtomicTextTypeOK'
      BY <1>2 DEF ListDirectory, disk, TypeOK, AtomicTextTypeOK, RegistersNamed
    <3> QED BY <1>2, <2>1, <2>2, <2>3, <3>1 DEF ListDirectory, disk, TypeOK
  <2>5. RegistersNamed' /\ CallsLeft' /\ FilesHeld'
    BY <2>1 DEF RegistersNamed, CallsLeft, FilesHeld
  <2>6. VisibleBeforeUnlink' /\ NeverOutOfReach'
    BY <1>2, <2>1 DEF ListDirectory, disk, VisibleBeforeUnlink, Visible, NeverOutOfReach
  <2>7. RunningIsCurrent' /\ RemovalSteps' /\ StagedLater' /\ StagedIsJournaled'
    BY <1>2, <2>1 DEF ListDirectory, disk, TypeOK, AtomicTextTypeOK, RegistersNamed,
      caller, server, RunningIsCurrent, RemovalSteps, StagedLater, StagedIsJournaled
  <2> QED BY <2>4, <2>5, <2>6, <2>7
<1>3. CASE JournalsSettled
  <2>1. pc = "journals" /\ pc' = "orphans"
    BY <1>3 DEF JournalsSettled
  <2>2. progressed' \in BOOLEAN /\ acted' \in BOOLEAN
    BY <1>3 DEF JournalsSettled, Recovering, TypeOK
  <2>3. orphans' \subseteq (1 .. 3) \X Ops
    BY <1>3 DEF JournalsSettled, Recovering, TypeOK
  <2>4. TypeOK'
    <3>1. AtomicTextTypeOK'
      BY <1>3 DEF JournalsSettled, Recovering, TypeOK, AtomicTextTypeOK, RegistersNamed
    <3> QED BY <1>3, <2>1, <2>2, <2>3, <3>1 DEF JournalsSettled, Recovering, TypeOK
  <2>5. RegistersNamed' /\ CallsLeft' /\ FilesHeld'
    BY <2>1 DEF RegistersNamed, CallsLeft, FilesHeld
  <2>6. VisibleBeforeUnlink' /\ NeverOutOfReach'
    BY <1>3, <2>1 DEF JournalsSettled, Recovering, VisibleBeforeUnlink, Visible, NeverOutOfReach
  <2>7. RunningIsCurrent' /\ RemovalSteps' /\ StagedLater' /\ StagedIsJournaled'
    BY <1>3, <2>1 DEF JournalsSettled, Recovering, TypeOK, AtomicTextTypeOK, RegistersNamed,
      caller, server, RunningIsCurrent, RemovalSteps, StagedLater, StagedIsJournaled
  <2> QED BY <2>4, <2>5, <2>6, <2>7
<1>4. CASE NextPass
  <2>1. pc = "orphans" /\ pc' = "list"
    BY <1>4 DEF NextPass
  <2>2. progressed' \in BOOLEAN /\ acted' \in BOOLEAN
    BY <1>4 DEF NextPass, Recovering, TypeOK
  <2>3. orphans' \subseteq (1 .. 3) \X Ops
    BY <1>4 DEF NextPass, Recovering, TypeOK
  <2>4. TypeOK'
    <3>1. AtomicTextTypeOK'
      BY <1>4 DEF NextPass, Recovering, TypeOK, AtomicTextTypeOK, RegistersNamed
    <3> QED BY <1>4, <2>1, <2>2, <2>3, <3>1 DEF NextPass, Recovering, TypeOK
  <2>5. RegistersNamed' /\ CallsLeft' /\ FilesHeld'
    BY <2>1 DEF RegistersNamed, CallsLeft, FilesHeld
  <2>6. VisibleBeforeUnlink' /\ NeverOutOfReach'
    BY <1>4, <2>1 DEF NextPass, Recovering, VisibleBeforeUnlink, Visible, NeverOutOfReach
  <2>7. RunningIsCurrent' /\ RemovalSteps' /\ StagedLater' /\ StagedIsJournaled'
    BY <1>4, <2>1 DEF NextPass, Recovering, TypeOK, AtomicTextTypeOK, RegistersNamed,
      caller, server, RunningIsCurrent, RemovalSteps, StagedLater, StagedIsJournaled
  <2> QED BY <2>4, <2>5, <2>6, <2>7
<1>5. CASE Serve
  <2>1. pc = "orphans" /\ pc' = "idle"
    BY <1>5 DEF Serve
  <2>2. progressed' \in BOOLEAN /\ acted' \in BOOLEAN
    BY <1>5 DEF Serve, ForgetPass, disk, TypeOK
  <2>3. orphans' \subseteq (1 .. 3) \X Ops
    BY <1>5 DEF Serve, ForgetPass, disk, TypeOK
  <2>4. TypeOK'
    <3>1. AtomicTextTypeOK'
      BY <1>5 DEF Serve, ForgetPass, disk, TypeOK, AtomicTextTypeOK, RegistersNamed
    <3> QED BY <1>5, <2>1, <2>2, <2>3, <3>1 DEF Serve, ForgetPass, disk, TypeOK
  <2>5. RegistersNamed' /\ CallsLeft' /\ FilesHeld'
    BY <2>1 DEF RegistersNamed, CallsLeft, FilesHeld
  <2>6. VisibleBeforeUnlink' /\ NeverOutOfReach'
    BY <1>5, <2>1 DEF Serve, ForgetPass, disk, VisibleBeforeUnlink, Visible, NeverOutOfReach
  <2>7. RunningIsCurrent' /\ RemovalSteps' /\ StagedLater' /\ StagedIsJournaled'
    BY <1>5, <2>1 DEF Serve, ForgetPass, disk, TypeOK, AtomicTextTypeOK, RegistersNamed,
      caller, server, RunningIsCurrent, RemovalSteps, StagedLater, StagedIsJournaled
  <2> QED BY <2>4, <2>5, <2>6, <2>7
<1>6. CASE OrphanUnstaged
  <2>1. pc = "orphan_restored" /\ pc' = "orphans"
    BY <1>6 DEF OrphanUnstaged
  <2>2. progressed' \in BOOLEAN /\ acted' \in BOOLEAN
    BY <1>6, NoteType DEF OrphanUnstaged, Recovering, TypeOK
  <2>3. orphans' \subseteq (1 .. 3) \X Ops
    BY <1>6 DEF OrphanUnstaged, Recovering, TypeOK
  <2>4. TypeOK'
    <3>1. AtomicTextTypeOK'
      <4>1. staged' = [staged EXCEPT ![item] = None]
        BY <1>6 DEF OrphanUnstaged
      <4>2. staged' \in [Ops -> Inodes \cup {None}]
        BY <4>1 DEF TypeOK, AtomicTextTypeOK
      <4> QED BY <1>6, <4>2 DEF OrphanUnstaged, Recovering, TypeOK, AtomicTextTypeOK
    <3> QED BY <1>6, <2>1, <2>2, <2>3, <3>1 DEF OrphanUnstaged, Recovering, TypeOK
  <2>5. RegistersNamed' /\ CallsLeft' /\ FilesHeld'
    BY <2>1 DEF RegistersNamed, CallsLeft, FilesHeld
  <2>6. VisibleBeforeUnlink' /\ NeverOutOfReach'
    BY <1>6, <2>1 DEF OrphanUnstaged, Recovering, VisibleBeforeUnlink, Visible, NeverOutOfReach
  <2>7. RunningIsCurrent' /\ RemovalSteps' /\ StagedLater' /\ StagedIsJournaled'
    BY <1>6, <2>1 DEF OrphanUnstaged, Recovering, TypeOK, AtomicTextTypeOK, RegistersNamed,
      caller, server, RunningIsCurrent, RemovalSteps, StagedLater, StagedIsJournaled
  <2> QED BY <2>4, <2>5, <2>6, <2>7
<1> QED BY <1>1, <1>2, <1>3, <1>4, <1>5, <1>6

-----------------------------------------------------------------------------
(* Every step of the server, the clients and the external writers. *)
LEMMA NextKeepsInv ==
  ASSUME RecoveryInv, [Next]_allVars
  PROVE  RecoveryInv'
<1>1. CASE Commit /\ UNCHANGED recoveryVars
  BY <1>1, StepKeepsInv, CreateLinkKeepsInv, RemoveUnlinkKeepsInv DEF Commit
<1>2. CASE (Client \/ External) /\ UNCHANGED <<quarantine, pass, crashes>>
  BY <1>2, ClientKeepsInv, ExternalKeepsInv
<1>3. CASE Recovery
  BY <1>3, SettlesKeepInv, CallsKeepInv, OrphansKeepInv, PassesKeepInv DEF Recovery
<1>4. CASE Crash
  BY <1>4, CrashKeepsInv
<1>5. CASE UNCHANGED allVars
  BY <1>5 DEF RecoveryInv, TypeOK, AtomicTextTypeOK, RegistersNamed, CallsLeft, FilesHeld,
    VisibleBeforeUnlink, Visible, NeverOutOfReach, RunningIsCurrent, RemovalSteps, StagedLater,
    StagedIsJournaled
<1> QED BY <1>1, <1>2, <1>3, <1>4, <1>5 DEF Next

(* RecoveryInv holds in every reachable state. *)
THEOREM Invariant == Spec => []RecoveryInv
<1>1. Init => RecoveryInv
  BY InitInv
<1>2. RecoveryInv /\ [Next]_allVars => RecoveryInv'
  BY NextKeepsInv
<1> QED BY <1>1, <1>2, PTL DEF Spec

(* Type correctness: every name is bound to an inode or to none, every     *)
(* journal is in a phase the parser of crashRecovery.ts knows, and the     *)
(* server is at one of its calls.                                          *)
THEOREM RecoveryTypeCorrect == Spec => []TypeOK
<1>1. RecoveryInv => TypeOK
  BY DEF RecoveryInv
<1> QED BY <1>1, Invariant, PTL

(* A commit, a removal, a recovery or a crash at any of their calls leaves *)
(* the document at its path or under a staging name, unless it was         *)
(* deleted.                                                                *)
THEOREM NothingOutOfReach == Spec => []NeverOutOfReach
<1>1. RecoveryInv => NeverOutOfReach
  BY DEF RecoveryInv
<1> QED BY <1>1, Invariant, PTL

(* Whatever a running replace has taken aside, a complete journal for it   *)
(* is on the disk: a crash at any call of commit() is one that             *)
(* recoverReplaceJournal finds and can parse.                              *)
THEOREM TakeoversAreJournaled == Spec => []StagedIsJournaled
<1>1. RecoveryInv => StagedIsJournaled
  BY DEF RecoveryInv
<1> QED BY <1>1, Invariant, PTL

-----------------------------------------------------------------------------
(* A refused save: RefusalInv is inductive, whatever external writers and  *)
(* failing calls do.                                                       *)

(* The kinds of values that the proofs below use. *)
LEMMA Shapes ==
  ASSUME RecoveryInv
  PROVE  /\ save \in [Ops -> Inodes \cup {None}] /\ staged \in [Ops -> Inodes \cup {None}]
         /\ outcome \in [Ops -> Verdicts \cup {"unstarted", "running", "lost"}]
         /\ request \in [Ops -> Request] /\ journal \in [Ops -> JournalStates]
         /\ content \in [Inodes -> Bytes] /\ target \in Inodes \cup {None}
         /\ op \in 0 .. MaxOps /\ pc \in CommitSteps \cup RecoverySteps
         /\ pc \in CommitSteps \ {"idle"} => op \in Ops
         /\ \A a \in Ops : a \in Nat /\ a # None /\ a \in Inodes
  BY NoneIsNoInode, BoundsAssumption
     DEF RecoveryInv, TypeOK, AtomicTextTypeOK, RegistersNamed, Ops, Inodes

(* A step of recovery for a journal or a hidden file is followed by one,   *)
(* and gives no file a name but the path.                                  *)
RecoveryMoves ==
  /\ pc' \in RecoverySteps
  /\ UNCHANGED <<op, request, outcome, content, external, forfeit>>
  /\ \A a \in Ops : staged'[a] \in {staged[a], None} /\ save'[a] \in {save[a], None}
  /\ \/ target' = target
     \/ target = None /\ \E a \in Ops : target' = staged[a]
     \/ target = None /\ \E a \in Ops : save[a] # None /\ target' = save[a]

LEMMA SettlesMove ==
  ASSUME RecoveryInv, NEW a \in Ops,
         \/ SettleUnstarted(a) \/ SettleLanded(a) \/ SettleOccupied(a)
         \/ SettleInterrupted(a) \/ SettlePending(a) \/ SettleRetained(a)
  PROVE  RecoveryMoves
<1>1. ASSUME NEW calls, NEW reports, Settle(a, calls, reports), pc' \in RecoverySteps
      PROVE  RecoveryMoves
  BY <1>1 DEF Settle, Recovering, RecoveryMoves, caller, outside

<1>2. CASE SettleUnstarted(a)
  <2>1. pc' \in {"drop_save", "drop_journal"}
    BY <1>2, FollowCalls DEF SettleUnstarted, Settle
  <2> QED BY <1>1, <1>2, <2>1 DEF SettleUnstarted, RecoverySteps
<1>3. CASE SettleLanded(a)
  <2>1. pc' \in {"recover_drop_staged", "postcommit"}
    BY <1>3, FollowCalls DEF SettleLanded, Settle
  <2> QED BY <1>1, <1>3, <2>1 DEF SettleLanded, RecoverySteps
<1>4. CASE SettleOccupied(a)
  <2>1. pc' \in {"pending", "manual"}
    BY <1>4, FollowCalls DEF SettleOccupied, Settle, QuarantineSave
  <2> QED BY <1>1, <1>4, <2>1 DEF SettleOccupied, RecoverySteps
<1>5. CASE SettleInterrupted(a)
  <2>1. pc' \in {"recover_link", "recover_restore"}
    BY <1>5, FollowCalls DEF SettleInterrupted, Settle, BothIntact
  <2> QED BY <1>1, <1>5, <2>1 DEF SettleInterrupted, RecoverySteps
<1>6. CASE SettlePending(a)
  <2>1. pc' \in {"pending_rename", "manual"}
    BY <1>6, FollowCalls DEF SettlePending, Settle
  <2> QED BY <1>1, <1>6, <2>1 DEF SettlePending, RecoverySteps
<1>7. CASE SettleRetained(a)
  <2>1. pc' \in {"journals"}
    BY <1>7, FollowCalls DEF SettleRetained, Settle
  <2> QED BY <1>1, <1>7, <2>1 DEF SettleRetained, RecoverySteps
<1> QED BY <1>2, <1>3, <1>4, <1>5, <1>6, <1>7

LEMMA CallsMove ==
  ASSUME RecoveryInv,
         \/ DropSave \/ DropStagedBytes \/ DropJournal \/ RewritePhase \/ RenameSave
         \/ CompleteCommit \/ CompleteCommitFails \/ RestoreOld \/ RestoreOldFails
         \/ RestoredOld \/ AfterRestore
  PROVE  RecoveryMoves
<1>0. CallsLeft /\ FilesHeld /\ (pc \in ItemCalls => item \in Ops)
  BY DEF RecoveryInv, RegistersNamed, ItemCalls, RecoverySteps
<1>1. CASE DropSave
  <2>1. pc' \in {"drop_journal", "recover_drop_staged"}
    BY <1>0, <1>1, FollowCalls, FollowPlan DEF DropSave, Call
  <2>2. item \in Ops
    BY <1>0, <1>1 DEF DropSave, Call, ItemCalls, RecoverySteps
  <2> QED BY <1>0, <1>1, <2>1, <2>2, Shapes
          DEF DropSave, Call, Recovering, RecoveryMoves, caller, outside, RecoverySteps, FilesHeld
<1>2. CASE DropStagedBytes
  <2>1. pc' \in {"drop_journal", "drop_save"}
    BY <1>0, <1>2, FollowCalls, FollowPlan DEF DropStagedBytes, Call
  <2>2. item \in Ops
    BY <1>0, <1>2 DEF DropStagedBytes, Call, ItemCalls, RecoverySteps
  <2> QED BY <1>0, <1>2, <2>1, <2>2, Shapes
          DEF DropStagedBytes, Call, Recovering, RecoveryMoves, caller, outside, RecoverySteps, FilesHeld
<1>3. CASE DropJournal
  <2>1. pc' \in {"journals"}
    BY <1>0, <1>3, FollowCalls, FollowPlan DEF DropJournal, Call
  <2>2. item \in Ops
    BY <1>0, <1>3 DEF DropJournal, Call, ItemCalls, RecoverySteps
  <2> QED BY <1>0, <1>3, <2>1, <2>2, Shapes
          DEF DropJournal, Call, Recovering, RecoveryMoves, caller, outside, RecoverySteps, FilesHeld
<1>4. CASE RewritePhase
  <2>1. pc' \in {"journals", "pending_rename"}
    BY <1>0, <1>4, FollowCalls, FollowPlan DEF RewritePhase, Rewrite, Call
  <2>2. item \in Ops
    BY <1>0, <1>4 DEF RewritePhase, Rewrite, Call, ItemCalls, RecoverySteps
  <2> QED BY <1>0, <1>4, <2>1, <2>2, Shapes
          DEF RewritePhase, Rewrite, Call, Recovering, RecoveryMoves, caller, outside, RecoverySteps, FilesHeld
<1>5. CASE RenameSave
  <2>1. pc' \in {"manual"}
    BY <1>0, <1>5, FollowCalls, FollowPlan DEF RenameSave, Call
  <2>2. item \in Ops
    BY <1>0, <1>5 DEF RenameSave, Call, ItemCalls, RecoverySteps
  <2> QED BY <1>0, <1>5, <2>1, <2>2, Shapes
          DEF RenameSave, Call, Recovering, RecoveryMoves, caller, outside, RecoverySteps, FilesHeld
<1>6. CASE CompleteCommit
  <2>1. pc' \in {"drop_save", "recover_restore"}
    BY <1>0, <1>6, FollowCalls, FollowPlan DEF CompleteCommit, Call
  <2>2. item \in Ops
    BY <1>0, <1>6 DEF CompleteCommit, Call, ItemCalls, RecoverySteps
  <2> QED BY <1>0, <1>6, <2>1, <2>2, Shapes
          DEF CompleteCommit, Call, Recovering, RecoveryMoves, caller, outside, RecoverySteps, FilesHeld
<1>7. CASE CompleteCommitFails
  <2>1. pc' \in {"journals"}
    BY <1>0, <1>7, FollowCalls DEF CompleteCommitFails, Call
  <2>2. item \in Ops
    BY <1>0, <1>7 DEF CompleteCommitFails, Call, ItemCalls, RecoverySteps
  <2> QED BY <1>0, <1>7, <2>1, <2>2, Shapes
          DEF CompleteCommitFails, Call, Recovering, RecoveryMoves, caller, outside, RecoverySteps, FilesHeld
<1>8. CASE RestoreOld
  <2>1. pc' \in {"recover_restored", "recover_rest"}
    BY <1>0, <1>8, FollowCalls DEF RestoreOld, Call
  <2>2. item \in Ops
    BY <1>0, <1>8 DEF RestoreOld, Call, ItemCalls, RecoverySteps
  <2> QED BY <1>0, <1>8, <2>1, <2>2, Shapes
          DEF RestoreOld, Call, Recovering, RecoveryMoves, caller, outside, RecoverySteps, FilesHeld
<1>9. CASE RestoreOldFails
  <2>1. pc' \in {"recover_rest"}
    BY <1>0, <1>9, FollowCalls DEF RestoreOldFails, Call
  <2>2. item \in Ops
    BY <1>0, <1>9 DEF RestoreOldFails, Call, ItemCalls, RecoverySteps
  <2> QED BY <1>0, <1>9, <2>1, <2>2, Shapes
          DEF RestoreOldFails, Call, Recovering, RecoveryMoves, caller, outside, RecoverySteps, FilesHeld
<1>10. CASE RestoredOld
  <2>1. pc' \in {"recover_rest"}
    BY <1>0, <1>10, FollowCalls, FollowPlan DEF RestoredOld, Call
  <2>2. item \in Ops
    BY <1>0, <1>10 DEF RestoredOld, Call, ItemCalls, RecoverySteps
  <2> QED BY <1>0, <1>10, <2>1, <2>2, Shapes
          DEF RestoredOld, Call, Recovering, RecoveryMoves, caller, outside, RecoverySteps, FilesHeld
<1>11. CASE AfterRestore
  <2>1. pc' \in {"pending", "manual", "drop_journal"}
    BY <1>0, <1>11, FollowCalls DEF AfterRestore, QuarantineSave, Call
  <2>2. item \in Ops
    BY <1>0, <1>11 DEF AfterRestore, QuarantineSave, Call, ItemCalls, RecoverySteps
  <2> QED BY <1>0, <1>11, <2>1, <2>2, Shapes
          DEF AfterRestore, QuarantineSave, Call, Recovering, RecoveryMoves, caller, outside, RecoverySteps, FilesHeld
<1> QED BY <1>1, <1>2, <1>3, <1>4, <1>5, <1>6, <1>7, <1>8, <1>9, <1>10, <1>11

LEMMA OrphansMove ==
  ASSUME RecoveryInv, NEW a \in Ops,
         \/ \E rank \in 1 .. 3 : OrphanGone(rank, a)
         \/ \E rank \in 1 .. 2 : OrphanRestored(rank, a) \/ OrphanRestoreFails(rank, a)
         \/ OrphanStagedKept(a) \/ OrphanRemoved(a) \/ OrphanSave(a)
  PROVE  RecoveryMoves
<1> USE Shapes DEF Judge, Recovering, RecoveryMoves, caller, outside, RecoverySteps
<1>1. CASE \E rank \in 1 .. 3 : OrphanGone(rank, a)
  BY <1>1 DEF OrphanGone
<1>2. CASE \E rank \in 1 .. 2 : OrphanRestored(rank, a)
  BY <1>2 DEF OrphanRestored
<1>3. CASE \E rank \in 1 .. 2 : OrphanRestoreFails(rank, a)
  BY <1>3 DEF OrphanRestoreFails
<1>4. CASE OrphanStagedKept(a)
  BY <1>4 DEF OrphanStagedKept
<1>5. CASE OrphanRemoved(a)
  BY <1>5 DEF OrphanRemoved
<1>6. CASE OrphanSave(a)
  BY <1>6 DEF OrphanSave
<1> QED BY <1>1, <1>2, <1>3, <1>4, <1>5, <1>6

LEMMA PassesMove ==
  ASSUME RecoveryInv,
         Restart \/ ListDirectory \/ JournalsSettled \/ NextPass \/ OrphanUnstaged
  PROVE  RecoveryMoves
<1> USE Shapes DEF Recovering, RecoveryMoves, caller, outside, disk, RecoverySteps
<1>1. CASE Restart
  BY <1>1 DEF Restart
<1>2. CASE ListDirectory
  BY <1>2 DEF ListDirectory
<1>3. CASE JournalsSettled
  BY <1>3 DEF JournalsSettled
<1>4. CASE NextPass
  BY <1>4 DEF NextPass
<1>5. CASE OrphanUnstaged
  BY <1>5 DEF OrphanUnstaged
<1> QED BY <1>1, <1>2, <1>3, <1>4, <1>5

LEMMA RecoveryMovesOrServes ==
  ASSUME RecoveryInv, Recovery
  PROVE  RecoveryMoves \/ Serve
  BY SettlesMove, CallsMove, OrphansMove, PassesMove DEF Recovery

(* The calls of an operation, one by one. *)
LEMMA StepKeepsRefusal ==
  ASSUME RecoveryInv, RefusalInv, Step
  PROVE  RefusalInv'
<1> USE Shapes DEF RefusalInv, StepOfKind, StepsOf, SavesAreOwn, UnlinkedBefore, Unlinked, RefusedIsGone,
      Refusals, LinkedSteps, CommitSteps, disk, caller
<1>0. \A a \in Ops : request[a].kind \in Kinds /\ ~(a > a)
  BY DEF Request
<1>1. CASE WriteTemp
  <2>1. StepOfKind'
    BY <1>0, <1>1 DEF WriteTemp, Goto, Kinds
  <2>2. SavesAreOwn'
    BY <1>1 DEF WriteTemp, Goto
  <2>3. UnlinkedBefore'
    BY <1>0, <1>1 DEF WriteTemp, Goto
  <2>4. RefusedIsGone'
    BY <1>0, <1>1 DEF WriteTemp, Goto
  <2> QED BY <2>1, <2>2, <2>3, <2>4
<1>2. CASE OpenJournal
  <2>1. StepOfKind'
    BY <1>0, <1>2 DEF OpenJournal, Goto, Kinds
  <2>2. SavesAreOwn'
    BY <1>2 DEF OpenJournal, Goto
  <2>3. UnlinkedBefore'
    BY <1>0, <1>2 DEF OpenJournal, Goto
  <2>4. RefusedIsGone'
    BY <1>0, <1>2 DEF OpenJournal, Goto
  <2> QED BY <2>1, <2>2, <2>3, <2>4
<1>3. CASE WriteJournal
  <2>1. StepOfKind'
    BY <1>0, <1>3 DEF WriteJournal, Goto, Kinds
  <2>2. SavesAreOwn'
    BY <1>3 DEF WriteJournal, Goto
  <2>3. UnlinkedBefore'
    BY <1>0, <1>3 DEF WriteJournal, Goto
  <2>4. RefusedIsGone'
    BY <1>0, <1>3 DEF WriteJournal, Goto
  <2> QED BY <2>1, <2>2, <2>3, <2>4
<1>4. CASE Capture
  <2>1. StepOfKind'
    BY <1>0, <1>4 DEF Capture, Kinds
  <2>2. SavesAreOwn'
    BY <1>4 DEF Capture
  <2>3. UnlinkedBefore'
    BY <1>0, <1>4 DEF Capture
  <2>4. RefusedIsGone'
    BY <1>0, <1>4 DEF Capture
  <2> QED BY <2>1, <2>2, <2>3, <2>4
<1>5. CASE Takeover
  <2>1. StepOfKind'
    BY <1>0, <1>5 DEF Takeover, Reads, Goto, Fail, Kinds
  <2>2. SavesAreOwn'
    BY <1>5 DEF Takeover, Reads, Goto, Fail
  <2>3. UnlinkedBefore'
    BY <1>0, <1>5 DEF Takeover, Reads, Goto, Fail
  <2>4. RefusedIsGone'
    BY <1>0, <1>5 DEF Takeover, Reads, Goto, Fail
  <2> QED BY <2>1, <2>2, <2>3, <2>4
<1>6. CASE VerifyOwner
  <2>1. StepOfKind'
    BY <1>0, <1>6 DEF VerifyOwner, Goto, Fail, Kinds
  <2>2. SavesAreOwn'
    BY <1>6 DEF VerifyOwner, Goto, Fail
  <2>3. UnlinkedBefore'
    BY <1>0, <1>6 DEF VerifyOwner, Goto, Fail
  <2>4. RefusedIsGone'
    BY <1>0, <1>6 DEF VerifyOwner, Goto, Fail
  <2> QED BY <2>1, <2>2, <2>3, <2>4
<1>7. CASE VerifyBytes
  <2>1. StepOfKind'
    BY <1>0, <1>7 DEF VerifyBytes, Goto, Kinds
  <2>2. SavesAreOwn'
    BY <1>7 DEF VerifyBytes, Goto
  <2>3. UnlinkedBefore'
    BY <1>0, <1>7 DEF VerifyBytes, Goto
  <2>4. RefusedIsGone'
    BY <1>0, <1>7 DEF VerifyBytes, Goto
  <2> QED BY <2>1, <2>2, <2>3, <2>4
<1>8. CASE Link
  <2>1. StepOfKind'
    BY <1>0, <1>8 DEF Link, Goto, Kinds
  <2>2. SavesAreOwn'
    BY <1>8 DEF Link, Goto
  <2>3. UnlinkedBefore'
    BY <1>0, <1>8 DEF Link, Goto
  <2>4. RefusedIsGone'
    BY <1>0, <1>8 DEF Link, Goto
  <2> QED BY <2>1, <2>2, <2>3, <2>4
<1>9. CASE LinkFails
  <2>1. StepOfKind'
    BY <1>0, <1>9 DEF LinkFails, Kinds
  <2>2. SavesAreOwn'
    BY <1>9 DEF LinkFails
  <2>3. UnlinkedBefore'
    BY <1>0, <1>9 DEF LinkFails
  <2>4. RefusedIsGone'
    BY <1>0, <1>9 DEF LinkFails
  <2> QED BY <2>1, <2>2, <2>3, <2>4
<1>10. CASE DropStaged
  <2>1. StepOfKind'
    BY <1>0, <1>10 DEF DropStaged, Unlinks, Goto, Kinds
  <2>2. SavesAreOwn'
    BY <1>10 DEF DropStaged, Unlinks, Goto
  <2>3. UnlinkedBefore'
    BY <1>0, <1>10 DEF DropStaged, Unlinks, Goto
  <2>4. RefusedIsGone'
    BY <1>0, <1>10 DEF DropStaged, Unlinks, Goto
  <2> QED BY <2>1, <2>2, <2>3, <2>4
<1>11. CASE RestoreLink
  <2>1. StepOfKind'
    BY <1>0, <1>11 DEF RestoreLink, EndRestore, Goto, Report, Kinds
  <2>2. SavesAreOwn'
    BY <1>11 DEF RestoreLink, EndRestore, Goto, Report
  <2>3. UnlinkedBefore'
    BY <1>0, <1>11 DEF RestoreLink, EndRestore, Goto, Report
  <2>4. RefusedIsGone'
    BY <1>0, <1>11 DEF RestoreLink, EndRestore, Goto, Report
  <2> QED BY <2>1, <2>2, <2>3, <2>4
<1>12. CASE RestoreLinkFails
  <2>1. StepOfKind'
    BY <1>0, <1>12 DEF RestoreLinkFails, Goto, Kinds
  <2>2. SavesAreOwn'
    BY <1>12 DEF RestoreLinkFails, Goto
  <2>3. UnlinkedBefore'
    BY <1>0, <1>12 DEF RestoreLinkFails, Goto
  <2>4. RefusedIsGone'
    BY <1>0, <1>12 DEF RestoreLinkFails, Goto
  <2> QED BY <2>1, <2>2, <2>3, <2>4
<1>13. CASE RestoreClean
  <2>1. StepOfKind'
    BY <1>0, <1>13 DEF RestoreClean, Unlinks, EndRestore, Goto, Report, Kinds
  <2>2. SavesAreOwn'
    BY <1>13 DEF RestoreClean, Unlinks, EndRestore, Goto, Report
  <2>3. UnlinkedBefore'
    BY <1>0, <1>13 DEF RestoreClean, Unlinks, EndRestore, Goto, Report
  <2>4. RefusedIsGone'
    BY <1>0, <1>13 DEF RestoreClean, Unlinks, EndRestore, Goto, Report
  <2> QED BY <2>1, <2>2, <2>3, <2>4
<1>14. CASE RestoreStat
  <2>1. StepOfKind'
    BY <1>0, <1>14 DEF RestoreStat, EndRestore, Goto, Report, Kinds
  <2>2. SavesAreOwn'
    BY <1>14 DEF RestoreStat, EndRestore, Goto, Report
  <2>3. UnlinkedBefore'
    BY <1>0, <1>14 DEF RestoreStat, EndRestore, Goto, Report
  <2>4. RefusedIsGone'
    BY <1>0, <1>14 DEF RestoreStat, EndRestore, Goto, Report
  <2> QED BY <2>1, <2>2, <2>3, <2>4
<1>15. CASE RestoreRename
  <2>1. StepOfKind'
    BY <1>0, <1>15 DEF RestoreRename, Unlinks, EndRestore, Goto, Report, Kinds
  <2>2. SavesAreOwn'
    BY <1>15 DEF RestoreRename, Unlinks, EndRestore, Goto, Report
  <2>3. UnlinkedBefore'
    BY <1>0, <1>15 DEF RestoreRename, Unlinks, EndRestore, Goto, Report
  <2>4. RefusedIsGone'
    BY <1>0, <1>15 DEF RestoreRename, Unlinks, EndRestore, Goto, Report
  <2> QED BY <2>1, <2>2, <2>3, <2>4
<1>16. CASE FinalCheck
  <2>1. StepOfKind'
    BY <1>0, <1>16 DEF FinalCheck, Goto, Kinds
  <2>2. SavesAreOwn'
    BY <1>16 DEF FinalCheck, Goto
  <2>3. UnlinkedBefore'
    BY <1>0, <1>16 DEF FinalCheck, Goto
  <2>4. RefusedIsGone'
    BY <1>0, <1>16 DEF FinalCheck, Goto
  <2> QED BY <2>1, <2>2, <2>3, <2>4
<1>17. CASE Mark
  <2>1. StepOfKind'
    BY <1>0, <1>17 DEF Mark, Goto, Kinds
  <2>2. SavesAreOwn'
    BY <1>17 DEF Mark, Goto
  <2>3. UnlinkedBefore'
    BY <1>0, <1>17 DEF Mark, Goto
  <2>4. RefusedIsGone'
    BY <1>0, <1>17 DEF Mark, Goto
  <2> QED BY <2>1, <2>2, <2>3, <2>4
<1>18. CASE MarkFails
  <2>1. StepOfKind'
    BY <1>0, <1>18 DEF MarkFails, Goto, Kinds
  <2>2. SavesAreOwn'
    BY <1>18 DEF MarkFails, Goto
  <2>3. UnlinkedBefore'
    BY <1>0, <1>18 DEF MarkFails, Goto
  <2>4. RefusedIsGone'
    BY <1>0, <1>18 DEF MarkFails, Goto
  <2> QED BY <2>1, <2>2, <2>3, <2>4
<1>19. CASE MarkTemp
  <2>1. StepOfKind'
    BY <1>0, <1>19 DEF MarkTemp, Unlinks, Report, Kinds
  <2>2. SavesAreOwn'
    BY <1>19 DEF MarkTemp, Unlinks, Report
  <2>3. UnlinkedBefore'
    BY <1>0, <1>19 DEF MarkTemp, Unlinks, Report
  <2>4. RefusedIsGone'
    BY <1>0, <1>19 DEF MarkTemp, Unlinks, Report
  <2> QED BY <2>1, <2>2, <2>3, <2>4
<1>20. CASE CleanTemp
  <2>1. StepOfKind'
    BY <1>0, <1>20 DEF CleanTemp, Unlinks, Goto, Kinds
  <2>2. SavesAreOwn'
    BY <1>20 DEF CleanTemp, Unlinks, Goto
  <2>3. UnlinkedBefore'
    BY <1>0, <1>20 DEF CleanTemp, Unlinks, Goto
  <2>4. RefusedIsGone'
    BY <1>0, <1>20 DEF CleanTemp, Unlinks, Goto
  <2> QED BY <2>1, <2>2, <2>3, <2>4
<1>21. CASE CleanStaged
  <2>1. StepOfKind'
    BY <1>0, <1>21 DEF CleanStaged, Unlinks, Goto, Kinds
  <2>2. SavesAreOwn'
    BY <1>21 DEF CleanStaged, Unlinks, Goto
  <2>3. UnlinkedBefore'
    BY <1>0, <1>21 DEF CleanStaged, Unlinks, Goto
  <2>4. RefusedIsGone'
    BY <1>0, <1>21 DEF CleanStaged, Unlinks, Goto
  <2> QED BY <2>1, <2>2, <2>3, <2>4
<1>22. CASE CleanJournal
  <2>1. StepOfKind'
    BY <1>0, <1>22 DEF CleanJournal, Report, Kinds
  <2>2. SavesAreOwn'
    BY <1>22 DEF CleanJournal, Report
  <2>3. UnlinkedBefore'
    BY <1>0, <1>22 DEF CleanJournal, Report
  <2>4. RefusedIsGone'
    BY <1>0, <1>22 DEF CleanJournal, Report
  <2> QED BY <2>1, <2>2, <2>3, <2>4
<1>23. CASE FailTemp
  <2>1. StepOfKind'
    BY <1>0, <1>23 DEF FailTemp, Unlinks, Goto, Kinds
  <2>2. SavesAreOwn'
    BY <1>23 DEF FailTemp, Unlinks, Goto
  <2>3. UnlinkedBefore'
    BY <1>0, <1>23 DEF FailTemp, Unlinks, Goto
  <2>4. RefusedIsGone'
    BY <1>0, <1>23 DEF FailTemp, Unlinks, Goto
  <2> QED BY <2>1, <2>2, <2>3, <2>4
<1>24. CASE FailJournal
  <2>1. StepOfKind'
    BY <1>0, <1>24 DEF FailJournal, Report, Kinds
  <2>2. SavesAreOwn'
    BY <1>24 DEF FailJournal, Report
  <2>3. UnlinkedBefore'
    BY <1>0, <1>24 DEF FailJournal, Report
  <2>4. RefusedIsGone'
    BY <1>0, <1>24 DEF FailJournal, Report
  <2> QED BY <2>1, <2>2, <2>3, <2>4
<1>25. CASE CreateClean
  <2>1. StepOfKind'
    BY <1>0, <1>25 DEF CreateClean, Unlinks, Report, Kinds
  <2>2. SavesAreOwn'
    BY <1>25 DEF CreateClean, Unlinks, Report
  <2>3. UnlinkedBefore'
    BY <1>0, <1>25 DEF CreateClean, Unlinks, Report
  <2>4. RefusedIsGone'
    BY <1>0, <1>25 DEF CreateClean, Unlinks, Report
  <2> QED BY <2>1, <2>2, <2>3, <2>4
<1>26. CASE RemoveCapture
  <2>1. StepOfKind'
    BY <1>0, <1>26 DEF RemoveCapture, Report, Kinds
  <2>2. SavesAreOwn'
    BY <1>26 DEF RemoveCapture, Report
  <2>3. UnlinkedBefore'
    BY <1>0, <1>26 DEF RemoveCapture, Report
  <2>4. RefusedIsGone'
    BY <1>0, <1>26 DEF RemoveCapture, Report
  <2> QED BY <2>1, <2>2, <2>3, <2>4
<1>27. CASE RemoveVerify
  <2>1. StepOfKind'
    BY <1>0, <1>27 DEF RemoveVerify, Goto, Report, Kinds
  <2>2. SavesAreOwn'
    BY <1>27 DEF RemoveVerify, Goto, Report
  <2>3. UnlinkedBefore'
    BY <1>0, <1>27 DEF RemoveVerify, Goto, Report
  <2>4. RefusedIsGone'
    BY <1>0, <1>27 DEF RemoveVerify, Goto, Report
  <2> QED BY <2>1, <2>2, <2>3, <2>4
<1>28. CASE RemoveRename
  <2>1. StepOfKind'
    BY <1>0, <1>28 DEF RemoveRename, Goto, Report, Kinds
  <2>2. SavesAreOwn'
    BY <1>28 DEF RemoveRename, Goto, Report
  <2>3. UnlinkedBefore'
    BY <1>0, <1>28 DEF RemoveRename, Goto, Report
  <2>4. RefusedIsGone'
    BY <1>0, <1>28 DEF RemoveRename, Goto, Report
  <2> QED BY <2>1, <2>2, <2>3, <2>4
<1>29. CASE RemoveCheck
  <2>1. StepOfKind'
    BY <1>0, <1>29 DEF RemoveCheck, Report, Kinds
  <2>2. SavesAreOwn'
    BY <1>29 DEF RemoveCheck, Report
  <2>3. UnlinkedBefore'
    BY <1>0, <1>29 DEF RemoveCheck, Report
  <2>4. RefusedIsGone'
    BY <1>0, <1>29 DEF RemoveCheck, Report
  <2> QED BY <2>1, <2>2, <2>3, <2>4
<1> QED BY <1>1, <1>2, <1>3, <1>4, <1>5, <1>6, <1>7, <1>8, <1>9, <1>10, <1>11, <1>12, <1>13, <1>14, <1>15, <1>16, <1>17, <1>18, <1>19, <1>20, <1>21, <1>22, <1>23, <1>24, <1>25, <1>26, <1>27, <1>28, <1>29 DEF Step

LEMMA OthersKeepRefusal ==
  ASSUME RecoveryInv, RefusalInv,
         \/ CreateLink \/ RemoveUnlink
         \/ Client \/ External \/ Crash \/ Serve \/ RecoveryMoves
         \/ UNCHANGED allVars
  PROVE  RefusalInv'
<1> USE Shapes DEF RefusalInv, StepOfKind, StepsOf, SavesAreOwn, UnlinkedBefore, Unlinked, RefusedIsGone,
      Refusals, LinkedSteps, CommitSteps, disk, caller, server
<1>0. \A a \in Ops : request[a].kind \in Kinds /\ ~(a > a)
  BY DEF Request
<1>1. CASE CreateLink
  BY <1>0, <1>1 DEF CreateLink, Kinds
<1>2. CASE RemoveUnlink
  BY <1>0, <1>2 DEF RemoveUnlink, Unlinks, Report
<1>3. CASE Load
  BY <1>3 DEF Load
<1>4. ASSUME NEW kind \in Callers \ {"remove"}, NEW c \in Saves, OpenTemp(kind, c)
      PROVE  RefusalInv'
  <2>1. op + 1 \in Ops /\ op' = op + 1 /\ pc' = "write_temp" /\ kind \in {"replace", "create"}
    BY <1>4, CallersAssumption, BoundsAssumption DEF OpenTemp, Enters, Ops, Kinds
  <2>2. StepOfKind'
    BY <1>4, <2>1 DEF OpenTemp, Enters
  <2>3. SavesAreOwn'
    BY <1>4, <2>1 DEF OpenTemp, Enters
  <2>4. /\ op \in Nat /\ UNCHANGED <<target, staged>>
        /\ outcome' = [outcome EXCEPT ![op + 1] = "running"]
        /\ \A a \in Ops : a # op + 1 => save'[a] = save[a]
    BY <1>4, BoundsAssumption DEF OpenTemp, Enters
  <2>5. \A a \in Ops : Unlinked(a)' <=> Unlinked(a)
    BY <2>4
  <2>6. \A a \in Ops : (a >= op + 1 => a > op) /\ (a <= op => a <= op + 1 /\ a # op + 1)
    BY <2>4
  <2>7. UnlinkedBefore'
    <3>1. \A a \in Ops : a > op' => target' # a /\ \A b \in Ops : staged'[b] # a
      BY <2>1, <2>4, <2>6
    <3>2. target' # op' /\ \A b \in Ops : staged'[b] # op'
      BY <2>1, <2>4, <2>6
    <3> QED BY <2>1, <3>1, <3>2
  <2>8. ASSUME NEW a \in Ops, outcome'[a] \in Refusals
        PROVE  (a <= op /\ Unlinked(a) /\ save[a] = None)'
    <3>1. outcome[a] \in Refusals /\ a # op + 1
      BY <2>1, <2>4, <2>8
    <3> QED BY <2>1, <2>4, <2>5, <2>6, <3>1
  <2>9. RefusedIsGone'
    BY <2>8
  <2> QED BY <2>2, <2>3, <2>7, <2>9
<1>5. CASE BeginRemove
  <2>1. op + 1 \in Ops /\ op' = op + 1 /\ pc' = "remove_capture"
    BY <1>5, BoundsAssumption DEF BeginRemove, Enters, Ops
  <2>2. StepOfKind'
    BY <1>5, <2>1 DEF BeginRemove, Enters
  <2>3. SavesAreOwn'
    BY <1>5, <2>1 DEF BeginRemove, Enters
  <2>4. /\ op \in Nat /\ UNCHANGED <<target, staged>>
        /\ outcome' = [outcome EXCEPT ![op + 1] = "running"]
        /\ \A a \in Ops : a # op + 1 => save'[a] = save[a]
    BY <1>5, BoundsAssumption DEF BeginRemove, Enters
  <2>5. \A a \in Ops : Unlinked(a)' <=> Unlinked(a)
    BY <2>4
  <2>6. \A a \in Ops : (a >= op + 1 => a > op) /\ (a <= op => a <= op + 1 /\ a # op + 1)
    BY <2>4
  <2>7. UnlinkedBefore'
    <3>1. \A a \in Ops : a > op' => target' # a /\ \A b \in Ops : staged'[b] # a
      BY <2>1, <2>4, <2>6
    <3>2. target' # op' /\ \A b \in Ops : staged'[b] # op'
      BY <2>1, <2>4, <2>6
    <3> QED BY <2>1, <3>1, <3>2
  <2>8. ASSUME NEW a \in Ops, outcome'[a] \in Refusals
        PROVE  (a <= op /\ Unlinked(a) /\ save[a] = None)'
    <3>1. outcome[a] \in Refusals /\ a # op + 1
      BY <2>1, <2>4, <2>8
    <3> QED BY <2>1, <2>4, <2>5, <2>6, <3>1
  <2>9. RefusedIsGone'
    BY <2>8
  <2> QED BY <2>2, <2>3, <2>7, <2>9
<1>6. CASE External
  <2>1. \/ target' = target \/ target' = None
        \/ target' = MaxOps + external' /\ external' = external + 1
    BY <1>6 DEF External, ExternalReplace, ExternalWrite, ExternalDelete, ExternalOpen, Outside
  <2>2. UNCHANGED <<server, caller, save, staged>>
    BY <1>6 DEF External, ExternalReplace, ExternalWrite, ExternalDelete, ExternalOpen, Outside
  <2>3. external \in Nat
    BY DEF RecoveryInv, TypeOK, AtomicTextTypeOK
  <2>4. \A a \in Ops : target # a => target' # a
    BY <2>1, <2>3, BoundsAssumption, NoneIsNoInode DEF Ops
  <2> QED BY <2>2, <2>4
<1>7. CASE Crash
  BY <1>7 DEF Crash
<1>8. CASE Serve
  BY <1>8 DEF Serve
<1>9. CASE RecoveryMoves
  <2>1. \A a \in Ops : Unlinked(a) /\ save[a] = None => Unlinked(a)' /\ save'[a] = None
    BY <1>9 DEF RecoveryMoves
  <2>2. pc' \notin CommitSteps
    BY <1>9 DEF RecoveryMoves, RecoverySteps
  <2> QED BY <1>9, <2>1, <2>2 DEF RecoveryMoves
<1>10. CASE UNCHANGED allVars
  BY <1>10 DEF allVars, vars
<1> QED BY <1>1, <1>2, <1>3, <1>4, <1>5, <1>6, <1>7, <1>8, <1>9, <1>10 DEF Client, Begin

THEOREM RefusalInvariant == Spec => []RefusalInv
<1>1. Init => RefusalInv
  BY NoneIsNoInode DEF Init, AtomicTextInit, RefusalInv, StepOfKind, SavesAreOwn, UnlinkedBefore, Unlinked,
     RefusedIsGone, Refusals, LinkedSteps, Ops
<1>2. RecoveryInv /\ RefusalInv /\ [Next]_allVars => RefusalInv'
  BY StepKeepsRefusal, OthersKeepRefusal, RecoveryMovesOrServes DEF Next, Commit
<1> QED BY <1>1, <1>2, Invariant, PTL DEF Spec

(* replaceTextAtomically and createTextExclusive: the bytes of a save that *)
(* was refused never show up at the path, whatever external writers do and *)
(* whichever call fails or is the last before a crash.                     *)
THEOREM RefusedNeverLands == Spec => []RefusedStaysRefused
<1>1. RefusalInv => RefusedStaysRefused
  BY DEF RefusalInv, RefusedIsGone, Unlinked, RefusedStaysRefused
<1> QED BY <1>1, RefusalInvariant, PTL


-----------------------------------------------------------------------------
(* No edit is lost: without removals and failing calls a generation is     *)
(* only unlinked once it is known to be replaced, visible or given up.     *)

(* A staged file that recovery or an operation finds is one of an          *)
(* operation that was started.                                             *)
LEMMA StagedIsStarted ==
  ASSUME RecoveryInv, EditInv, NEW a \in Ops, staged[a] # None
  PROVE  outcome[a] # "unstarted"
<1>1. a <= op
  BY Shapes DEF RecoveryInv, StagedLater
<1> QED BY <1>1 DEF EditInv, Started

NothingLost == \A i \in Generations \ Generations' : content[i] \in Based \/ i \in forfeit

LEMMA GenerationsStay ==
  ASSUME staged' = staged, target' = target \/ target = None
  PROVE  Generations \subseteq Generations' /\ NothingLost
  BY DEF Generations, NothingLost

LEMMA GenerationGoes ==
  ASSUME RecoveryInv, EditInv, NEW a \in Ops, Replaced(a),
         target' = target, staged' = [staged EXCEPT ![a] = None]
  PROVE  NothingLost
<1> SUFFICES ASSUME NEW i \in Generations \ Generations'
             PROVE  content[i] \in Based \/ i \in forfeit
  BY DEF NothingLost
<1>1. i # target /\ i # None
  BY DEF Generations
<1>2. \A b \in Ops \ {a} : staged[b] # i
  BY <1>1, Shapes DEF Generations
<1>3. i = staged[a] /\ staged[a] # None
  BY <1>1, <1>2 DEF Generations
<1>4. CASE content[i] = request[a].expected
  BY <1>3, <1>4, StagedIsStarted DEF Based
<1>5. CASE HasName(i)
  BY <1>1, <1>5 DEF HasName
<1> QED BY <1>3, <1>4, <1>5 DEF Replaced, Shown


(* Only saves: none of the steps of a removal is ever taken, and neither    *)
(* is the way out of a restore whose link failed.                          *)
LEMMA OnlySavesStep ==
  ASSUME RecoveryInv, RefusalInv, EditInv, pc \in CommitSteps \ {"idle"}
  PROVE  /\ op \in Ops /\ request[op].kind \in {"replace", "create"}
         /\ pc \notin {"remove_capture", "remove_verify", "remove_rename", "remove_check",
                       "remove_final", "remove_unlink", "restore_stat", "restore_rename"}
         /\ pc \notin {"write_temp", "create_link", "create_clean"} => request[op].kind = "replace"
<1>1. op \in Ops /\ request[op].kind \in Kinds
  BY Shapes
<1>2. request[op].kind \in {"replace", "create"}
  BY <1>1 DEF EditInv, OnlySaves
<1>3. pc \in StepsOf(request[op].kind) /\ pc \notin {"restore_stat", "restore_rename"}
  BY DEF RefusalInv, StepOfKind, EditInv, OnlySaves
<1> QED BY <1>1, <1>2, <1>3 DEF StepsOf

(* A call of an operation unlinks nothing but what StagedMayGo speaks of. *)
LEMMA StepLosesNothing ==
  ASSUME RecoveryInv, RefusalInv, EditInv, Step \/ CreateLink \/ RemoveUnlink
  PROVE  NothingLost
<1>1. CASE WriteTemp
  BY <1>1, GenerationsStay DEF WriteTemp, Goto
<1>2. CASE OpenJournal
  BY <1>2, GenerationsStay DEF OpenJournal, Goto
<1>3. CASE WriteJournal
  BY <1>3, GenerationsStay DEF WriteJournal, Goto
<1>4. CASE Capture
  BY <1>4, GenerationsStay DEF Capture
<1>5. CASE VerifyOwner
  BY <1>5, GenerationsStay DEF VerifyOwner, Goto, Fail
<1>6. CASE VerifyBytes
  BY <1>6, GenerationsStay DEF VerifyBytes, Goto
<1>7. CASE Link
  BY <1>7, GenerationsStay DEF Link, Goto
<1>8. CASE LinkFails
  BY <1>8, GenerationsStay DEF LinkFails
<1>9. CASE RestoreLink
  BY <1>9, GenerationsStay DEF RestoreLink, EndRestore, Goto, Report
<1>10. CASE RestoreLinkFails
  BY <1>10, GenerationsStay DEF RestoreLinkFails, Goto
<1>11. CASE FinalCheck
  BY <1>11, GenerationsStay DEF FinalCheck, Goto
<1>12. CASE Mark
  BY <1>12, GenerationsStay DEF Mark, Goto
<1>13. CASE MarkFails
  BY <1>13, GenerationsStay DEF MarkFails, Goto
<1>14. CASE MarkTemp
  BY <1>14, GenerationsStay DEF MarkTemp, Unlinks, Report
<1>15. CASE CleanTemp
  BY <1>15, GenerationsStay DEF CleanTemp, Unlinks, Goto
<1>16. CASE CleanJournal
  BY <1>16, GenerationsStay DEF CleanJournal, Report
<1>17. CASE FailTemp
  BY <1>17, GenerationsStay DEF FailTemp, Unlinks, Goto
<1>18. CASE FailJournal
  BY <1>18, GenerationsStay DEF FailJournal, Report
<1>19. CASE CreateClean
  BY <1>19, GenerationsStay DEF CreateClean, Unlinks, Report
<1>20. CASE Takeover
  <2>1. staged[op] = None /\ op \in Ops
    BY <1>20, Shapes DEF Takeover, RecoveryInv, StagedLater
  <2>2. target = None => UNCHANGED <<target, staged>>
    BY <1>20 DEF Takeover, Reads
  <2>3. target # None => target' = None /\ staged' = [staged EXCEPT ![op] = target]
    BY <1>20 DEF Takeover
  <2>4. Generations \subseteq Generations'
    BY <2>1, <2>2, <2>3, Shapes DEF Generations
  <2> QED BY <2>4 DEF NothingLost
<1>21. CASE DropStaged
  <2>1. op \in Ops /\ Replaced(op)
    BY <1>21, Shapes DEF DropStaged, EditInv, StagedMayGo, Shown, Replaced
  <2> QED BY <1>21, <2>1, GenerationGoes DEF DropStaged, Unlinks
<1>22. CASE RestoreClean
  <2>1. op \in Ops /\ Replaced(op)
    BY <1>22, Shapes DEF RestoreClean, EditInv, StagedMayGo, Shown, Replaced
  <2> QED BY <1>22, <2>1, GenerationGoes DEF RestoreClean, Unlinks
<1>23. CASE CleanStaged
  <2>1. op \in Ops /\ Replaced(op)
    BY <1>23, Shapes DEF CleanStaged, EditInv, StagedMayGo, Shown, Replaced
  <2> QED BY <1>23, <2>1, GenerationGoes DEF CleanStaged, Unlinks
<1>24. CASE CreateLink
  BY <1>24, GenerationsStay DEF CreateLink
<1>25. CASE RestoreStat \/ RestoreRename \/ RemoveCapture \/ RemoveVerify \/ RemoveRename \/ RemoveCheck
           \/ RemoveUnlink
  BY <1>25, OnlySavesStep DEF RestoreStat, RestoreRename, RemoveCapture, RemoveVerify, RemoveRename,
     RemoveCheck, RemoveUnlink
<1> QED BY <1>1, <1>2, <1>3, <1>4, <1>5, <1>6, <1>7, <1>8, <1>9, <1>10, <1>11, <1>12, <1>13, <1>14, <1>15, <1>16, <1>17, <1>18, <1>19, <1>20, <1>21, <1>22, <1>23, <1>24, <1>25 DEF Step

LEMMA StepKeepsEdit ==
  ASSUME RecoveryInv, RefusalInv, EditInv, MaxFaults = 0, Step \/ CreateLink \/ RemoveUnlink,
         UNCHANGED outside, UNCHANGED recoveryVars
  PROVE  EditInv'
<1> USE Shapes DEF EditInv, OnlySaves, Started, StagedMayGo, HasName, Shown, Replaced
<1>0. faults = 0 /\ verdict \in Verdicts /\ verdict # "unstarted"
  BY DEF RecoveryInv, TypeOK, AtomicTextTypeOK
<1>1. CASE WriteTemp
  BY <1>1 DEF WriteTemp, Goto
<1>2. CASE OpenJournal
  BY <1>2 DEF OpenJournal, Goto
<1>3. CASE WriteJournal
  BY <1>3 DEF WriteJournal, Goto
<1>4. CASE Capture
  BY <1>4 DEF Capture
<1>5. CASE Takeover
  BY <1>5 DEF Takeover, Reads, Goto, Fail
<1>6. CASE VerifyOwner
  BY <1>6 DEF VerifyOwner, Goto, Fail
<1>7. CASE VerifyBytes
  BY <1>7 DEF VerifyBytes, Goto
<1>8. CASE Link
  BY <1>8 DEF Link, Goto
<1>9. CASE LinkFails
  BY <1>0, <1>9 DEF LinkFails
<1>10. CASE DropStaged
  BY <1>10 DEF DropStaged, Unlinks, Goto
<1>11. CASE RestoreLink
  BY <1>0, <1>11, OnlySavesStep DEF RestoreLink, EndRestore, Goto, Report
<1>12. CASE RestoreLinkFails
  BY <1>0, <1>12 DEF RestoreLinkFails, Goto
<1>13. CASE RestoreClean
  BY <1>0, <1>13, OnlySavesStep DEF RestoreClean, Unlinks, EndRestore, Goto, Report
<1>14. CASE FinalCheck
  BY <1>14 DEF FinalCheck, Goto
<1>15. CASE Mark
  BY <1>15 DEF Mark, Goto
<1>16. CASE MarkFails
  BY <1>0, <1>16 DEF MarkFails, Goto
<1>17. CASE MarkTemp
  BY <1>0, <1>17 DEF MarkTemp, Unlinks, Report
<1>18. CASE CleanTemp
  BY <1>18 DEF CleanTemp, Unlinks, Goto
<1>19. CASE CleanStaged
  BY <1>19 DEF CleanStaged, Unlinks, Goto
<1>20. CASE CleanJournal
  BY <1>0, <1>20 DEF CleanJournal, Report
<1>21. CASE FailTemp
  BY <1>21 DEF FailTemp, Unlinks, Goto
<1>22. CASE FailJournal
  BY <1>0, <1>22 DEF FailJournal, Report
<1>23. CASE CreateClean
  BY <1>0, <1>23 DEF CreateClean, Unlinks, Report
<1>24. CASE CreateLink
  BY <1>24 DEF CreateLink
<1>25. CASE RestoreStat \/ RestoreRename \/ RemoveCapture \/ RemoveVerify \/ RemoveRename \/ RemoveCheck
           \/ RemoveUnlink
  BY <1>25, OnlySavesStep DEF RestoreStat, RestoreRename, RemoveCapture, RemoveVerify, RemoveRename,
     RemoveCheck, RemoveUnlink
<1> QED BY <1>1, <1>2, <1>3, <1>4, <1>5, <1>6, <1>7, <1>8, <1>9, <1>10, <1>11, <1>12, <1>13, <1>14, <1>15, <1>16, <1>17, <1>18, <1>19, <1>20, <1>21, <1>22, <1>23, <1>24, <1>25 DEF Step

(* A client's request, a crash and an external writer. *)
LEMMA OthersKeepEdit ==
  ASSUME RecoveryInv, EditInv, "remove" \notin Callers,
         \/ Client /\ UNCHANGED pass
         \/ External /\ UNCHANGED pass
         \/ Crash
         \/ UNCHANGED allVars
  PROVE  /\ EditInv'
         /\ external' = external => Generations \subseteq Generations'
<1> USE Shapes DEF EditInv, OnlySaves, Started, StagedMayGo, HasName, Shown, Replaced
<1>1. ASSUME NEW kind \in Callers \ {"remove"}, NEW c \in Saves, OpenTemp(kind, c), UNCHANGED pass
      PROVE  EditInv' /\ Generations \subseteq Generations'
  <2>1. op + 1 \in Ops /\ op' = op + 1 /\ pc' = "write_temp" /\ UNCHANGED <<target, staged, orphans>>
    BY <1>1 DEF OpenTemp, Enters
  <2>2. /\ request' = [request EXCEPT ![op + 1] = [kind |-> kind, expected |-> base, replacement |-> c]]
        /\ outcome' = [outcome EXCEPT ![op + 1] = "running"]
    BY <1>1 DEF OpenTemp, Enters
  <2>3. OnlySaves'
    BY <2>1, <2>2
  <2>4. Started'
    <3>1. \A a \in Ops : a <= op + 1 => a <= op \/ a = op + 1
      BY DEF RecoveryInv, TypeOK, AtomicTextTypeOK
    <3> QED BY <2>1, <2>2, <3>1
  <2>5. StagedMayGo'
    BY <2>1
  <2> QED BY <2>1, <2>3, <2>4, <2>5, GenerationsStay
<1>2. ASSUME Load, UNCHANGED <<outside, pass>>
      PROVE  EditInv' /\ Generations \subseteq Generations'
  BY <1>2, GenerationsStay DEF Load
<1>3. ASSUME NEW c \in Edits, ExternalReplace(c), UNCHANGED pass
      PROVE  EditInv'
  <2>1. UNCHANGED <<pc, op, request, outcome, staged>>
    BY <1>3 DEF ExternalReplace, Outside
  <2>2. \A i \in Inodes : HasName(i) => HasName(i)'
    BY <1>3 DEF ExternalReplace
  <2>3. \A i \in Inodes : content'[i] = content[i] \/ HasName(i)'
    BY <1>3 DEF ExternalReplace
  <2>4. \A a \in Ops : (Replaced(a) => Replaced(a)') /\ (Shown(a) => Shown(a)')
    BY <2>1, <2>2, <2>3
  <2>5. /\ pc \in {"link", "drop_staged", "clean_temp", "clean_staged", "restore_clean"} => op \in Ops
        /\ pc \in {"recover_link", "recover_drop_staged", "drop_save", "recover_restored",
                   "orphan_restored"} => item \in Ops
    BY DEF RecoveryInv, RegistersNamed
  <2>6. OnlySaves' /\ Started'
    BY <1>3, <2>1
  <2>7. StagedMayGo'
    <3> HIDE DEF Replaced, Shown
    <3>1. UNCHANGED <<pc, op, item, plan>>
      BY <1>3, <2>1
    <3> QED BY <2>4, <2>5, <3>1
  <2> QED BY <2>6, <2>7
<1>4. ASSUME NEW c \in Edits, ExternalWrite(c), UNCHANGED pass
      PROVE  EditInv'
  BY <1>4 DEF ExternalWrite, Outside, CheckedSteps
<1>5. CASE ExternalDelete /\ UNCHANGED pass
  BY <1>5 DEF ExternalDelete, Outside
<1>6. CASE ExternalOpen /\ UNCHANGED pass
  BY <1>6, GenerationsStay DEF ExternalOpen
<1>7. CASE Crash
  BY <1>7, GenerationsStay DEF Crash, ForgetPass
<1>8. CASE UNCHANGED allVars
  BY <1>8, GenerationsStay
<1>9. External /\ UNCHANGED pass => EditInv' /\ (external' = external => Generations \subseteq Generations')
  <2>1. External /\ external' = external => ExternalOpen
    BY DEF External, ExternalReplace, ExternalWrite, ExternalDelete, Outside, RecoveryInv, TypeOK, AtomicTextTypeOK
  <2> QED BY <1>3, <1>4, <1>5, <1>6, <2>1 DEF External
<1> QED BY <1>1, <1>2, <1>7, <1>8, <1>9 DEF Client, Begin

(* Recovery.  Only the decisions, and what they read, are left to look at. *)
LEMMA MovesKeepEdit ==
  ASSUME RecoveryInv, EditInv, RecoveryMoves, StagedMayGo', \A x \in orphans' : x[1] # 2
  PROVE  EditInv'
<1>1. OnlySaves'
  BY DEF RecoveryMoves, EditInv, OnlySaves
<1>2. Started'
  BY DEF RecoveryMoves, EditInv, Started
<1> QED BY <1>1, <1>2 DEF EditInv

LEMMA SettlesKeepEdit ==
  ASSUME RecoveryInv, EditInv, NEW a \in Ops,
         \/ SettleUnstarted(a) \/ SettleLanded(a) \/ SettleOccupied(a)
         \/ SettleInterrupted(a) \/ SettlePending(a) \/ SettleRetained(a)
  PROVE  EditInv' /\ NothingLost
<1>1. ASSUME NEW calls, NEW reports, Settle(a, calls, reports), RecoveryMoves,
             \/ calls \in {<<>>, <<"drop_journal">>, <<"postcommit">>, <<"manual">>, <<"recover_restore">>}
             \/ calls = <<"drop_save", "drop_journal">>
             \/ calls = <<"pending", "pending_rename", "manual">>
             \/ calls = <<"pending_rename", "manual">>
             \/ /\ \/ calls = <<"recover_drop_staged", "drop_save", "drop_journal">>
                   \/ calls = <<"recover_link", "drop_save", "recover_drop_staged", "drop_journal">>
                /\ content[staged[a]] = request[a].expected
      PROVE  EditInv' /\ NothingLost
  <2>1. UNCHANGED <<staged, target, orphans, content, request>> /\ item' = a /\ Follow(calls)
    BY <1>1 DEF Settle, Recovering
  <2>2. \/ pc' \in {"journals", "drop_journal", "postcommit", "pending", "manual",
                    "pending_rename", "recover_restore"}
        \/ pc' = "drop_save" /\ plan' = <<"drop_journal">>
        \/ pc' \in {"recover_link", "recover_drop_staged"} /\ content[staged[a]] = request[a].expected
    BY <1>1, <2>1, FollowCalls
  <2>3. StagedMayGo'
    BY <2>1, <2>2 DEF StagedMayGo, Replaced
  <2> QED BY <1>1, <2>1, <2>3, MovesKeepEdit, GenerationsStay DEF EditInv, OnlySaves
<1>2. CASE SettleUnstarted(a)
  BY <1>1, <1>2, SettlesMove DEF SettleUnstarted
<1>3. CASE SettleLanded(a)
  BY <1>1, <1>3, SettlesMove DEF SettleLanded
<1>4. CASE SettleOccupied(a)
  BY <1>1, <1>4, SettlesMove DEF SettleOccupied, QuarantineSave
<1>5. CASE SettleInterrupted(a)
  BY <1>1, <1>5, SettlesMove DEF SettleInterrupted, BothIntact
<1>6. CASE SettlePending(a)
  BY <1>1, <1>6, SettlesMove DEF SettlePending
<1>7. CASE SettleRetained(a)
  BY <1>1, <1>7, SettlesMove DEF SettleRetained
<1> QED BY <1>2, <1>3, <1>4, <1>5, <1>6, <1>7

LEMMA CallsKeepEdit ==
  ASSUME RecoveryInv, EditInv,
         \/ DropSave \/ DropStagedBytes \/ DropJournal \/ RewritePhase \/ RenameSave
         \/ CompleteCommit \/ CompleteCommitFails \/ RestoreOld \/ RestoreOldFails
         \/ RestoredOld \/ AfterRestore
  PROVE  EditInv' /\ NothingLost
<1> USE DEF Call, Recovering
<1>1. CallsLeft /\ FilesHeld /\ RecoveryMoves
  BY CallsMove DEF RecoveryInv
<1>2. (\A x \in orphans : x[1] # 2) /\ StagedMayGo
  BY DEF EditInv, OnlySaves
<1>3. CASE DropSave
  <2>1. \/ pc' = "drop_journal"
        \/ pc' = "recover_drop_staged" /\ plan = <<"recover_drop_staged", "drop_journal">>
    BY <1>1, <1>3, FollowCalls DEF DropSave, CallsLeft
  <2>2. UNCHANGED <<target, staged, orphans, item, content, request, forfeit>>
    BY <1>3 DEF DropSave
  <2>3. StagedMayGo'
    BY <1>2, <1>3, <2>1, <2>2 DEF DropSave, StagedMayGo, Replaced, Shown, HasName
  <2> QED BY <1>1, <1>2, <2>2, <2>3, MovesKeepEdit, GenerationsStay
<1>4. CASE DropStagedBytes
  <2>1. item \in Ops /\ Replaced(item)
    BY <1>2, <1>4 DEF DropStagedBytes, RecoveryInv, RegistersNamed, StagedMayGo, Replaced
  <2>2. \/ pc' = "drop_journal" /\ plan' = <<>>
        \/ pc' = "drop_save" /\ plan' = <<"drop_journal">>
    BY <1>1, <1>4, FollowCalls, FollowPlan DEF DropStagedBytes
  <2>3. StagedMayGo'
    BY <2>2 DEF StagedMayGo
  <2>4. orphans' = orphans /\ NothingLost
    BY <1>4, <2>1, GenerationGoes DEF DropStagedBytes
  <2> QED BY <1>1, <1>2, <2>3, <2>4, MovesKeepEdit
<1>5. CASE DropJournal
  <2>1. pc' \in {"journals"}
    BY <1>1, <1>5, FollowCalls, FollowPlan DEF DropJournal
  <2>2. StagedMayGo'
    BY <2>1 DEF StagedMayGo
  <2>3. UNCHANGED <<target, staged, orphans>>
    BY <1>5 DEF DropJournal
  <2> QED BY <1>1, <1>2, <2>2, <2>3, MovesKeepEdit, GenerationsStay
<1>6. CASE RewritePhase
  <2>1. pc' \in {"journals", "pending_rename"}
    BY <1>1, <1>6, FollowCalls, FollowPlan DEF RewritePhase, Rewrite
  <2>2. StagedMayGo'
    BY <2>1 DEF StagedMayGo
  <2>3. UNCHANGED <<target, staged, orphans>>
    BY <1>6 DEF RewritePhase, Rewrite
  <2> QED BY <1>1, <1>2, <2>2, <2>3, MovesKeepEdit, GenerationsStay
<1>7. CASE RenameSave
  <2>1. pc' \in {"manual"}
    BY <1>1, <1>7, FollowCalls, FollowPlan DEF RenameSave
  <2>2. StagedMayGo'
    BY <2>1 DEF StagedMayGo
  <2>3. UNCHANGED <<target, staged, orphans>>
    BY <1>7 DEF RenameSave
  <2> QED BY <1>1, <1>2, <2>2, <2>3, MovesKeepEdit, GenerationsStay
<1>8. CASE CompleteCommit
  <2>1. item \in Ops /\ staged[item] # None
    BY <1>1, <1>8 DEF CompleteCommit, RecoveryInv, RegistersNamed, FilesHeld
  <2>2. \/ pc' = "recover_restore"
        \/ pc' = "drop_save" /\ target = None
    BY <1>1, <1>8, FollowCalls, FollowPlan DEF CompleteCommit
  <2>3. UNCHANGED <<staged, orphans, item, content, request, forfeit>> /\ (target' = target \/ target = None)
    BY <1>8 DEF CompleteCommit
  <2>4. StagedMayGo'
    BY <1>2, <1>8, <2>1, <2>2, <2>3 DEF CompleteCommit, StagedMayGo, Replaced, Shown, HasName
  <2> QED BY <1>1, <1>2, <2>3, <2>4, MovesKeepEdit, GenerationsStay
<1>9. CASE CompleteCommitFails
  <2>1. pc' \in {"journals"}
    BY <1>1, <1>9, FollowCalls, FollowPlan DEF CompleteCommitFails
  <2>2. StagedMayGo'
    BY <2>1 DEF StagedMayGo
  <2>3. UNCHANGED <<target, staged, orphans>>
    BY <1>9 DEF CompleteCommitFails
  <2> QED BY <1>1, <1>2, <2>2, <2>3, MovesKeepEdit, GenerationsStay
<1>10. CASE RestoreOld
  <2>1. \/ pc' = "recover_rest"
        \/ pc' = "recover_restored" /\ target' = staged[item]
    BY <1>1, <1>10, FollowCalls DEF RestoreOld
  <2>2. UNCHANGED <<staged, orphans, item>> /\ (target' = target \/ target = None)
    BY <1>10 DEF RestoreOld
  <2>3. StagedMayGo'
    BY <2>1, <2>2 DEF StagedMayGo, Shown, HasName
  <2> QED BY <1>1, <1>2, <2>2, <2>3, MovesKeepEdit, GenerationsStay
<1>11. CASE RestoreOldFails
  <2>1. pc' \in {"recover_rest"}
    BY <1>1, <1>11, FollowCalls, FollowPlan DEF RestoreOldFails
  <2>2. StagedMayGo'
    BY <2>1 DEF StagedMayGo
  <2>3. UNCHANGED <<target, staged, orphans>>
    BY <1>11 DEF RestoreOldFails
  <2> QED BY <1>1, <1>2, <2>2, <2>3, MovesKeepEdit, GenerationsStay
<1>12. CASE RestoredOld
  <2>1. item \in Ops /\ Replaced(item)
    BY <1>2, <1>12 DEF RestoredOld, RecoveryInv, RegistersNamed, StagedMayGo, Replaced
  <2>2. pc' = "recover_rest" /\ plan' = <<>>
    BY <1>1, <1>12, FollowCalls, FollowPlan DEF RestoredOld
  <2>3. StagedMayGo'
    BY <2>2 DEF StagedMayGo
  <2>4. orphans' = orphans /\ NothingLost
    BY <1>12, <2>1, GenerationGoes DEF RestoredOld
  <2> QED BY <1>1, <1>2, <2>3, <2>4, MovesKeepEdit
<1>13. CASE AfterRestore
  <2>1. pc' \in {"pending", "manual", "drop_journal"}
    BY <1>1, <1>13, FollowCalls, FollowPlan DEF AfterRestore, QuarantineSave
  <2>2. StagedMayGo'
    BY <2>1 DEF StagedMayGo
  <2>3. UNCHANGED <<target, staged, orphans>>
    BY <1>13 DEF AfterRestore
  <2> QED BY <1>1, <1>2, <2>2, <2>3, MovesKeepEdit, GenerationsStay
<1> QED BY <1>3, <1>4, <1>5, <1>6, <1>7, <1>8, <1>9, <1>10, <1>11, <1>12, <1>13

LEMMA OrphansKeepEdit ==
  ASSUME RecoveryInv, EditInv, NEW a \in Ops,
         \/ \E rank \in 1 .. 3 : OrphanGone(rank, a)
         \/ \E rank \in 1 .. 2 : OrphanRestored(rank, a) \/ OrphanRestoreFails(rank, a)
         \/ OrphanStagedKept(a) \/ OrphanRemoved(a) \/ OrphanSave(a)
  PROVE  EditInv' /\ NothingLost
<1> USE DEF Judge, Recovering
<1>1. RecoveryMoves
  BY OrphansMove
<1>2. ~OrphanRemoved(a)
  BY DEF OrphanRemoved, EditInv, OnlySaves
<1>3. \A x \in orphans' : x[1] # 2
  BY <1>2 DEF OrphanGone, OrphanRestored, OrphanRestoreFails, OrphanStagedKept, OrphanSave, EditInv, OnlySaves
<1>4. CASE \E rank \in 1 .. 2 : OrphanRestored(rank, a)
  <2>1. StagedMayGo'
    BY <1>4 DEF OrphanRestored, StagedMayGo, Shown, HasName
  <2>2. staged' = staged /\ target = None
    BY <1>4 DEF OrphanRestored
  <2> QED BY <1>1, <1>3, <2>1, <2>2, MovesKeepEdit, GenerationsStay
<1>5. CASE ~\E rank \in 1 .. 2 : OrphanRestored(rank, a)
  <2>1. pc' = "orphans" /\ UNCHANGED <<target, staged>>
    BY <1>2, <1>5 DEF OrphanGone, OrphanRestoreFails, OrphanStagedKept, OrphanSave
  <2>2. StagedMayGo'
    BY <2>1 DEF StagedMayGo
  <2> QED BY <1>1, <1>3, <2>1, <2>2, MovesKeepEdit, GenerationsStay
<1> QED BY <1>4, <1>5

LEMMA PassesKeepEdit ==
  ASSUME RecoveryInv, EditInv,
         Restart \/ ListDirectory \/ JournalsSettled \/ NextPass \/ OrphanUnstaged
  PROVE  EditInv' /\ NothingLost
<1>1. RecoveryMoves
  BY PassesMove
<1>2. CASE OrphanUnstaged
  <2>1. pc' = "orphans" /\ orphans' = orphans
    BY <1>2 DEF OrphanUnstaged
  <2>2. StagedMayGo'
    BY <2>1 DEF StagedMayGo
  <2>3. item \in Ops /\ Replaced(item)
    BY <1>2 DEF OrphanUnstaged, RecoveryInv, RegistersNamed, EditInv, StagedMayGo, Replaced
  <2>4. NothingLost
    BY <1>2, <2>3, GenerationGoes DEF OrphanUnstaged
  <2> QED BY <1>1, <2>1, <2>2, <2>4, MovesKeepEdit DEF EditInv, OnlySaves
<1>3. CASE Restart \/ ListDirectory \/ JournalsSettled \/ NextPass
  <2>1. pc' \in {"list", "journals", "orphans"} /\ UNCHANGED <<target, staged>>
    BY <1>3 DEF Restart, ListDirectory, JournalsSettled, NextPass
  <2>2. StagedMayGo'
    BY <2>1 DEF StagedMayGo
  <2>3. \A x \in Hidden : x[1] # 2
    BY DEF Hidden, Rank, EditInv, OnlySaves
  <2>4. orphans' \subseteq orphans \cup Hidden
    BY <1>3 DEF Restart, ListDirectory, JournalsSettled, NextPass
  <2> QED BY <1>1, <2>1, <2>2, <2>3, <2>4, MovesKeepEdit, GenerationsStay DEF EditInv, OnlySaves
<1> QED BY <1>2, <1>3

LEMMA ServeKeepsEdit ==
  ASSUME RecoveryInv, EditInv, Serve
  PROVE  EditInv' /\ NothingLost
<1>1. NothingLost
  BY GenerationsStay DEF Serve
<1> QED BY <1>1 DEF Serve, ForgetPass, EditInv, OnlySaves, Started, StagedMayGo

LEMMA NextKeepsEdit ==
  ASSUME MaxFaults = 0, "remove" \notin Callers, RecoveryInv, RefusalInv, EditInv, [Next]_allVars
  PROVE  EditInv' /\ (external' = external => NothingLost)
<1>1. CASE Commit /\ UNCHANGED recoveryVars
  BY <1>1, StepKeepsEdit, StepLosesNothing DEF Commit
<1>2. CASE (Client \/ External) /\ UNCHANGED <<quarantine, pass, crashes>>
  BY <1>2, OthersKeepEdit DEF NothingLost
<1>3. CASE Recovery
  BY <1>3, SettlesKeepEdit, CallsKeepEdit, OrphansKeepEdit, PassesKeepEdit, ServeKeepsEdit DEF Recovery
<1>4. CASE Crash \/ UNCHANGED allVars
  BY <1>4, OthersKeepEdit DEF NothingLost
<1> QED BY <1>1, <1>2, <1>3, <1>4 DEF Next

(* Without failing calls and removals EditInv holds throughout. *)
THEOREM EditInvariant ==
  ASSUME MaxFaults = 0, "remove" \notin Callers
  PROVE  Spec => []EditInv
<1>1. Init => EditInv
  BY DEF Init, AtomicTextInit, EditInv, OnlySaves, Started, StagedMayGo
<1>2. RecoveryInv /\ RefusalInv /\ EditInv /\ [Next]_allVars => EditInv'
  BY NextKeepsEdit
<1> QED BY <1>1, <1>2, Invariant, RefusalInvariant, PTL DEF Spec

(* replaceTextAtomically, createTextExclusive and the recovery of a        *)
(* replace: no call of theirs makes bytes unreachable that a caller did    *)
(* not base its save on and that no external writer put up with losing,    *)
(* for any number of saves, external steps and crashes.                    *)
THEOREM EditsSurvive ==
  ASSUME MaxFaults = 0, "remove" \notin Callers
  PROVE  Spec => NoEditLost
<1>1. RecoveryInv /\ RefusalInv /\ EditInv /\ [Next]_allVars =>
        [external' = external =>
           \A i \in Generations \ Generations' : content[i] \in Based \/ i \in forfeit]_allVars
  BY NextKeepsEdit DEF NothingLost
<1> QED BY <1>1, Invariant, RefusalInvariant, EditInvariant, PTL DEF Spec, NoEditLost

-----------------------------------------------------------------------------
(* All old or all new: with no writer but the server, no removal and no    *)
(* failing call, TextInv is inductive.                                     *)

(* First the journals: the last operation's is the only active one, and    *)
(* recovery has it before it or in hand until it is settled.               *)
LEMMA StepKeepsJournals ==
  ASSUME RecoveryInv, RefusalInv, EditInv, MaxFaults = 0, JournalOfLast,
         Step \/ CreateLink \/ RemoveUnlink
  PROVE  JournalOfLast' /\ ActiveIsSettled'
<1> USE Shapes DEF JournalOfLast, ItemCalls
<1>0. faults = 0 /\ ~(op > op)
  BY DEF RecoveryInv, TypeOK, AtomicTextTypeOK
<1>a. pc' \in CommitSteps => ActiveIsSettled'
  BY DEF ActiveIsSettled
<1>1. CASE WriteTemp
  BY <1>0, <1>a, <1>1, OnlySavesStep DEF WriteTemp, Goto
<1>2. CASE OpenJournal
  BY <1>0, <1>a, <1>2 DEF OpenJournal, Goto
<1>3. CASE WriteJournal
  BY <1>0, <1>a, <1>3 DEF WriteJournal, Goto
<1>4. CASE Capture
  BY <1>0, <1>a, <1>4 DEF Capture
<1>5. CASE Takeover
  BY <1>0, <1>a, <1>5 DEF Takeover, Reads, Goto, Fail
<1>6. CASE VerifyOwner
  BY <1>0, <1>a, <1>6 DEF VerifyOwner, Goto, Fail
<1>7. CASE VerifyBytes
  BY <1>0, <1>a, <1>7 DEF VerifyBytes, Goto
<1>8. CASE Link
  BY <1>0, <1>a, <1>8 DEF Link, Goto
<1>9. CASE LinkFails
  BY <1>0, <1>a, <1>9 DEF LinkFails
<1>10. CASE DropStaged
  BY <1>0, <1>a, <1>10 DEF DropStaged, Unlinks, Goto
<1>11. CASE RestoreLink
  BY <1>0, <1>a, <1>11, OnlySavesStep DEF RestoreLink, EndRestore, Goto, Report
<1>12. CASE RestoreLinkFails
  BY <1>0, <1>a, <1>12 DEF RestoreLinkFails, Goto
<1>13. CASE RestoreClean
  BY <1>0, <1>a, <1>13, OnlySavesStep DEF RestoreClean, Unlinks, EndRestore, Goto, Report
<1>14. CASE FinalCheck
  BY <1>0, <1>a, <1>14 DEF FinalCheck, Goto
<1>15. CASE Mark
  BY <1>0, <1>a, <1>15 DEF Mark, Goto
<1>16. CASE MarkFails
  BY <1>0, <1>a, <1>16 DEF MarkFails, Goto
<1>17. CASE MarkTemp
  BY <1>0, <1>a, <1>17 DEF MarkTemp, Unlinks, Report
<1>18. CASE CleanTemp
  BY <1>0, <1>a, <1>18 DEF CleanTemp, Unlinks, Goto
<1>19. CASE CleanStaged
  BY <1>0, <1>a, <1>19 DEF CleanStaged, Unlinks, Goto
<1>20. CASE CleanJournal
  BY <1>0, <1>a, <1>20 DEF CleanJournal, Report
<1>21. CASE FailTemp
  BY <1>0, <1>a, <1>21 DEF FailTemp, Unlinks, Goto
<1>22. CASE FailJournal
  BY <1>0, <1>a, <1>22 DEF FailJournal, Report
<1>23. CASE CreateClean
  BY <1>0, <1>a, <1>23 DEF CreateClean, Unlinks, Report
<1>24. CASE CreateLink
  BY <1>a, <1>24 DEF CreateLink
<1>25. CASE RestoreStat \/ RestoreRename \/ RemoveCapture \/ RemoveVerify \/ RemoveRename \/ RemoveCheck
           \/ RemoveUnlink
  BY <1>25, OnlySavesStep DEF RestoreStat, RestoreRename, RemoveCapture, RemoveVerify, RemoveRename,
     RemoveCheck, RemoveUnlink
<1> QED BY <1>1, <1>2, <1>3, <1>4, <1>5, <1>6, <1>7, <1>8, <1>9, <1>10, <1>11, <1>12, <1>13, <1>14, <1>15, <1>16, <1>17, <1>18, <1>19, <1>20, <1>21, <1>22, <1>23, <1>24, <1>25 DEF Step

LEMMA OthersKeepJournals ==
  ASSUME RecoveryInv, JournalOfLast, ActiveIsSettled, "remove" \notin Callers,
         \/ Client /\ UNCHANGED pass
         \/ External /\ UNCHANGED pass
         \/ Crash \/ Serve
         \/ UNCHANGED allVars
  PROVE  JournalOfLast' /\ ActiveIsSettled'
<1> USE Shapes DEF JournalOfLast, ActiveIsSettled, ItemCalls
<1>1. ASSUME NEW kind \in Callers \ {"remove"}, NEW c \in Saves, OpenTemp(kind, c)
      PROVE  JournalOfLast' /\ ActiveIsSettled'
  <2>1. op + 1 \in Ops /\ op \in Nat /\ op' = op + 1 /\ pc = "idle" /\ pc' = "write_temp" /\ journal' = journal
    BY <1>1 DEF OpenTemp, Enters, RecoveryInv, TypeOK, AtomicTextTypeOK
  <2>2. \A a \in Ops : a > op + 1 => a > op
    BY <2>1
  <2> QED BY <2>1, <2>2
<1>2. CASE Load
  BY <1>2 DEF Load
<1>3. CASE External /\ UNCHANGED pass
  <2>1. UNCHANGED <<pc, op, journal>>
    BY <1>3 DEF External, ExternalReplace, ExternalWrite, ExternalDelete, ExternalOpen, Outside
  <2> QED BY <1>3, <2>1
<1>4. CASE Crash
  BY <1>4 DEF Crash, ForgetPass
<1>5. CASE Serve
  BY <1>5 DEF Serve, ForgetPass
<1>6. CASE UNCHANGED allVars
  BY <1>6
<1> QED BY <1>1, <1>2, <1>3, <1>4, <1>5, <1>6 DEF Client, Begin

(* A journal that recovery leaves active stays in hand. *)
LEMMA SettlesKeepJournals ==
  ASSUME RecoveryInv, JournalOfLast, ActiveIsSettled, NEW a \in Ops,
         \/ SettleUnstarted(a) \/ SettleLanded(a) \/ SettleOccupied(a)
         \/ SettleInterrupted(a) \/ SettlePending(a) \/ SettleRetained(a)
  PROVE  JournalOfLast' /\ ActiveIsSettled'
<1>1. RecoveryMoves
  BY SettlesMove
<1>2. /\ pc = "journals" /\ journals' = journals \ {a} /\ item' = a /\ journal' = journal /\ op' = op
      /\ journal[a] # "none" /\ pc' \in ItemCalls \cup {"journals"}
      /\ pc' = "journals" => journal[a] # "active"
  <2>1. ASSUME NEW calls, NEW reports, Settle(a, calls, reports)
        PROVE  pc = "journals" /\ journals' = journals \ {a} /\ item' = a /\ journal' = journal /\ op' = op
    BY <2>1 DEF Settle, Recovering
  <2>2. CASE SettleUnstarted(a)
    <3>1. pc' \in {"drop_save", "drop_journal"}
      BY <2>2, FollowCalls DEF SettleUnstarted, Settle
    <3> QED BY <2>1, <2>2, <3>1 DEF SettleUnstarted, ItemCalls, Active
  <2>3. CASE SettleLanded(a)
    <3>1. pc' \in {"recover_drop_staged", "postcommit"}
      BY <2>3, FollowCalls DEF SettleLanded, Settle
    <3> QED BY <2>1, <2>3, <3>1 DEF SettleLanded, ItemCalls, Active
  <2>4. CASE SettleOccupied(a)
    <3>1. pc' \in {"pending", "manual"}
      BY <2>4, FollowCalls DEF SettleOccupied, Settle, QuarantineSave
    <3> QED BY <2>1, <2>4, <3>1 DEF SettleOccupied, ItemCalls, Active
  <2>5. CASE SettleInterrupted(a)
    <3>1. pc' \in {"recover_link", "recover_restore"}
      BY <2>5, FollowCalls DEF SettleInterrupted, Settle, BothIntact
    <3> QED BY <2>1, <2>5, <3>1 DEF SettleInterrupted, ItemCalls, Active
  <2>6. CASE SettlePending(a)
    <3>1. pc' \in {"pending_rename", "manual"}
      BY <2>6, FollowCalls DEF SettlePending, Settle
    <3> QED BY <2>1, <2>6, <3>1 DEF SettlePending, ItemCalls
  <2>7. CASE SettleRetained(a)
    <3>1. pc' = "journals"
      BY <2>7, FollowCalls DEF SettleRetained, Settle
    <3> QED BY <2>1, <2>7, <3>1 DEF SettleRetained, ItemCalls
  <2> QED BY <2>2, <2>3, <2>4, <2>5, <2>6, <2>7
<1>3. JournalOfLast'
  <2>1. a <= op
    BY <1>2, Shapes DEF JournalOfLast
  <2> QED BY <1>2, <2>1 DEF JournalOfLast, ItemCalls
<1>4. ActiveIsSettled'
  BY <1>2 DEF ActiveIsSettled, ItemCalls
<1> QED BY <1>3, <1>4

LEMMA CallsKeepJournals ==
  ASSUME RecoveryInv, JournalOfLast, ActiveIsSettled, MaxFaults = 0,
         \/ DropSave \/ DropStagedBytes \/ DropJournal \/ RewritePhase \/ RenameSave
         \/ CompleteCommit \/ CompleteCommitFails \/ RestoreOld \/ RestoreOldFails
         \/ RestoredOld \/ AfterRestore
  PROVE  JournalOfLast' /\ ActiveIsSettled'
<1> USE DEF Call, Recovering
<1>1. CallsLeft /\ RecoveryMoves /\ journal \in [Ops -> JournalStates]
  BY CallsMove, Shapes DEF RecoveryInv
<1>2. ~CompleteCommitFails /\ ~RestoreOldFails
  BY DEF CompleteCommitFails, RestoreOldFails, RecoveryInv, TypeOK, AtomicTextTypeOK
<1>3. UNCHANGED <<item, journals, op>> /\ pc \in ItemCalls
  BY DEF DropSave, DropStagedBytes, DropJournal, RewritePhase, Rewrite, RenameSave, CompleteCommit,
     CompleteCommitFails, RestoreOld, RestoreOldFails, RestoredOld, AfterRestore, ItemCalls
<1>4. item \in Ops /\ item <= op /\ ~(item > op)
  BY <1>3, Shapes DEF RecoveryInv, RegistersNamed, ItemCalls, JournalOfLast
<1>5. ASSUME pc' \in ItemCalls \/ (pc' = "journals" /\ journal'[item] # "active"),
             \A a \in Ops : journal'[a] = journal[a] \/ (a = item /\ journal'[a] # "active"),
             \A a \in Ops : a > op /\ journal[a] = "none" => journal'[a] = "none"
      PROVE  JournalOfLast' /\ ActiveIsSettled'
  <2>1. pc' \notin {"idle", "mark_temp", "create_link", "create_clean", "orphans", "orphan_restored",
                    "write_temp", "open_journal"}
    BY <1>5 DEF ItemCalls
  <2>2. JournalOfLast'
    BY <1>1, <1>3, <1>4, <1>5, <2>1 DEF JournalOfLast, ItemCalls
  <2>3. ActiveIsSettled'
    BY <1>3, <1>5 DEF ActiveIsSettled, ItemCalls
  <2> QED BY <2>2, <2>3
<1>6. CASE DropSave
  <2>1. pc' \in {"drop_journal", "recover_drop_staged"}
    BY <1>1, <1>6, FollowCalls, FollowPlan DEF DropSave
  <2>2. journal' = journal
    BY <1>6 DEF DropSave
  <2> QED BY <1>5, <2>1, <2>2 DEF ItemCalls
<1>7. CASE DropStagedBytes
  <2>1. pc' \in {"drop_journal", "drop_save"}
    BY <1>1, <1>7, FollowCalls, FollowPlan DEF DropStagedBytes
  <2>2. journal' = journal
    BY <1>7 DEF DropStagedBytes
  <2> QED BY <1>5, <2>1, <2>2 DEF ItemCalls
<1>8. CASE DropJournal
  <2>1. pc' = "journals" /\ journal' = [journal EXCEPT ![item] = "none"]
    BY <1>1, <1>8, FollowCalls, FollowPlan DEF DropJournal
  <2> QED BY <1>1, <1>4, <1>5, <2>1
<1>9. CASE RewritePhase
  <2>1. \/ pc' = "pending_rename" /\ journal' = [journal EXCEPT ![item] = "pending"]
        \/ pc' = "journals" /\ journal' = [journal EXCEPT ![item] = "manual"]
        \/ pc' = "journals" /\ journal' = [journal EXCEPT ![item] = "postcommit"]
    BY <1>1, <1>9, FollowCalls, FollowPlan DEF RewritePhase, Rewrite
  <2> QED BY <1>1, <1>4, <1>5, <2>1 DEF ItemCalls
<1>10. CASE RenameSave
  <2>1. pc' \in {"manual"}
    BY <1>1, <1>10, FollowCalls, FollowPlan DEF RenameSave
  <2>2. journal' = journal
    BY <1>10 DEF RenameSave
  <2> QED BY <1>5, <2>1, <2>2 DEF ItemCalls
<1>11. CASE CompleteCommit
  <2>1. pc' \in {"drop_save", "recover_restore"}
    BY <1>1, <1>11, FollowCalls, FollowPlan DEF CompleteCommit
  <2>2. journal' = journal
    BY <1>11 DEF CompleteCommit
  <2> QED BY <1>5, <2>1, <2>2 DEF ItemCalls
<1>12. CASE RestoreOld
  <2>1. pc' \in {"recover_restored", "recover_rest"}
    BY <1>1, <1>12, FollowCalls, FollowPlan DEF RestoreOld
  <2>2. journal' = journal
    BY <1>12 DEF RestoreOld
  <2> QED BY <1>5, <2>1, <2>2 DEF ItemCalls
<1>13. CASE RestoredOld
  <2>1. pc' \in {"recover_rest"}
    BY <1>1, <1>13, FollowCalls, FollowPlan DEF RestoredOld
  <2>2. journal' = journal
    BY <1>13 DEF RestoredOld
  <2> QED BY <1>5, <2>1, <2>2 DEF ItemCalls
<1>14. CASE AfterRestore
  <2>1. pc' \in {"pending", "manual", "drop_journal"}
    BY <1>1, <1>14, FollowCalls, FollowPlan DEF AfterRestore, QuarantineSave
  <2>2. journal' = journal
    BY <1>14 DEF AfterRestore
  <2> QED BY <1>5, <2>1, <2>2 DEF ItemCalls
<1> QED BY <1>2, <1>6, <1>7, <1>8, <1>9, <1>10, <1>11, <1>12, <1>13, <1>14

LEMMA OrphansKeepJournals ==
  ASSUME RecoveryInv, JournalOfLast, NEW a \in Ops,
         \/ \E rank \in 1 .. 3 : OrphanGone(rank, a)
         \/ \E rank \in 1 .. 2 : OrphanRestored(rank, a) \/ OrphanRestoreFails(rank, a)
         \/ OrphanStagedKept(a) \/ OrphanRemoved(a) \/ OrphanSave(a)
  PROVE  JournalOfLast' /\ ActiveIsSettled'
<1>1. pc = "orphans" /\ pc' \in {"orphans", "orphan_restored"} /\ UNCHANGED <<journal, op>>
  BY DEF OrphanGone, OrphanRestored, OrphanRestoreFails, OrphanStagedKept, OrphanRemoved, OrphanSave,
     Judge, Recovering
<1> QED BY <1>1 DEF JournalOfLast, ActiveIsSettled, ItemCalls

LEMMA PassesKeepJournals ==
  ASSUME RecoveryInv, JournalOfLast, ActiveIsSettled,
         Restart \/ ListDirectory \/ JournalsSettled \/ NextPass \/ OrphanUnstaged
  PROVE  JournalOfLast' /\ ActiveIsSettled'
<1> USE DEF JournalOfLast, ActiveIsSettled, ItemCalls
<1>1. CASE Restart
  BY <1>1 DEF Restart
<1>2. CASE ListDirectory
  BY <1>2 DEF ListDirectory
<1>3. CASE JournalsSettled
  BY <1>3 DEF JournalsSettled, Recovering
<1>4. CASE NextPass
  BY <1>4 DEF NextPass, Recovering
<1>5. CASE OrphanUnstaged
  BY <1>5 DEF OrphanUnstaged, Recovering
<1> QED BY <1>1, <1>2, <1>3, <1>4, <1>5

-----------------------------------------------------------------------------
(* Then the bytes.  What is old or new stays so, whoever reports what but  *)
(* an acknowledgement, and whatever is asked for next.                     *)
LEMMA OldOrNewStays ==
  ASSUME \A a \in Ops : outcome[a] \in {"saved", "lost"} =>
                          outcome'[a] = outcome[a] /\ request'[a] = request[a],
         \A a \in Ops : outcome'[a] = "saved" => outcome[a] = "saved"
  PROVE  \A c : OldOrNew(c) => OldOrNew(c)'
<1>1. Acknowledged' = Acknowledged
  BY DEF Acknowledged
<1>2. \A a \in Ops : LastAcknowledged(a) => LastAcknowledged(a)' /\ outcome[a] = "saved"
  BY <1>1 DEF LastAcknowledged, Acknowledged
<1> QED BY <1>1, <1>2 DEF OldOrNew

(* The operation in progress is not acknowledged, and no later one is.     *)
LEMMA AcknowledgedBefore ==
  ASSUME RecoveryInv, EditInv
  PROVE  /\ \A a \in Acknowledged : a \in Ops /\ a <= op
         /\ \A a \in Acknowledged : a < op \/ outcome[op] = "saved"
<1>1. \A a \in Acknowledged : a \in Ops /\ a <= op /\ a \in Nat /\ outcome[a] = "saved"
  BY Shapes DEF Acknowledged, EditInv, Started
<1>2. op \in Nat
  BY DEF RecoveryInv, TypeOK, AtomicTextTypeOK
<1> QED BY <1>1, <1>2

(* What the steps of an operation change that TextInv speaks of. *)
LEMMA ReportKeepsOldOrNew ==
  ASSUME RecoveryInv, EditInv, pc \in CommitSteps \ {"idle"}, request' = request,
         outcome' = outcome \/ \E v \in Verdicts \ {"saved"} : outcome' = [outcome EXCEPT ![op] = v]
  PROVE  \A c : OldOrNew(c) => OldOrNew(c)'
<1>1. op \in Ops /\ outcome[op] = "running"
  BY Shapes DEF EditInv, Started
<1> QED BY <1>1, OldOrNewStays, Shapes

(* The path keeps its inode, and the inode its bytes. *)
LEMMA PathKept ==
  ASSUME PathIsOldOrNew, target # None, UNCHANGED <<target, request, op>>, content'[target] = content[target],
         pc \in LinkedSteps => pc' \in LinkedSteps, \A c : OldOrNew(c) => OldOrNew(c)'
  PROVE  PathIsOldOrNew'
  BY DEF PathIsOldOrNew

(* While the path is empty the generation that was there is under the      *)
(* staging name of the last operation.                                     *)
LEMMA WhereEmpty ==
  ASSUME RecoveryInv, PathIsOldOrNew, ReplaceUndisturbed, target = None
  PROVE  /\ TakenAside
         /\ pc \in {"verify_owner", "verify_bytes", "link", "restore"} \cup RecoverySteps
  BY DEF PathIsOldOrNew, TakenAside

LEMMA StepKeepsText ==
  ASSUME RecoveryInv, RefusalInv, EditInv, JournalOfLast, MaxFaults = 0, UndisturbedInv,
         (Step /\ UNCHANGED deleted) \/ CreateLink \/ RemoveUnlink
  PROVE  UndisturbedInv'
<1> USE Shapes
<1>0. /\ PathIsOldOrNew /\ ReplaceUndisturbed /\ RecoveryUndisturbed
      /\ faults = 0 /\ ~deleted
  BY DEF UndisturbedInv, ReplaceUndisturbed, RecoveryInv, TypeOK, AtomicTextTypeOK
<1>1. CASE WriteTemp /\ UNCHANGED deleted
  <2>1. target # None
    BY <1>0, <1>1, WhereEmpty DEF WriteTemp
  <2>0. save[op] = op /\ target # op
    BY <1>1 DEF WriteTemp, RecoveryInv, FilesHeld, RefusalInv, SavesAreOwn, UnlinkedBefore, Unlinked, LinkedSteps
  <2>2. UNCHANGED <<target, request, op>> /\ content'[target] = content[target]
    BY <1>1, <2>0 DEF WriteTemp, Goto
  <2>3. \A c : OldOrNew(c) => OldOrNew(c)'
    BY <1>1, ReportKeepsOldOrNew DEF WriteTemp, Goto
  <2>7. PathIsOldOrNew'
    BY <1>0, <1>1, <2>1, <2>2, <2>3, PathKept DEF WriteTemp, Goto, LinkedSteps
  <2>8. ReplaceUndisturbed'
    BY <1>0, <1>1, <2>0 DEF WriteTemp, Goto, ReplaceUndisturbed, LinkedSteps
  <2>9. RecoveryUndisturbed'
    BY <1>0, <1>1 DEF WriteTemp, Goto, RecoveryUndisturbed
  <2> QED BY <2>7, <2>8, <2>9 DEF UndisturbedInv
<1>2. CASE OpenJournal /\ UNCHANGED deleted
  <2>1. target # None
    BY <1>0, <1>2, WhereEmpty DEF OpenJournal
  <2>2. UNCHANGED <<target, request, op>> /\ content'[target] = content[target]
    BY <1>2 DEF OpenJournal, Goto
  <2>3. \A c : OldOrNew(c) => OldOrNew(c)'
    BY <1>2, <1>0, ReportKeepsOldOrNew DEF OpenJournal, Goto, ReplaceUndisturbed, Refusals
  <2>7. PathIsOldOrNew'
    BY <1>0, <1>2, <2>1, <2>2, <2>3, PathKept DEF OpenJournal, Goto, LinkedSteps
  <2>8. ReplaceUndisturbed'
    BY <1>0, <1>2 DEF OpenJournal, Goto, ReplaceUndisturbed, LinkedSteps
  <2>9. RecoveryUndisturbed'
    BY <1>0, <1>2 DEF OpenJournal, Goto, RecoveryUndisturbed
  <2> QED BY <2>7, <2>8, <2>9 DEF UndisturbedInv
<1>3. CASE WriteJournal /\ UNCHANGED deleted
  <2>1. target # None
    BY <1>0, <1>3, WhereEmpty DEF WriteJournal
  <2>2. UNCHANGED <<target, request, op>> /\ content'[target] = content[target]
    BY <1>3 DEF WriteJournal, Goto
  <2>3. \A c : OldOrNew(c) => OldOrNew(c)'
    BY <1>3, <1>0, ReportKeepsOldOrNew DEF WriteJournal, Goto, ReplaceUndisturbed, Refusals
  <2>7. PathIsOldOrNew'
    BY <1>0, <1>3, <2>1, <2>2, <2>3, PathKept DEF WriteJournal, Goto, LinkedSteps
  <2>8. ReplaceUndisturbed'
    BY <1>0, <1>3 DEF WriteJournal, Goto, ReplaceUndisturbed, LinkedSteps
  <2>9. RecoveryUndisturbed'
    BY <1>0, <1>3 DEF WriteJournal, Goto, RecoveryUndisturbed
  <2> QED BY <2>7, <2>8, <2>9 DEF UndisturbedInv
<1>4. CASE Capture /\ UNCHANGED deleted
  <2>1. target # None
    BY <1>0, <1>4, WhereEmpty DEF Capture
  <2>2. UNCHANGED <<target, request, op>> /\ content'[target] = content[target]
    BY <1>4 DEF Capture
  <2>3. \A c : OldOrNew(c) => OldOrNew(c)'
    BY <1>4, <1>0, ReportKeepsOldOrNew DEF Capture, ReplaceUndisturbed, Refusals
  <2>7. PathIsOldOrNew'
    BY <1>0, <1>4, <2>1, <2>2, <2>3, PathKept DEF Capture, LinkedSteps
  <2>8. ReplaceUndisturbed'
    BY <1>0, <1>4, <2>1 DEF Capture, ReplaceUndisturbed, LinkedSteps
  <2>9. RecoveryUndisturbed'
    BY <1>0, <1>4 DEF Capture, RecoveryUndisturbed, RecoveryInv, StagedLater
  <2> QED BY <2>7, <2>8, <2>9 DEF UndisturbedInv
<1>5. CASE Takeover /\ UNCHANGED deleted
  <2>1. target # None
    BY <1>0, <1>5, WhereEmpty DEF Takeover
  <2>2. /\ target' = None /\ staged' = [staged EXCEPT ![op] = target] /\ pc' = "verify_owner"
        /\ UNCHANGED <<request, op, content, journal, outcome, owned, save, verdict>>
    BY <1>5, <2>1 DEF Takeover, Reads, Goto, Fail
  <2>3. \A c : OldOrNew(c) => OldOrNew(c)'
    BY <1>5, <2>2, ReportKeepsOldOrNew DEF Takeover
  <2>4. OldOrNew(content[target])
    BY <1>0, <1>5, <2>1 DEF Takeover, PathIsOldOrNew, LinkedSteps
  <2>5. op \in Ops /\ journal[op] = "active" /\ outcome[op] = "running"
    BY <1>5 DEF Takeover, RecoveryInv, StagedLater, EditInv, Started
  <2>6. staged'[op] = target
    BY <2>2, <2>5
  <2>10. OldOrNew(content[staged[op]])'
    BY <2>2, <2>3, <2>4, <2>6
  <2>7. PathIsOldOrNew'
    BY <2>1, <2>2, <2>5, <2>6, <2>10 DEF PathIsOldOrNew, TakenAside
  <2>8. ReplaceUndisturbed'
    BY <1>0, <1>5, <2>1, <2>2, <2>5 DEF Takeover, ReplaceUndisturbed, LinkedSteps
  <2>9. RecoveryUndisturbed'
    BY <1>0, <1>5, <2>1, <2>2, <2>5 DEF RecoveryUndisturbed
  <2> QED BY <2>7, <2>8, <2>9 DEF UndisturbedInv
<1>6. CASE VerifyOwner /\ UNCHANGED deleted
  <2>1. target = None /\ TakenAside
    BY <1>0, <1>6, WhereEmpty DEF VerifyOwner, ReplaceUndisturbed
  <2>2. UNCHANGED <<target, staged, journal, request, op, content, outcome>> /\ pc' \in {"verify_bytes"}
    BY <1>0, <1>6 DEF VerifyOwner, Goto, Fail, ReplaceUndisturbed
  <2>3. \A c : OldOrNew(c) => OldOrNew(c)'
    BY <1>6, <2>2, ReportKeepsOldOrNew DEF VerifyOwner
  <2>4. OldOrNew(content[staged[op]])'
    BY <2>1, <2>2, <2>3 DEF TakenAside
  <2>7. PathIsOldOrNew'
    BY <2>1, <2>2, <2>4 DEF PathIsOldOrNew, TakenAside
  <2>8. ReplaceUndisturbed'
    BY <1>0, <1>6 DEF VerifyOwner, Goto, Fail, ReplaceUndisturbed, LinkedSteps
  <2>9. RecoveryUndisturbed'
    BY <1>0, <1>6, <2>2 DEF RecoveryUndisturbed
  <2> QED BY <2>7, <2>8, <2>9 DEF UndisturbedInv
<1>7. CASE VerifyBytes /\ UNCHANGED deleted
  <2>1. target = None /\ TakenAside
    BY <1>0, <1>7, WhereEmpty DEF VerifyBytes, ReplaceUndisturbed
  <2>2. UNCHANGED <<target, staged, journal, request, op, content, outcome>> /\ pc' \in {"link", "restore"}
    BY <1>0, <1>7 DEF VerifyBytes, Goto, ReplaceUndisturbed
  <2>3. \A c : OldOrNew(c) => OldOrNew(c)'
    BY <1>7, <2>2, ReportKeepsOldOrNew DEF VerifyBytes
  <2>4. OldOrNew(content[staged[op]])'
    BY <2>1, <2>2, <2>3 DEF TakenAside
  <2>7. PathIsOldOrNew'
    BY <2>1, <2>2, <2>4 DEF PathIsOldOrNew, TakenAside
  <2>8. ReplaceUndisturbed'
    BY <1>0, <1>7, <2>1 DEF VerifyBytes, Goto, ReplaceUndisturbed, LinkedSteps, Refusals
  <2>9. RecoveryUndisturbed'
    BY <1>0, <1>7 DEF VerifyBytes, Goto, RecoveryUndisturbed
  <2> QED BY <2>7, <2>8, <2>9 DEF UndisturbedInv
<1>8. CASE Link /\ UNCHANGED deleted
  <2>1. target = None
    BY <1>0, <1>8 DEF Link, ReplaceUndisturbed
  <2>2. save[op] = op
    BY <1>8 DEF Link, RecoveryInv, FilesHeld, RefusalInv, SavesAreOwn
  <2>3. target' = op /\ UNCHANGED <<content, request, op>> /\ pc' = "final_check"
    BY <1>8, <2>1, <2>2 DEF Link, Goto
  <2>4. content[op] = request[op].replacement
    BY <1>0, <1>8 DEF Link, ReplaceUndisturbed
  <2>7. PathIsOldOrNew'
    BY <2>3, <2>4 DEF PathIsOldOrNew, LinkedSteps
  <2>8. ReplaceUndisturbed'
    BY <1>0, <1>8, <2>1, <2>3, <2>4 DEF Link, Goto, ReplaceUndisturbed, LinkedSteps
  <2>9. RecoveryUndisturbed'
    BY <1>0, <1>8 DEF Link, Goto, RecoveryUndisturbed
  <2> QED BY <2>7, <2>8, <2>9 DEF UndisturbedInv
<1>9. CASE RestoreLink /\ UNCHANGED deleted
  <2>1. target = None /\ TakenAside
    BY <1>0, <1>9, WhereEmpty DEF RestoreLink, ReplaceUndisturbed
  <2>2. target' = staged[op] /\ UNCHANGED <<content, request, op, outcome>> /\ pc' = "restore_clean"
    BY <1>9, <2>1 DEF RestoreLink, EndRestore, Goto, Report
  <2>3. \A c : OldOrNew(c) => OldOrNew(c)'
    BY <1>9, <2>2, ReportKeepsOldOrNew DEF RestoreLink
  <2>7. PathIsOldOrNew'
    BY <2>1, <2>2, <2>3 DEF PathIsOldOrNew, TakenAside
  <2>8. ReplaceUndisturbed'
    BY <1>0, <1>9 DEF RestoreLink, EndRestore, Goto, Report, ReplaceUndisturbed, LinkedSteps
  <2>9. RecoveryUndisturbed'
    BY <1>0, <1>9, <2>1, <2>2 DEF RestoreLink, RecoveryUndisturbed
  <2> QED BY <2>7, <2>8, <2>9 DEF UndisturbedInv
<1>10. CASE RestoreClean /\ UNCHANGED deleted
  <2>1. target # None
    BY <1>0, <1>10, WhereEmpty DEF RestoreClean
  <2>2. UNCHANGED <<target, request, op>> /\ content'[target] = content[target]
    BY <1>10 DEF RestoreClean, Unlinks, EndRestore, Goto, Report
  <2>3. \A c : OldOrNew(c) => OldOrNew(c)'
    BY <1>10, <1>0, OnlySavesStep, ReportKeepsOldOrNew DEF RestoreClean, Unlinks, EndRestore, Goto, Report, ReplaceUndisturbed, Refusals
  <2>7. PathIsOldOrNew'
    BY <1>0, <1>10, <2>1, <2>2, <2>3, OnlySavesStep, PathKept DEF RestoreClean, Unlinks, EndRestore, Goto, Report, LinkedSteps
  <2>8. ReplaceUndisturbed'
    BY <1>0, <1>10, OnlySavesStep DEF RestoreClean, Unlinks, EndRestore, Goto, Report, ReplaceUndisturbed, LinkedSteps
  <2>9. RecoveryUndisturbed'
    BY <1>0, <1>10, OnlySavesStep DEF RestoreClean, Unlinks, EndRestore, Goto, Report, RecoveryUndisturbed
  <2> QED BY <2>7, <2>8, <2>9 DEF UndisturbedInv
<1>11. CASE FinalCheck /\ UNCHANGED deleted
  <2>1. target # None
    BY <1>0, <1>11, WhereEmpty DEF FinalCheck
  <2>2. UNCHANGED <<target, request, op>> /\ content'[target] = content[target]
    BY <1>11 DEF FinalCheck, Goto
  <2>3. \A c : OldOrNew(c) => OldOrNew(c)'
    BY <1>11, <1>0, ReportKeepsOldOrNew DEF FinalCheck, Goto, ReplaceUndisturbed, Refusals
  <2>7. PathIsOldOrNew'
    BY <1>0, <1>11, <2>1, <2>2, <2>3, PathKept DEF FinalCheck, Goto, LinkedSteps
  <2>8. ReplaceUndisturbed'
    BY <1>0, <1>11 DEF FinalCheck, Goto, ReplaceUndisturbed, LinkedSteps
  <2>9. RecoveryUndisturbed'
    BY <1>0, <1>11 DEF FinalCheck, Goto, RecoveryUndisturbed
  <2> QED BY <2>7, <2>8, <2>9 DEF UndisturbedInv
<1>12. CASE CleanTemp /\ UNCHANGED deleted
  <2>1. target # None
    BY <1>0, <1>12, WhereEmpty DEF CleanTemp
  <2>2. UNCHANGED <<target, request, op>> /\ content'[target] = content[target]
    BY <1>12 DEF CleanTemp, Unlinks, Goto
  <2>3. \A c : OldOrNew(c) => OldOrNew(c)'
    BY <1>12, <1>0, ReportKeepsOldOrNew DEF CleanTemp, Unlinks, Goto, ReplaceUndisturbed, Refusals
  <2>7. PathIsOldOrNew'
    BY <1>0, <1>12, <2>1, <2>2, <2>3, PathKept DEF CleanTemp, Unlinks, Goto, LinkedSteps
  <2>8. ReplaceUndisturbed'
    BY <1>0, <1>12 DEF CleanTemp, Unlinks, Goto, ReplaceUndisturbed, LinkedSteps
  <2>9. RecoveryUndisturbed'
    BY <1>0, <1>12 DEF CleanTemp, Unlinks, Goto, RecoveryUndisturbed
  <2> QED BY <2>7, <2>8, <2>9 DEF UndisturbedInv
<1>13. CASE CleanStaged /\ UNCHANGED deleted
  <2>1. target # None
    BY <1>0, <1>13, WhereEmpty DEF CleanStaged
  <2>2. UNCHANGED <<target, request, op>> /\ content'[target] = content[target]
    BY <1>13 DEF CleanStaged, Unlinks, Goto
  <2>3. \A c : OldOrNew(c) => OldOrNew(c)'
    BY <1>13, <1>0, ReportKeepsOldOrNew DEF CleanStaged, Unlinks, Goto, ReplaceUndisturbed, Refusals
  <2>7. PathIsOldOrNew'
    BY <1>0, <1>13, <2>1, <2>2, <2>3, PathKept DEF CleanStaged, Unlinks, Goto, LinkedSteps
  <2>8. ReplaceUndisturbed'
    BY <1>0, <1>13 DEF CleanStaged, Unlinks, Goto, ReplaceUndisturbed, LinkedSteps
  <2>9. RecoveryUndisturbed'
    BY <1>0, <1>13 DEF CleanStaged, Unlinks, Goto, RecoveryUndisturbed
  <2> QED BY <2>7, <2>8, <2>9 DEF UndisturbedInv
<1>14. CASE FailTemp /\ UNCHANGED deleted
  <2>1. target # None
    BY <1>0, <1>14, WhereEmpty DEF FailTemp
  <2>2. UNCHANGED <<target, request, op>> /\ content'[target] = content[target]
    BY <1>14 DEF FailTemp, Unlinks, Goto
  <2>3. \A c : OldOrNew(c) => OldOrNew(c)'
    BY <1>14, <1>0, ReportKeepsOldOrNew DEF FailTemp, Unlinks, Goto, ReplaceUndisturbed, Refusals
  <2>7. PathIsOldOrNew'
    BY <1>0, <1>14, <2>1, <2>2, <2>3, PathKept DEF FailTemp, Unlinks, Goto, LinkedSteps
  <2>8. ReplaceUndisturbed'
    BY <1>0, <1>14 DEF FailTemp, Unlinks, Goto, ReplaceUndisturbed, LinkedSteps
  <2>9. RecoveryUndisturbed'
    BY <1>0, <1>14 DEF FailTemp, Unlinks, Goto, RecoveryUndisturbed
  <2> QED BY <2>7, <2>8, <2>9 DEF UndisturbedInv
<1>15. CASE FailJournal /\ UNCHANGED deleted
  <2>1. target # None
    BY <1>0, <1>15, WhereEmpty DEF FailJournal
  <2>2. UNCHANGED <<target, request, op>> /\ content'[target] = content[target]
    BY <1>15 DEF FailJournal, Report
  <2>3. \A c : OldOrNew(c) => OldOrNew(c)'
    BY <1>15, <1>0, ReportKeepsOldOrNew DEF FailJournal, Report, ReplaceUndisturbed, Refusals
  <2>7. PathIsOldOrNew'
    BY <1>0, <1>15, <2>1, <2>2, <2>3, PathKept DEF FailJournal, Report, LinkedSteps
  <2>8. ReplaceUndisturbed'
    BY <1>0, <1>15 DEF FailJournal, Report, ReplaceUndisturbed, LinkedSteps
  <2>9. RecoveryUndisturbed'
    BY <1>0, <1>15 DEF FailJournal, Report, RecoveryUndisturbed
  <2> QED BY <2>7, <2>8, <2>9 DEF UndisturbedInv
<1>16. CASE CreateClean /\ UNCHANGED deleted
  <2>1. target # None
    BY <1>0, <1>16, WhereEmpty DEF CreateClean
  <2>2. UNCHANGED <<target, request, op>> /\ content'[target] = content[target]
    BY <1>16 DEF CreateClean, Unlinks, Report
  <2>3. \A c : OldOrNew(c) => OldOrNew(c)'
    BY <1>16, <1>0, ReportKeepsOldOrNew DEF CreateClean, Unlinks, Report, ReplaceUndisturbed, Refusals
  <2>7. PathIsOldOrNew'
    BY <1>0, <1>16, <2>1, <2>2, <2>3, PathKept DEF CreateClean, Unlinks, Report, LinkedSteps
  <2>8. ReplaceUndisturbed'
    BY <1>0, <1>16 DEF CreateClean, Unlinks, Report, ReplaceUndisturbed, LinkedSteps
  <2>9. RecoveryUndisturbed'
    BY <1>0, <1>16 DEF CreateClean, Unlinks, Report, RecoveryUndisturbed
  <2> QED BY <2>7, <2>8, <2>9 DEF UndisturbedInv
<1>17. CASE CleanJournal /\ UNCHANGED deleted
  <2>1. target # None /\ content[target] = request[op].replacement
    BY <1>0, <1>17 DEF CleanJournal, ReplaceUndisturbed, LinkedSteps
  <2>2. op \in Ops /\ UNCHANGED <<target, content, request, op>> /\ outcome' = [outcome EXCEPT ![op] = "saved"]
    BY <1>17 DEF CleanJournal, Report
  <2>3. Acknowledged' = Acknowledged \cup {op} /\ op <= op
    BY <2>2 DEF Acknowledged
  <2>4. LastAcknowledged(op)'
    BY <2>2, <2>3, AcknowledgedBefore DEF LastAcknowledged
  <2>7. PathIsOldOrNew'
    BY <2>1, <2>2, <2>4 DEF PathIsOldOrNew, OldOrNew
  <2>8. ReplaceUndisturbed'
    BY <1>0, <1>17 DEF CleanJournal, Report, ReplaceUndisturbed, LinkedSteps
  <2>9. RecoveryUndisturbed'
    BY <1>0, <1>17 DEF CleanJournal, Report, RecoveryUndisturbed
  <2> QED BY <2>7, <2>8, <2>9 DEF UndisturbedInv
<1>18. CASE CreateLink
  <2>1. target # None
    BY <1>0, <1>18, WhereEmpty DEF CreateLink
  <2>2. UNCHANGED <<target, request, op, content, outcome, staged, journal>> /\ pc' = "create_clean"
          /\ verdict' = "conflict" /\ ~deleted'
    BY <1>18, <2>1 DEF CreateLink
  <2>3. \A c : OldOrNew(c) => OldOrNew(c)'
    BY <1>18, <2>2, ReportKeepsOldOrNew DEF CreateLink
  <2>4. PathIsOldOrNew'
    BY <1>0, <1>18, <2>1, <2>2, <2>3, PathKept DEF CreateLink, LinkedSteps
  <2>5. ReplaceUndisturbed'
    BY <2>2 DEF ReplaceUndisturbed, LinkedSteps
  <2>6. RecoveryUndisturbed'
    BY <1>0, <2>2 DEF RecoveryUndisturbed
  <2> QED BY <2>4, <2>5, <2>6 DEF UndisturbedInv
<1>19. CASE DropStaged \/ Mark \/ MarkFails \/ MarkTemp \/ LinkFails \/ RestoreLinkFails
  BY <1>0, <1>19 DEF DropStaged, Mark, MarkFails, MarkTemp, LinkFails, RestoreLinkFails, ReplaceUndisturbed
<1>20. CASE RestoreStat \/ RestoreRename \/ RemoveCapture \/ RemoveVerify \/ RemoveRename \/ RemoveCheck
           \/ RemoveUnlink
  BY <1>20, OnlySavesStep DEF RestoreStat, RestoreRename, RemoveCapture, RemoveVerify, RemoveRename,
     RemoveCheck, RemoveUnlink
<1> QED BY <1>1, <1>2, <1>3, <1>4, <1>5, <1>6, <1>7, <1>8, <1>9, <1>10, <1>11, <1>12, <1>13, <1>14, <1>15, <1>16, <1>17, <1>18, <1>19, <1>20 DEF Step

(* Clients, crashes and the end of a recovery.  An external writer only    *)
(* opens the file, or is no longer absent.                                 *)
LEMMA OthersKeepText ==
  ASSUME RecoveryInv, EditInv, JournalOfLast, UndisturbedInv, "remove" \notin Callers,
         \/ (Client \/ ExternalOpen) /\ UNCHANGED pass
         \/ Crash \/ Serve
         \/ UNCHANGED allVars
  PROVE  UndisturbedInv'
<1> USE Shapes
<1>0. PathIsOldOrNew /\ ReplaceUndisturbed /\ RecoveryUndisturbed /\ ~deleted
  BY DEF UndisturbedInv, ReplaceUndisturbed
<1>1. ASSUME NEW kind \in Callers \ {"remove"}, NEW c \in Saves, OpenTemp(kind, c), UNCHANGED deleted
      PROVE  UndisturbedInv'
  <2>1. /\ op + 1 \in Ops /\ op' = op + 1 /\ pc = "idle" /\ pc' = "write_temp"
        /\ UNCHANGED <<target, staged, journal, content>>
        /\ request' = [request EXCEPT ![op + 1] = [kind |-> kind, expected |-> base, replacement |-> c]]
        /\ outcome' = [outcome EXCEPT ![op + 1] = "running"]
    BY <1>1 DEF OpenTemp, Enters
  <2>2. target # None
    BY <1>0, <2>1, WhereEmpty
  <2>3. \A a \in Ops : outcome[a] \in {"saved", "lost"} => a # op + 1
    <3>1. ~(op + 1 <= op)
      BY DEF RecoveryInv, TypeOK, AtomicTextTypeOK
    <3> QED BY <2>1, <3>1 DEF EditInv, Started
  <2>4. \A d : OldOrNew(d) => OldOrNew(d)'
    BY <2>1, <2>3, OldOrNewStays
  <2>5. PathIsOldOrNew'
    BY <1>0, <2>1, <2>2, <2>4 DEF PathIsOldOrNew, LinkedSteps
  <2>6. ReplaceUndisturbed' /\ RecoveryUndisturbed'
    BY <1>0, <1>1, <2>1 DEF ReplaceUndisturbed, RecoveryUndisturbed, LinkedSteps
  <2> QED BY <2>5, <2>6 DEF UndisturbedInv
<1>2. ASSUME UNCHANGED <<disk, server, request, outcome, deleted, pass>>
      PROVE  UndisturbedInv'
  <2>1. \A d : OldOrNew(d) => OldOrNew(d)'
    BY <1>2, OldOrNewStays
  <2>2. PathIsOldOrNew'
    BY <1>0, <1>2, <2>1 DEF PathIsOldOrNew, TakenAside
  <2>3. ReplaceUndisturbed' /\ RecoveryUndisturbed'
    BY <1>0, <1>2 DEF ReplaceUndisturbed, RecoveryUndisturbed
  <2> QED BY <2>2, <2>3 DEF UndisturbedInv
<1>3. CASE Crash
  <2>1. /\ pc' = "down" /\ UNCHANGED <<target, staged, journal, content, op, request, deleted>>
        /\ outcome' = [a \in Ops |-> IF outcome[a] = "running" THEN "lost" ELSE outcome[a]]
    BY <1>3 DEF Crash
  <2>2. \A d : OldOrNew(d) => OldOrNew(d)'
    BY <2>1, OldOrNewStays
  <2>3. ASSUME target = None
        PROVE  PathIsOldOrNew'
    <3>1. TakenAside
      BY <1>0, <2>3, WhereEmpty
    <3>2. outcome'[op] \in {"running", "lost"} /\ OldOrNew(content[staged[op]])'
      BY <2>1, <2>2, <3>1 DEF TakenAside
    <3> QED BY <2>1, <2>3, <3>1, <3>2 DEF PathIsOldOrNew, TakenAside
  <2>4. ASSUME pc \in LinkedSteps, content[target] = request[op].replacement
        PROVE  PathIsOldOrNew'
    <3>1. op \in Ops /\ outcome[op] = "running" /\ target # None
      BY <1>0, <2>4 DEF EditInv, Started, LinkedSteps, ReplaceUndisturbed
    <3>2. \A a \in Acknowledged : a < op
      BY <3>1, AcknowledgedBefore
    <3>3. Acknowledged' = Acknowledged /\ outcome'[op] = "lost"
      BY <2>1, <3>1 DEF Acknowledged
    <3>4. OldOrNew(content[target])'
      BY <2>1, <2>4, <3>1, <3>2, <3>3 DEF OldOrNew
    <3> QED BY <2>1, <3>1, <3>4 DEF PathIsOldOrNew
  <2>5. PathIsOldOrNew'
    <3>1. CASE target # None /\ OldOrNew(content[target])
      BY <2>1, <2>2, <3>1 DEF PathIsOldOrNew
    <3> QED BY <1>0, <2>3, <2>4, <3>1 DEF PathIsOldOrNew
  <2>6. ReplaceUndisturbed' /\ RecoveryUndisturbed'
    BY <1>0, <2>1 DEF ReplaceUndisturbed, RecoveryUndisturbed, LinkedSteps
  <2> QED BY <2>5, <2>6 DEF UndisturbedInv
<1>4. CASE Serve
  <2>1. /\ pc = "orphans" /\ pc' = "idle"
        /\ UNCHANGED <<target, staged, journal, content, op, request, outcome, deleted>>
    BY <1>4 DEF Serve
  <2>2. target # None
    BY <1>0, <2>1, WhereEmpty DEF JournalOfLast, TakenAside
  <2>3. \A d : OldOrNew(d) => OldOrNew(d)'
    BY <2>1, OldOrNewStays
  <2>4. PathIsOldOrNew'
    BY <1>0, <2>1, <2>2, <2>3, PathKept DEF LinkedSteps
  <2>5. ReplaceUndisturbed' /\ RecoveryUndisturbed'
    BY <1>0, <2>1 DEF ReplaceUndisturbed, RecoveryUndisturbed, LinkedSteps
  <2> QED BY <2>4, <2>5 DEF UndisturbedInv
<1>5. CASE Load /\ UNCHANGED <<deleted, pass>>
  BY <1>2, <1>5 DEF Load
<1>6. CASE ExternalOpen /\ UNCHANGED pass
  BY <1>2, <1>6 DEF ExternalOpen
<1>7. CASE UNCHANGED allVars
  BY <1>2, <1>7
<1> QED BY <1>1, <1>3, <1>4, <1>5, <1>6, <1>7 DEF Client, Begin

(* A step of recovery that leaves the path alone; if the path is empty, it *)
(* leaves the generation taken aside, and its journal, in hand.            *)
LEMMA MovesKeepText ==
  ASSUME PathIsOldOrNew, ReplaceUndisturbed, RecoveryMoves, pc \in RecoverySteps, UNCHANGED <<target, deleted>>,
         target = None => /\ staged'[op] = staged[op] /\ journal'[op] = journal[op]
                          /\ pc' \in {"list", "recover_link", "recover_restore"} \/ op \in journals',
         RecoveryUndisturbed'
  PROVE  UndisturbedInv'
<1>1. UNCHANGED <<op, request, outcome, content>> /\ pc' \in RecoverySteps
  BY DEF RecoveryMoves
<1>2. \A c : OldOrNew(c) => OldOrNew(c)'
  BY <1>1, OldOrNewStays
<1>3. ASSUME target = None
      PROVE  PathIsOldOrNew'
  <2>1. TakenAside
    BY <1>3 DEF PathIsOldOrNew
  <2>2. OldOrNew(content[staged[op]])'
    BY <1>1, <1>2, <1>3, <2>1 DEF TakenAside
  <2>3. TakenAside'
    BY <1>1, <1>3, <2>1, <2>2 DEF TakenAside
  <2> QED BY <1>3, <2>3 DEF PathIsOldOrNew
<1>4. ASSUME target # None
      PROVE  PathIsOldOrNew'
  BY <1>1, <1>2, <1>4 DEF PathIsOldOrNew, LinkedSteps
<1>5. ReplaceUndisturbed'
  BY <1>1 DEF ReplaceUndisturbed, LinkedSteps
<1> QED BY <1>3, <1>4, <1>5 DEF UndisturbedInv

LEMMA SettlesKeepText ==
  ASSUME RecoveryInv, JournalOfLast, UndisturbedInv, NEW a \in Ops,
         \/ SettleUnstarted(a) \/ SettleLanded(a) \/ SettleOccupied(a)
         \/ SettleInterrupted(a) \/ SettlePending(a) \/ SettleRetained(a)
  PROVE  UndisturbedInv'
<1>0. PathIsOldOrNew /\ ReplaceUndisturbed /\ RecoveryUndisturbed
  BY DEF UndisturbedInv
<1>1. ASSUME NEW calls, NEW reports, Settle(a, calls, reports), RecoveryMoves,
             target = None /\ a = op => pc' \in {"recover_link", "recover_restore"},
             \/ pc' = "drop_journal" /\ staged[a] = None
             \/ pc' = "drop_save" /\ staged[a] = None
             \/ pc' \in {"journals", "recover_drop_staged"}
             \/ pc' \in {"pending", "pending_rename", "manual", "postcommit"}
             \/ /\ pc' \in {"recover_link", "recover_restore"} /\ target = None /\ a = op
                /\ pc' = "recover_link" => content[save[a]] = request[a].replacement
      PROVE  UndisturbedInv'
  <2>1. /\ pc = "journals" /\ item' = a /\ journals' = journals \ {a}
        /\ UNCHANGED <<staged, save, target, journal, content, request, op, deleted>>
    BY <1>1 DEF Settle, Recovering
  <2>2. RecoveryUndisturbed'
    BY <1>0, <1>1, <2>1 DEF RecoveryUndisturbed
  <2>3. target = None => op \in journals
    BY <1>0, <2>1 DEF PathIsOldOrNew, TakenAside
  <2> QED BY <1>0, <1>1, <2>1, <2>2, <2>3, MovesKeepText
<1>2. target = None => journal[op] = "active" /\ staged[op] # None
  BY <1>0 DEF PathIsOldOrNew, TakenAside
<1>3. CASE SettleUnstarted(a)
  <2>1. pc' \in {"drop_save", "drop_journal"} /\ staged[a] = None
    BY <1>3, FollowCalls DEF SettleUnstarted, Settle
  <2> QED BY <1>1, <1>2, <1>3, <2>1, SettlesMove DEF SettleUnstarted
<1>4. CASE SettleLanded(a)
  <2>1. pc' \in {"recover_drop_staged", "postcommit"} /\ target # None
    BY <1>4, FollowCalls DEF SettleLanded, Settle
  <2> QED BY <1>1, <1>2, <1>4, <2>1, SettlesMove DEF SettleLanded
<1>5. CASE SettleOccupied(a)
  <2>1. pc' \in {"pending", "manual"} /\ target # None
    BY <1>5, FollowCalls DEF SettleOccupied, Settle, QuarantineSave
  <2> QED BY <1>1, <1>2, <1>5, <2>1, SettlesMove DEF SettleOccupied
<1>6. CASE SettleInterrupted(a)
  <2>1. /\ pc' \in {"recover_link", "recover_restore"} /\ target = None
        /\ pc' = "recover_link" => content[save[a]] = request[a].replacement
    BY <1>6, FollowCalls DEF SettleInterrupted, Settle, BothIntact
  <2>2. a = op
    BY <1>6 DEF SettleInterrupted, Active, JournalOfLast
  <2> QED BY <1>1, <1>2, <1>6, <2>1, <2>2, SettlesMove DEF SettleInterrupted
<1>7. CASE SettlePending(a)
  <2>1. pc' \in {"pending_rename", "manual"} /\ journal[a] # "active"
    BY <1>7, FollowCalls DEF SettlePending, Settle
  <2> QED BY <1>1, <1>2, <1>7, <2>1, SettlesMove DEF SettlePending
<1>8. CASE SettleRetained(a)
  <2>1. pc' = "journals" /\ journal[a] # "active"
    BY <1>8, FollowCalls DEF SettleRetained, Settle
  <2> QED BY <1>1, <1>2, <1>8, <2>1, SettlesMove DEF SettleRetained
<1> QED BY <1>3, <1>4, <1>5, <1>6, <1>7, <1>8

LEMMA CallsKeepText ==
  ASSUME RecoveryInv, EditInv, JournalOfLast, UndisturbedInv, MaxFaults = 0,
         \/ DropSave \/ DropStagedBytes \/ DropJournal \/ RewritePhase \/ RenameSave
         \/ CompleteCommit \/ CompleteCommitFails \/ RestoreOld \/ RestoreOldFails
         \/ RestoredOld \/ AfterRestore
  PROVE  UndisturbedInv'
<1> USE DEF Call, Recovering
<1>0. PathIsOldOrNew /\ ReplaceUndisturbed /\ RecoveryUndisturbed /\ ~deleted
  BY DEF UndisturbedInv, ReplaceUndisturbed
<1>1. CallsLeft /\ FilesHeld /\ RecoveryMoves /\ op' = op
  BY CallsMove DEF RecoveryInv, RecoveryMoves
<1>2. ~CompleteCommitFails /\ ~RestoreOldFails
  BY DEF CompleteCommitFails, RestoreOldFails, RecoveryInv, TypeOK, AtomicTextTypeOK
<1>3. UNCHANGED <<item, journals, deleted>> /\ pc \in ItemCalls
  BY DEF DropSave, DropStagedBytes, DropJournal, RewritePhase, Rewrite, RenameSave, CompleteCommit,
     CompleteCommitFails, RestoreOld, RestoreOldFails, RestoredOld, AfterRestore, ItemCalls
<1>4. item \in Ops /\ pc \in RecoverySteps
  BY <1>3 DEF RecoveryInv, RegistersNamed, ItemCalls
<1>5. /\ pc \in {"drop_save", "recover_drop_staged", "recover_restored"} => target # None
      /\ target = None => TakenAside /\ staged[op] # None /\ journal[op] = "active"
      /\ target = None /\ pc \notin {"recover_link", "recover_restore"} => op \in journals
  BY <1>0, <1>3 DEF RecoveryInv, VisibleBeforeUnlink, Visible, PathIsOldOrNew, TakenAside, ItemCalls
<1> USE Shapes
<1>6. CASE DropSave
  <2>1. \/ pc' = "drop_journal" /\ plan = <<"drop_journal">>
        \/ pc' = "recover_drop_staged"
    BY <1>1, <1>6, FollowCalls DEF DropSave, CallsLeft
  <2>2. pc = "drop_save" /\ UNCHANGED <<target, staged, journal>>
    BY <1>6 DEF DropSave
  <2>3. RecoveryUndisturbed'
    BY <1>0, <1>3, <2>1, <2>2 DEF RecoveryUndisturbed
  <2> QED BY <1>0, <1>1, <1>3, <1>4, <1>5, <2>1, <2>2, <2>3, MovesKeepText
<1>7. CASE DropStagedBytes
  <2>1. \/ pc' = "drop_journal" /\ plan' = <<>>
        \/ pc' = "drop_save" /\ plan' = <<"drop_journal">>
    BY <1>1, <1>7, FollowCalls, FollowPlan DEF DropStagedBytes
  <2>2. pc = "recover_drop_staged" /\ UNCHANGED <<target, journal>> /\ staged' = [staged EXCEPT ![item] = None]
    BY <1>7 DEF DropStagedBytes
  <2>3. RecoveryUndisturbed'
    BY <1>0, <1>3, <1>4, <2>1, <2>2 DEF RecoveryUndisturbed
  <2> QED BY <1>0, <1>1, <1>3, <1>4, <1>5, <2>1, <2>2, <2>3, MovesKeepText
<1>8. CASE DropJournal
  <2>1. pc' = "journals"
    BY <1>1, <1>8, FollowCalls, FollowPlan DEF DropJournal
  <2>2. pc = "drop_journal" /\ UNCHANGED <<target, staged>> /\ journal' = [journal EXCEPT ![item] = "none"]
    BY <1>8 DEF DropJournal
  <2>3. RecoveryUndisturbed' /\ staged[item] = None
    BY <1>0, <1>3, <1>4, <2>1, <2>2 DEF RecoveryUndisturbed
  <2> QED BY <1>0, <1>1, <1>3, <1>4, <1>5, <2>1, <2>2, <2>3, MovesKeepText
<1>9. CASE RewritePhase
  <2>1. pc' \in {"journals", "pending_rename"}
    BY <1>1, <1>9, FollowCalls, FollowPlan DEF RewritePhase, Rewrite
  <2>2. /\ pc \in {"pending", "manual", "postcommit"} /\ UNCHANGED <<target, staged>>
        /\ \E phase \in {"pending", "manual", "postcommit"} : journal' = [journal EXCEPT ![item] = phase]
    BY <1>9 DEF RewritePhase, Rewrite
  <2>3. RecoveryUndisturbed' /\ (target = None => item # op)
    BY <1>0, <1>1, <1>3, <1>4, <2>1, <2>2 DEF RecoveryUndisturbed
  <2> QED BY <1>0, <1>1, <1>3, <1>4, <1>5, <2>1, <2>2, <2>3, MovesKeepText
<1>10. CASE RenameSave
  <2>1. pc' = "manual"
    BY <1>1, <1>10, FollowCalls, FollowPlan DEF RenameSave
  <2>2. pc = "pending_rename" /\ UNCHANGED <<target, staged, journal>>
    BY <1>10 DEF RenameSave
  <2>3. RecoveryUndisturbed'
    BY <1>0, <1>1, <1>3, <2>1, <2>2 DEF RecoveryUndisturbed
  <2> QED BY <1>0, <1>1, <1>3, <1>4, <1>5, <2>1, <2>2, <2>3, MovesKeepText
<1>11. CASE CompleteCommit
  <2>1. target = None /\ item = op
    BY <1>0, <1>11 DEF CompleteCommit, RecoveryUndisturbed
  <2>2. content[save[op]] = request[op].replacement /\ save[op] # None
    BY <1>0, <1>1, <1>11, <2>1 DEF CompleteCommit, RecoveryUndisturbed, FilesHeld
  <2>3. target' = save[op] /\ UNCHANGED <<staged, journal, content, request, outcome>>
    BY <1>1, <1>11, <2>1 DEF CompleteCommit, RecoveryMoves
  <2>4. pc' = "drop_save" /\ plan' = <<"recover_drop_staged", "drop_journal">>
    BY <1>1, <1>11, <2>1, FollowCalls, FollowPlan DEF CompleteCommit
  <2>5. outcome[op] = "lost"
    BY <1>3, <1>4, <1>5, <2>1 DEF TakenAside, RecoveryInv, RunningIsCurrent, ItemCalls
  <2>6. OldOrNew(content[target])'
    <3>1. \A a \in Acknowledged : a < op
      BY <2>5, AcknowledgedBefore
    <3>2. Acknowledged' = Acknowledged
      BY <2>3 DEF Acknowledged
    <3> QED BY <1>1, <1>4, <2>1, <2>2, <2>3, <2>5, <3>1, <3>2 DEF OldOrNew
  <2>7. PathIsOldOrNew' /\ ReplaceUndisturbed'
    BY <1>0, <1>3, <2>2, <2>3, <2>4, <2>6 DEF PathIsOldOrNew, ReplaceUndisturbed, LinkedSteps
  <2>8. RecoveryUndisturbed'
    BY <1>0, <2>3, <2>4 DEF RecoveryUndisturbed
  <2> QED BY <2>7, <2>8 DEF UndisturbedInv
<1>12. CASE RestoreOld
  <2>1. target = None /\ item = op
    BY <1>0, <1>12 DEF RestoreOld, RecoveryUndisturbed
  <2>2. target' = staged[op] /\ UNCHANGED <<staged, journal, content, request, outcome>>
    BY <1>1, <1>12, <2>1 DEF RestoreOld, RecoveryMoves
  <2>3. pc' = "recover_restored" /\ plan' = <<"recover_rest">>
    BY <1>1, <1>12, <2>1, FollowCalls DEF RestoreOld
  <2>4. \A c : OldOrNew(c) => OldOrNew(c)'
    BY <2>2, OldOrNewStays
  <2>5. PathIsOldOrNew' /\ ReplaceUndisturbed'
    BY <1>0, <1>1, <1>3, <1>5, <2>1, <2>2, <2>3, <2>4
       DEF PathIsOldOrNew, TakenAside, ReplaceUndisturbed, LinkedSteps
  <2>6. RecoveryUndisturbed'
    BY <1>0, <2>2, <2>3 DEF RecoveryUndisturbed
  <2> QED BY <2>5, <2>6 DEF UndisturbedInv
<1>13. CASE RestoredOld
  <2>1. pc' = "recover_rest"
    BY <1>1, <1>13, FollowCalls, FollowPlan DEF RestoredOld
  <2>2. pc = "recover_restored" /\ UNCHANGED <<target, journal>> /\ staged' = [staged EXCEPT ![item] = None]
    BY <1>13 DEF RestoredOld
  <2>3. RecoveryUndisturbed'
    BY <1>0, <1>3, <1>4, <2>1, <2>2 DEF RecoveryUndisturbed
  <2> QED BY <1>0, <1>1, <1>3, <1>4, <1>5, <2>1, <2>2, <2>3, MovesKeepText
<1>14. CASE AfterRestore
  <2>1. pc' \in {"pending", "manual", "drop_journal"}
    BY <1>1, <1>14, FollowCalls DEF AfterRestore, QuarantineSave
  <2>2. pc = "recover_rest" /\ UNCHANGED <<target, staged, journal>> /\ staged[item] = None
    BY <1>0, <1>14 DEF AfterRestore, RecoveryUndisturbed
  <2>3. RecoveryUndisturbed'
    BY <1>0, <1>1, <1>3, <1>5, <2>1, <2>2 DEF RecoveryUndisturbed
  <2> QED BY <1>0, <1>1, <1>3, <1>4, <1>5, <2>1, <2>2, <2>3, MovesKeepText
<1> QED BY <1>2, <1>6, <1>7, <1>8, <1>9, <1>10, <1>11, <1>12, <1>13, <1>14

LEMMA OrphansKeepText ==
  ASSUME RecoveryInv, EditInv, JournalOfLast, UndisturbedInv, NEW a \in Ops,
         \/ \E rank \in 1 .. 3 : OrphanGone(rank, a)
         \/ \E rank \in 1 .. 2 : OrphanRestored(rank, a) \/ OrphanRestoreFails(rank, a)
         \/ OrphanStagedKept(a) \/ OrphanRemoved(a) \/ OrphanSave(a)
  PROVE  UndisturbedInv'
<1>0. PathIsOldOrNew /\ ReplaceUndisturbed /\ RecoveryUndisturbed
  BY DEF UndisturbedInv
<1>1. pc = "orphans" /\ UNCHANGED <<journal, deleted>>
  BY DEF OrphanGone, OrphanRestored, OrphanRestoreFails, OrphanStagedKept, OrphanRemoved, OrphanSave,
     Judge, Recovering
<1>2. target # None
  BY <1>0, <1>1 DEF PathIsOldOrNew, TakenAside, JournalOfLast
<1>3. ~OrphanRemoved(a)
  BY DEF OrphanRemoved, Judge, EditInv, OnlySaves
<1>4. UNCHANGED <<target, staged>> /\ pc' = "orphans"
  BY <1>1, <1>2, <1>3 DEF OrphanGone, OrphanRestored, OrphanRestoreFails, OrphanStagedKept, OrphanSave, Judge
<1>5. RecoveryUndisturbed'
  BY <1>0, <1>1, <1>4 DEF RecoveryUndisturbed
<1> QED BY <1>0, <1>1, <1>2, <1>4, <1>5, OrphansMove, MovesKeepText

LEMMA PassesKeepText ==
  ASSUME RecoveryInv, EditInv, JournalOfLast, ActiveIsSettled, UndisturbedInv,
         Restart \/ ListDirectory \/ JournalsSettled \/ NextPass \/ OrphanUnstaged
  PROVE  UndisturbedInv'
<1>0. PathIsOldOrNew /\ ReplaceUndisturbed /\ RecoveryUndisturbed /\ ~deleted
  BY DEF UndisturbedInv, ReplaceUndisturbed
<1>1. RecoveryMoves /\ pc \in RecoverySteps /\ UNCHANGED <<target, journal, deleted>>
  BY PassesMove DEF Restart, ListDirectory, JournalsSettled, NextPass, OrphanUnstaged, Recovering
<1>2. target = None => op \in Ops /\ journal[op] = "active" /\ (pc = "journals" => op \in journals)
  BY <1>0 DEF PathIsOldOrNew, TakenAside
<1>3. CASE Restart
  <2>1. pc' = "list" /\ staged' = staged
    BY <1>3 DEF Restart
  <2>2. RecoveryUndisturbed'
    BY <1>0, <1>1, <2>1 DEF RecoveryUndisturbed
  <2> QED BY <1>0, <1>1, <2>1, <2>2, MovesKeepText
<1>4. CASE ListDirectory
  <2>1. pc = "list" /\ pc' = "journals" /\ staged' = staged /\ journals' = {a \in Ops : journal[a] # "none"} \ terminal
    BY <1>4 DEF ListDirectory
  <2>2. RecoveryUndisturbed'
    BY <1>0, <1>1, <2>1 DEF RecoveryUndisturbed
  <2>3. target = None => op \in journals'
    BY <1>2, <2>1 DEF ActiveIsSettled
  <2> QED BY <1>0, <1>1, <2>1, <2>2, <2>3, MovesKeepText
<1>5. CASE JournalsSettled \/ NextPass
  <2>1. target # None /\ staged' = staged /\ pc' \in {"orphans", "list"}
    BY <1>2, <1>5 DEF JournalsSettled, NextPass, JournalOfLast
  <2>2. RecoveryUndisturbed'
    BY <1>0, <1>1, <2>1 DEF RecoveryUndisturbed
  <2> QED BY <1>0, <1>1, <2>1, <2>2, MovesKeepText
<1>6. CASE OrphanUnstaged
  <2>1. pc = "orphan_restored" /\ pc' = "orphans" /\ staged' = [staged EXCEPT ![item] = None]
    BY <1>6 DEF OrphanUnstaged
  <2>2. target # None
    BY <1>0, <2>1 DEF RecoveryInv, VisibleBeforeUnlink, Visible
  <2>3. RecoveryUndisturbed'
    BY <1>0, <1>1, <2>1, Shapes DEF RecoveryUndisturbed
  <2> QED BY <1>0, <1>1, <2>2, <2>3, MovesKeepText
<1> QED BY <1>3, <1>4, <1>5, <1>6

LEMMA NextKeepsText ==
  ASSUME MaxFaults = 0, "remove" \notin Callers, RecoveryInv, RefusalInv, EditInv, TextInv, [Next]_allVars
  PROVE  TextInv'
<1>1. JournalOfLast /\ ActiveIsSettled /\ external \in Nat
  BY DEF TextInv, RecoveryInv, TypeOK, AtomicTextTypeOK
<1>2. JournalOfLast' /\ ActiveIsSettled'
  <2>1. CASE Commit /\ UNCHANGED recoveryVars
    BY <1>1, <2>1, StepKeepsJournals DEF Commit
  <2>2. CASE (Client \/ External) /\ UNCHANGED <<quarantine, pass, crashes>>
    BY <1>1, <2>2, OthersKeepJournals
  <2>3. CASE Recovery
    BY <1>1, <2>3, SettlesKeepJournals, CallsKeepJournals, OrphansKeepJournals, PassesKeepJournals,
       OthersKeepJournals DEF Recovery
  <2>4. CASE Crash \/ UNCHANGED allVars
    BY <1>1, <2>4, OthersKeepJournals
  <2> QED BY <2>1, <2>2, <2>3, <2>4 DEF Next
<1>3. ASSUME external' = 0
      PROVE  UndisturbedInv'
  <2>1. external = 0 /\ (External => ExternalOpen)
    <3>1. External => (ExternalOpen /\ external' = external) \/ external' = external + 1
      BY DEF External, ExternalOpen, ExternalReplace, ExternalWrite, ExternalDelete, Outside
    <3>2. external' = external \/ External
      <4>1. Recovery => external' = external
        BY RecoveryMovesOrServes DEF RecoveryMoves, Serve
      <4> QED BY <4>1 DEF Next, Commit, Client, Crash
    <3> QED BY <1>1, <1>3, <3>1, <3>2
  <2>2. UndisturbedInv
    BY <2>1 DEF TextInv
  <2>3. CASE Commit /\ UNCHANGED recoveryVars
    BY <1>1, <2>2, <2>3, StepKeepsText DEF Commit
  <2>4. CASE (Client \/ External) /\ UNCHANGED <<quarantine, pass, crashes>>
    BY <1>1, <2>1, <2>2, <2>4, OthersKeepText
  <2>5. CASE Recovery
    BY <1>1, <2>2, <2>5, SettlesKeepText, CallsKeepText, OrphansKeepText, PassesKeepText,
       OthersKeepText DEF Recovery
  <2>6. CASE Crash \/ UNCHANGED allVars
    BY <1>1, <2>2, <2>6, OthersKeepText
  <2> QED BY <2>3, <2>4, <2>5, <2>6 DEF Next
<1> QED BY <1>2, <1>3 DEF TextInv

(* Without failing calls and removals TextInv holds throughout. *)
THEOREM TextInvariant ==
  ASSUME MaxFaults = 0, "remove" \notin Callers
  PROVE  Spec => []TextInv
<1>1. ASSUME Init
      PROVE  TextInv
  <2>1. JournalOfLast /\ ActiveIsSettled
    BY <1>1 DEF Init, AtomicTextInit, JournalOfLast, ActiveIsSettled, ItemCalls
  <2>2. target = 0 /\ content[0] = Base /\ Acknowledged = {}
    BY <1>1 DEF Init, AtomicTextInit, Acknowledged
  <2>3. PathIsOldOrNew
    BY <2>2 DEF PathIsOldOrNew, OldOrNew
  <2>4. ReplaceUndisturbed /\ RecoveryUndisturbed
    BY <1>1 DEF Init, AtomicTextInit, ReplaceUndisturbed, RecoveryUndisturbed, LinkedSteps
  <2> QED BY <2>1, <2>3, <2>4 DEF TextInv, UndisturbedInv
<1>2. RecoveryInv /\ RefusalInv /\ EditInv /\ TextInv /\ [Next]_allVars => TextInv'
  BY NextKeepsText
<1> QED BY <1>1, <1>2, Invariant, RefusalInvariant, EditInvariant, PTL DEF Spec

(* Atomic text writes and their recovery: with no writer but the server,   *)
(* whenever requests are accepted, after any number of crashes, the path   *)
(* holds the last acknowledged bytes or those of a later save whose caller *)
(* never got an answer.                                                    *)
THEOREM TextIsOldOrNew ==
  ASSUME MaxFaults = 0, "remove" \notin Callers
  PROVE  Spec => []AllOldOrAllNew
<1>1. TextInv => AllOldOrAllNew
  <2> SUFFICES ASSUME TextInv, external = 0, pc = "idle"
               PROVE  target # None /\ OldOrNew(content[target])
    BY DEF AllOldOrAllNew, OldOrNew
  <2> QED BY DEF TextInv, UndisturbedInv, PathIsOldOrNew, TakenAside, LinkedSteps
<1> QED BY <1>1, TextInvariant, PTL

-----------------------------------------------------------------------------
(* Recovery is idempotent: IdempotentInv is inductive, for operations of   *)
(* every kind and any number of external steps, failing calls and crashes. *)

(* A call of an operation is followed by one, or by its end.               *)
LEMMA CommitGoesOn ==
  ASSUME Commit
  PROVE  pc \in CommitSteps \ {"idle"} /\ pc' \in CommitSteps
<1>1. ASSUME Step PROVE pc \in CommitSteps \ {"idle"} /\ pc' \in CommitSteps
  BY <1>1 DEF Step, WriteTemp, OpenJournal, WriteJournal, Capture, Takeover, VerifyOwner, VerifyBytes,
     Link, LinkFails, DropStaged, RestoreLink, RestoreLinkFails, RestoreClean, RestoreStat, RestoreRename,
     FinalCheck, Mark, MarkFails, MarkTemp, CleanTemp, CleanStaged, CleanJournal, FailTemp, FailJournal,
     CreateClean, RemoveCapture, RemoveVerify, RemoveRename, RemoveCheck, Goto, Fail, Report, EndRestore
<1> QED BY <1>1 DEF Commit, CreateLink, RemoveUnlink, Goto, Fail, Report

(* What is left at rest is forgotten when anybody but recovery acts, and a *)
(* death only forgets the pass.                                            *)
LEMMA OthersKeepIdempotent ==
  ASSUME RecoveryInv, IdempotentInv,
         \/ Commit /\ UNCHANGED recoveryVars
         \/ (Client \/ External) /\ quiet' = FALSE /\ settled' = None /\ UNCHANGED <<quarantine, pass, crashes>>
         \/ Crash
         \/ UNCHANGED allVars
  PROVE  IdempotentInv'
<1> USE Shapes DEF IdempotentInv, PassesAgree
<1>1. CASE Commit /\ UNCHANGED recoveryVars
  <2>1. pc \in CommitSteps \ {"idle"} /\ pc' \in CommitSteps
    BY <1>1, CommitGoesOn
  <2>2. pc' \notin RecoverySteps
    BY <2>1
  <2>3. Rested'
    BY <1>1, <2>1 DEF Rested
  <2> QED BY <1>1, <2>1, <2>2, <2>3
<1>2. CASE (Client \/ External) /\ quiet' = FALSE /\ settled' = None /\ UNCHANGED <<quarantine, pass, crashes>>
  <2>1. CASE Client
    <3>1. pc = "idle" /\ pc' \in CommitSteps
      BY <2>1 DEF Client, Begin, Load, OpenTemp, BeginRemove, Enters
    <3> QED BY <1>2, <3>1 DEF Rested
  <2>2. CASE External
    <3>1. UNCHANGED <<pc, journal, request>>
      BY <2>2 DEF External, ExternalReplace, ExternalWrite, ExternalDelete, ExternalOpen, Outside
    <3> QED BY <1>2, <3>1 DEF Rested, Unsettled, Rank
  <2> QED BY <1>2, <2>1, <2>2
<1>3. CASE Crash
  <2>1. PassesAgree'
    BY <1>3 DEF Crash, ForgetPass
  <2>2. Rested'
    BY <1>3 DEF Crash, ForgetPass, Rested, AtRest, Unsettled, Rank, Directory
  <2> QED BY <1>3, <2>1, <2>2 DEF Crash
<1>4. CASE UNCHANGED allVars
  <2>1. PassesAgree'
    BY <1>4 DEF Unsettled, Rank
  <2>2. JournalsInTurn /\ FilesInTurn => JournalsInTurn' /\ FilesInTurn'
    BY <1>4 DEF JournalsInTurn, FilesInTurn, Unsettled, Rank
  <2>3. Rested'
    BY <1>4 DEF Rested, AtRest, Unsettled, Rank, Directory
  <2> QED BY <1>4, <2>1, <2>2, <2>3
<1> QED BY <1>1, <1>2, <1>3, <1>4

(* A journal that is taken up is in hand until it is settled, and at rest  *)
(* there is none to settle.                                                *)
LEMMA SettlesKeepIdempotent ==
  ASSUME RecoveryInv, IdempotentInv, NEW a \in Ops,
         \/ SettleUnstarted(a) \/ SettleLanded(a) \/ SettleOccupied(a)
         \/ SettleInterrupted(a) \/ SettlePending(a) \/ SettleRetained(a)
  PROVE  IdempotentInv'
<1> USE DEF IdempotentInv
<1>1. ASSUME NEW calls, NEW reports, Settle(a, calls, reports)
      PROVE  /\ pc = "journals" /\ a \in journals /\ journals' = journals \ {a} /\ item' = a
             /\ UNCHANGED <<target, save, staged, quarantine, journal, request, listed, orphans>>
             /\ UNCHANGED <<faults, quiet, settled>>
             /\ terminal' \in {terminal, terminal \cup {a}}
             /\ reports \cap {"changed", "occupied", "retained", "resumed"} = {} => terminal' = terminal
  BY <1>1 DEF Settle, Recovering
<1>2. /\ pc = "journals" /\ a \in journals /\ journals' = journals \ {a} /\ item' = a
      /\ UNCHANGED <<target, save, staged, quarantine, journal, request, listed, orphans>>
      /\ UNCHANGED <<faults, quiet, settled>>
      /\ terminal' \in {terminal, terminal \cup {a}}
  BY <1>1 DEF SettleUnstarted, SettleLanded, SettleOccupied, SettleInterrupted, SettlePending, SettleRetained
<1>3. /\ journal[a] # "none" /\ pc' \in ItemCalls \cup {"journals"}
      /\ pc' = "journals" <=> ~Unsettled(a)
      /\ terminal' = terminal \/ ~Unsettled(a) \/ pc' \in {"postcommit", "pending", "pending_rename", "manual"}
  <2> USE DEF Unsettled, Active, ItemCalls
  <2>1. CASE SettleUnstarted(a)
    <3>1. pc' \in {"drop_save", "drop_journal"}
      BY <2>1, FollowCalls DEF SettleUnstarted, Settle
    <3>2. PICK calls, reports : Settle(a, calls, reports)
                               /\ reports \subseteq {"journal cleaned", "save cleaned", "save kept"}
      BY <2>1 DEF SettleUnstarted
    <3>3. terminal' = terminal
      BY <1>1, <3>2
    <3> QED BY <2>1, <3>1, <3>3 DEF SettleUnstarted
  <2>2. CASE SettleLanded(a)
    <3>1. \/ pc' = "postcommit"
          \/ pc' = "recover_drop_staged" /\ Settle(a, <<"recover_drop_staged", "drop_save", "drop_journal">>, {"landed"})
      BY <2>2, FollowCalls DEF SettleLanded, Settle
    <3>2. pc' = "postcommit" \/ terminal' = terminal
      BY <1>1, <3>1
    <3> QED BY <2>2, <3>1, <3>2 DEF SettleLanded
  <2>3. CASE SettleOccupied(a)
    <3>1. pc' \in {"pending", "manual"}
      BY <2>3, FollowCalls DEF SettleOccupied, Settle, QuarantineSave
    <3> QED BY <2>3, <3>1 DEF SettleOccupied
  <2>4. CASE SettleInterrupted(a)
    <3>1. pc' \in {"recover_link", "recover_restore"}
      BY <2>4, FollowCalls DEF SettleInterrupted, Settle, BothIntact
    <3>2. terminal' = terminal
      BY <1>1, <2>4 DEF SettleInterrupted
    <3> QED BY <2>4, <3>1, <3>2 DEF SettleInterrupted
  <2>5. CASE SettlePending(a)
    <3>1. pc' \in {"pending_rename", "manual"}
      BY <2>5, FollowCalls DEF SettlePending, Settle
    <3> QED BY <2>5, <3>1 DEF SettlePending
  <2>6. CASE SettleRetained(a)
    <3>1. pc' = "journals"
      BY <2>6, FollowCalls DEF SettleRetained, Settle
    <3> QED BY <2>6, <3>1 DEF SettleRetained
  <2> QED BY <2>1, <2>2, <2>3, <2>4, <2>5, <2>6
<1>4. pc' \in RecoverySteps \ {"down", "list"} /\ pc' \notin CommitSteps
  BY <1>3 DEF ItemCalls
<1>5. PassesAgree'
  BY <1>2, <1>3, <1>4 DEF PassesAgree, Unsettled, Rank
<1>6. JournalsInTurn => JournalsInTurn'
  BY <1>2, <1>3 DEF JournalsInTurn, Unsettled, ItemCalls
<1>7. FilesInTurn => FilesInTurn'
  BY <1>2, <1>3 DEF FilesInTurn, Rank, ItemCalls
<1>8. Rested'
  <2> SUFFICES ASSUME settled # None, faults = 0
               PROVE  (Directory = settled /\ AtRest /\ pc \in {"idle", "down", "list", "journals", "orphans"})'
    BY <1>2 DEF Rested
  <2>1. AtRest /\ Directory = settled
    BY DEF Rested
  <2>2. pc' = "journals"
    BY <1>3, <2>1 DEF AtRest
  <2> QED BY <1>2, <2>1, <2>2 DEF AtRest, Unsettled, Rank, Directory
<1> QED BY <1>2, <1>4, <1>5, <1>6, <1>7, <1>8

(* The calls for a journal go on until it is settled or gone, unless a     *)
(* call fails; they give no file a hidden name.                            *)
LEMMA CallsKeepIdempotent ==
  ASSUME RecoveryInv, IdempotentInv,
         \/ DropSave \/ DropStagedBytes \/ DropJournal \/ RewritePhase \/ RenameSave
         \/ CompleteCommit \/ CompleteCommitFails \/ RestoreOld \/ RestoreOldFails
         \/ RestoredOld \/ AfterRestore
  PROVE  IdempotentInv'
<1> USE DEF IdempotentInv, Call, Recovering
<1>1. CallsLeft /\ RecoveryMoves /\ journal \in [Ops -> JournalStates] /\ faults \in Nat
  BY CallsMove, Shapes DEF RecoveryInv, TypeOK, AtomicTextTypeOK
<1>2. /\ UNCHANGED <<item, journals, listed, orphans, terminal, request, quiet, settled>>
      /\ pc \in ItemCalls
  BY DEF DropSave, DropStagedBytes, DropJournal, RewritePhase, Rewrite, RenameSave, CompleteCommit,
     CompleteCommitFails, RestoreOld, RestoreOldFails, RestoredOld, AfterRestore, ItemCalls
<1>3. item \in Ops
  BY <1>2 DEF RecoveryInv, RegistersNamed, ItemCalls
<1>4. faults' = faults \/ faults' = faults + 1
  BY DEF DropSave, DropStagedBytes, DropJournal, RewritePhase, Rewrite, RenameSave, CompleteCommit,
     CompleteCommitFails, RestoreOld, RestoreOldFails, RestoredOld, AfterRestore
<1>5. faults' = 0 => faults = 0
  BY <1>1, <1>4
<1>6. ASSUME pc' \in ItemCalls \cup {"journals"},
             \A a \in Ops : journal'[a] = journal[a] \/ a = item,
             pc' = "journals" => ~Unsettled(item)' \/ faults' # 0,
             Unsettled(item)' =>
               \/ pc' \in {"postcommit", "pending", "pending_rename", "manual"}
               \/ /\ pc \notin {"postcommit", "pending", "pending_rename", "manual"}
                  /\ journal'[item] = journal[item]
      PROVE  IdempotentInv'
  <2>1. pc' \in RecoverySteps \ {"down", "list"} /\ pc' \notin CommitSteps /\ pc' \notin {"orphans", "orphan_restored"}
    BY <1>6 DEF ItemCalls
  <2>2. PassesAgree'
    <3>1. \A a \in terminal : Unsettled(a)' =>
            item = a /\ pc' \in {"postcommit", "pending", "pending_rename", "manual"}
      <4> SUFFICES ASSUME NEW a \in terminal, Unsettled(a)'
                   PROVE  item = a /\ pc' \in {"postcommit", "pending", "pending_rename", "manual"}
        OBVIOUS
      <4>1. a \in Ops
        BY Shapes DEF RecoveryInv, TypeOK
      <4>2. Unsettled(a) => item = a /\ pc \in {"postcommit", "pending", "pending_rename", "manual"}
        BY DEF PassesAgree
      <4>3. item = a
        BY <1>6, <4>1, <4>2 DEF Unsettled
      <4> QED BY <1>2, <1>6, <4>2, <4>3 DEF Unsettled
    <3> QED BY <1>2, <2>1, <3>1 DEF PassesAgree, Rank
  <2>3. JournalsInTurn /\ faults' = 0 => JournalsInTurn'
    BY <1>2, <1>6 DEF JournalsInTurn, Unsettled, ItemCalls
  <2>4. FilesInTurn => FilesInTurn'
    BY <1>1, <1>2, <1>6, <2>1 DEF FilesInTurn, RecoveryMoves, Rank
  <2>5. Rested'
    BY <1>2, <1>5 DEF Rested, ItemCalls
  <2>6. pc \in RecoverySteps \ {"down", "list"}
    BY <1>2 DEF ItemCalls
  <2> QED BY <1>2, <1>5, <2>1, <2>2, <2>3, <2>4, <2>5, <2>6
<1> HIDE DEF IdempotentInv
<1> USE DEF ItemCalls, Unsettled
<1>7. CASE DropSave
  <2>1. pc' \in {"drop_journal", "recover_drop_staged"} /\ journal' = journal /\ pc = "drop_save"
    BY <1>1, <1>7, FollowCalls, FollowPlan DEF DropSave
  <2> QED BY <1>6, <2>1
<1>8. CASE DropStagedBytes
  <2>1. pc' \in {"drop_journal", "drop_save"} /\ journal' = journal /\ pc = "recover_drop_staged"
    BY <1>1, <1>8, FollowCalls, FollowPlan DEF DropStagedBytes
  <2> QED BY <1>6, <2>1
<1>9. CASE DropJournal
  <2>1. pc' = "journals" /\ journal' = [journal EXCEPT ![item] = "none"]
    BY <1>1, <1>9, FollowCalls, FollowPlan DEF DropJournal
  <2>2. journal'[item] = "none" /\ \A a \in Ops : journal'[a] = journal[a] \/ a = item
    BY <1>1, <1>3, <2>1
  <2>3. ~Unsettled(item)'
    BY <1>2, <2>2
  <2> QED BY <1>6, <2>1, <2>2, <2>3
<1>10. CASE RewritePhase
  <2>1. \/ pc' = "pending_rename" /\ journal' = [journal EXCEPT ![item] = "pending"]
        \/ pc' = "journals" /\ journal' = [journal EXCEPT ![item] = "manual"]
        \/ pc' = "journals" /\ journal' = [journal EXCEPT ![item] = "postcommit"]
    BY <1>1, <1>10, FollowCalls, FollowPlan DEF RewritePhase, Rewrite
  <2>2. \A a \in Ops : journal'[a] = journal[a] \/ a = item
    BY <1>1, <1>3, <2>1
  <2>3. \A s \in {"pending", "manual", "postcommit"} :
          journal' = [journal EXCEPT ![item] = s] => journal'[item] = s
    BY <1>1, <1>3
  <2>4. pc' \in {"pending_rename", "journals"} /\ (pc' = "journals" => ~Unsettled(item)')
    BY <1>2, <2>1, <2>3
  <2> QED BY <1>6, <2>2, <2>4
<1>11. CASE RenameSave
  <2>1. pc' = "manual" /\ journal' = journal
    BY <1>1, <1>11, FollowCalls, FollowPlan DEF RenameSave
  <2>2. \A a \in Ops : journal'[a] = journal[a] \/ a = item
    BY <2>1
  <2> QED BY <1>6, <2>1, <2>2
<1>12. CASE CompleteCommit
  <2>1. pc' \in {"drop_save", "recover_restore"} /\ journal' = journal /\ pc = "recover_link"
    BY <1>1, <1>12, FollowCalls, FollowPlan DEF CompleteCommit
  <2> QED BY <1>6, <2>1
<1>13. CASE CompleteCommitFails
  <2>1. pc' = "journals" /\ journal' = journal /\ pc = "recover_link" /\ faults' = faults + 1
    BY <1>13, FollowCalls DEF CompleteCommitFails
  <2> QED BY <1>1, <1>6, <2>1
<1>14. CASE RestoreOld
  <2>1. pc' \in {"recover_restored", "recover_rest"} /\ journal' = journal /\ pc = "recover_restore"
    BY <1>14, FollowCalls DEF RestoreOld
  <2> QED BY <1>6, <2>1
<1>15. CASE RestoreOldFails
  <2>1. pc' = "recover_rest" /\ journal' = journal /\ pc = "recover_restore"
    BY <1>15, FollowCalls DEF RestoreOldFails
  <2> QED BY <1>6, <2>1
<1>16. CASE RestoredOld
  <2>1. pc' = "recover_rest" /\ journal' = journal /\ pc = "recover_restored"
    BY <1>1, <1>16, FollowPlan DEF RestoredOld
  <2> QED BY <1>6, <2>1
<1>17. CASE AfterRestore
  <2>1. pc' \in {"pending", "manual", "drop_journal"} /\ journal' = journal /\ pc = "recover_rest"
    BY <1>17, FollowCalls DEF AfterRestore, QuarantineSave
  <2> QED BY <1>6, <2>1
<1> QED BY <1>7, <1>8, <1>9, <1>10, <1>11, <1>12, <1>13, <1>14, <1>15, <1>16, <1>17

(* A hidden file is restored, dropped, or kept for a reason that lasts: a  *)
(* staged file because the path is taken, a save file because there is     *)
(* neither a document nor a staged file to restore.  At rest there is      *)
(* nothing to restore and nothing to drop.                                 *)
LEMMA OrphansKeepIdempotent ==
  ASSUME RecoveryInv, IdempotentInv, NEW a \in Ops,
         \/ \E rank \in 1 .. 3 : OrphanGone(rank, a)
         \/ \E rank \in 1 .. 2 : OrphanRestored(rank, a) \/ OrphanRestoreFails(rank, a)
         \/ OrphanStagedKept(a) \/ OrphanRemoved(a) \/ OrphanSave(a)
  PROVE  IdempotentInv'
<1> USE DEF IdempotentInv
<1>1. /\ staged \in [Ops -> Inodes \cup {None}] /\ save \in [Ops -> Inodes \cup {None}] /\ faults \in Nat
      /\ \A b \in Ops : Rank(b) \in {1, 2}
  BY Shapes DEF Rank, RecoveryInv, TypeOK, AtomicTextTypeOK
<1> DEFINE Judged(rank) ==
      /\ pc = "orphans" /\ <<rank, a>> \in orphans /\ \A x \in orphans : rank <= x[1]
      /\ orphans' = orphans \ {<<rank, a>>} /\ item' = a
      /\ UNCHANGED <<journal, quarantine, listed, journals, terminal, request, quiet, settled>>
<1> DEFINE Gone(rank) ==
      /\ (IF rank = 3 THEN save[a] ELSE staged[a]) = None
      /\ UNCHANGED <<target, save, staged, faults, pc>>
<1> DEFINE Restored(rank) ==
      /\ rank < 3 /\ staged[a] # None /\ target = None
      /\ target' = staged[a] /\ pc' = "orphan_restored" /\ UNCHANGED <<save, staged, faults>>
<1> DEFINE Failed == faults' = faults + 1 /\ UNCHANGED <<target, save, staged, pc>>
<1> DEFINE Kept(rank) ==
      rank = 1 /\ staged[a] # None /\ target # None /\ UNCHANGED <<target, save, staged, faults, pc>>
<1> DEFINE Removed(rank) ==
      /\ rank = 2 /\ staged[a] # None /\ target # None
      /\ staged' = [staged EXCEPT ![a] = None] /\ UNCHANGED <<target, save, faults, pc>>
<1> DEFINE Saved(rank) ==
      /\ rank = 3 /\ save[a] # None /\ UNCHANGED <<target, staged, faults, pc>>
      /\ save' = IF target # None THEN [save EXCEPT ![a] = None] ELSE save
<1>2. PICK rank \in 1 .. 3 :
        Judged(rank) /\ (Gone(rank) \/ Restored(rank) \/ Failed \/ Kept(rank) \/ Removed(rank) \/ Saved(rank))
  <2> USE DEF Judge, Recovering
  <2>1. CASE \E rank \in 1 .. 3 : OrphanGone(rank, a)
    <3> PICK rank \in 1 .. 3 : OrphanGone(rank, a)
      BY <2>1
    <3>1. Judged(rank) /\ Gone(rank)
      BY DEF OrphanGone
    <3> QED BY <3>1
  <2>2. CASE \E rank \in 1 .. 2 : OrphanRestored(rank, a)
    <3> PICK rank \in 1 .. 2 : OrphanRestored(rank, a)
      BY <2>2
    <3>1. Judged(rank) /\ Restored(rank)
      BY DEF OrphanRestored
    <3> QED BY <3>1
  <2>3. CASE \E rank \in 1 .. 2 : OrphanRestoreFails(rank, a)
    <3> PICK rank \in 1 .. 2 : OrphanRestoreFails(rank, a)
      BY <2>3
    <3>1. Judged(rank) /\ Failed
      BY DEF OrphanRestoreFails
    <3> QED BY <3>1
  <2>4. CASE OrphanStagedKept(a)
    <3>1. Judged(1) /\ Kept(1)
      BY <2>4 DEF OrphanStagedKept
    <3> QED BY <3>1
  <2>5. CASE OrphanRemoved(a)
    <3>1. Judged(2) /\ Removed(2)
      BY <2>5 DEF OrphanRemoved
    <3> QED BY <3>1
  <2>6. CASE OrphanSave(a)
    <3>1. Judged(3) /\ Saved(3)
      BY <2>6 DEF OrphanSave
    <3> QED BY <3>1
  <2> QED BY <2>1, <2>2, <2>3, <2>4, <2>5, <2>6
<1>3. PassesAgree'
  BY <1>2 DEF PassesAgree, Unsettled, Rank
<1>4. JournalsInTurn => JournalsInTurn'
  BY <1>2 DEF JournalsInTurn, Unsettled, ItemCalls
<1>5. faults' = 0 => faults = 0
  BY <1>1, <1>2
<1>6. ASSUME FilesInTurn, faults' = 0
      PROVE  FilesInTurn'
  <2> USE DEF FilesInTurn, Rank, ItemCalls
  <2>1. \A b \in Ops :
          /\ journal[b] = "none"
          /\ staged[b] # None => <<Rank(b), b>> \in orphans \/ (Rank(b) = 1 /\ target # None)
          /\ save[b] # None => <<3, b>> \in orphans \/ (target = None /\ \A c \in Ops : staged[c] = None)
    BY <1>2, <1>6
  <2>2. CASE Gone(rank)
    BY <1>1, <1>2, <2>1, <2>2
  <2>3. CASE Restored(rank)
    BY <1>1, <1>2, <2>1, <2>3
  <2>4. CASE Failed
    BY <1>1, <1>6, <2>4
  <2>5. CASE Kept(rank)
    BY <1>1, <1>2, <2>1, <2>5
  <2>6. CASE Removed(rank)
    BY <1>1, <1>2, <2>1, <2>6
  <2>7. CASE Saved(rank)
    <3>1. target # None \/ \A b \in Ops : staged[b] = None
      <4> SUFFICES ASSUME NEW b \in Ops, <<Rank(b), b>> \in orphans
                   PROVE  FALSE
        BY <2>1
      <4>1. 3 <= <<Rank(b), b>>[1]
        BY <1>2, <2>7
      <4>2. Rank(b) \in {1, 2}
        BY <1>1
      <4> HIDE DEF Rank
      <4> QED BY <4>1, <4>2
    <3>2. CASE target # None
      BY <1>1, <1>2, <2>1, <2>7, <3>2
    <3>3. CASE target = None
      <4>1. UNCHANGED <<target, save, staged, pc>> /\ \A b \in Ops : staged[b] = None
        BY <2>7, <3>1, <3>3
      <4> QED BY <1>2, <2>1, <3>3, <4>1
    <3> QED BY <3>2, <3>3
  <2> QED BY <1>2, <2>2, <2>3, <2>4, <2>5, <2>6, <2>7
<1>7. Rested'
  <2> SUFFICES ASSUME settled # None, faults' = 0, faults = 0
               PROVE  (Directory = settled /\ AtRest /\ pc \in {"idle", "down", "list", "journals", "orphans"})'
    BY <1>2, <1>5 DEF Rested
  <2>1. Directory = settled /\ AtRest /\ FilesInTurn
    BY <1>2 DEF Rested, PassesAgree
  <2>2. \A b \in Ops : journal[b] = "none"
    BY <1>2, <2>1 DEF FilesInTurn
  <2>3. \A b \in Ops : /\ staged[b] # None => target # None /\ Rank(b) = 1
                       /\ save[b] # None => target = None
    BY <2>1, <2>2 DEF AtRest
  <2>4. UNCHANGED <<target, save, staged, pc>>
    <3>1. ~Restored(rank) /\ ~Failed
      BY <1>1, <2>3
    <3>2. ~Removed(rank)
      BY <1>2, <2>3 DEF PassesAgree
    <3>3. Saved(rank) => save' = save
      BY <2>3
    <3> QED BY <1>2, <3>1, <3>2, <3>3
  <2> QED BY <1>2, <2>1, <2>4 DEF AtRest, Unsettled, Rank, Directory
<1> QED BY <1>2, <1>3, <1>4, <1>5, <1>6, <1>7

(* A pass begins with everything there is on its lists, and what it leaves *)
(* when it ends is at rest.                                                *)
LEMMA PassesKeepIdempotent ==
  ASSUME RecoveryInv, IdempotentInv,
         Restart \/ ListDirectory \/ JournalsSettled \/ NextPass \/ OrphanUnstaged \/ Serve
  PROVE  IdempotentInv'
<1> USE DEF IdempotentInv
<1>1. CASE Restart
  <2>1. PassesAgree' /\ Rested'
    BY <1>1 DEF Restart, PassesAgree, Rested, AtRest, Unsettled, Rank, Directory
  <2> QED BY <1>1, <2>1 DEF Restart
<1>2. CASE ListDirectory
  <2>1. PassesAgree'
    BY <1>2 DEF ListDirectory, PassesAgree, Unsettled, Hidden, Rank
  <2>2. JournalsInTurn'
    BY <1>2 DEF ListDirectory, PassesAgree, JournalsInTurn, Unsettled, ItemCalls
  <2>3. FilesInTurn'
    BY <1>2 DEF ListDirectory, FilesInTurn, Hidden, Rank
  <2>4. Rested'
    BY <1>2 DEF ListDirectory, Rested, AtRest, Unsettled, Rank, Directory
  <2> QED BY <2>1, <2>2, <2>3, <2>4
<1>3. CASE JournalsSettled
  <2>1. PassesAgree'
    BY <1>3 DEF JournalsSettled, Recovering, PassesAgree, Unsettled, Rank
  <2>2. JournalsInTurn => JournalsInTurn'
    BY <1>3 DEF JournalsSettled, Recovering, JournalsInTurn, Unsettled, ItemCalls
  <2>3. JournalsInTurn /\ FilesInTurn => FilesInTurn'
    <3> SUFFICES ASSUME JournalsInTurn, FilesInTurn PROVE FilesInTurn'
      OBVIOUS
    <3>1. /\ pc = "journals" /\ pc' = "orphans" /\ UNCHANGED <<target, save, staged, journal, request>>
          /\ (\E a \in Ops : journal[a] # "none") => orphans' = {}
          /\ (\A a \in Ops : journal[a] = "none") => orphans' = orphans
      BY <1>3, Shapes DEF JournalsSettled, Recovering, JournalsInTurn, RecoveryInv, TypeOK
    <3>2. CASE \E a \in Ops : journal[a] # "none"
      BY <3>1, <3>2 DEF FilesInTurn, ItemCalls
    <3>3. CASE \A a \in Ops : journal[a] = "none"
      BY <3>1, <3>3 DEF FilesInTurn, ItemCalls, Rank
    <3> QED BY <3>2, <3>3
  <2>4. Rested'
    BY <1>3 DEF JournalsSettled, Recovering, Rested, AtRest, Unsettled, Rank, Directory
  <2> QED BY <1>3, <2>1, <2>2, <2>3, <2>4 DEF JournalsSettled, Recovering
<1>4. CASE NextPass
  <2>1. PassesAgree' /\ Rested'
    BY <1>4 DEF NextPass, Recovering, PassesAgree, Rested, AtRest, Unsettled, Rank, Directory
  <2> QED BY <1>4, <2>1 DEF NextPass
<1>5. CASE OrphanUnstaged
  <2>1. PassesAgree'
    BY <1>5 DEF OrphanUnstaged, Recovering, PassesAgree, Unsettled, Rank
  <2>2. JournalsInTurn => JournalsInTurn'
    BY <1>5 DEF OrphanUnstaged, Recovering, JournalsInTurn, Unsettled, ItemCalls
  <2>3. FilesInTurn => FilesInTurn'
    BY <1>5, Shapes DEF OrphanUnstaged, Recovering, FilesInTurn, Rank, ItemCalls
  <2>4. Rested'
    BY <1>5 DEF OrphanUnstaged, Recovering, Rested
  <2> QED BY <1>5, <2>1, <2>2, <2>3, <2>4 DEF OrphanUnstaged, Recovering
<1>6. CASE Serve
  <2>1. PassesAgree'
    BY <1>6 DEF Serve, ForgetPass, PassesAgree
  <2>2. quiet /\ faults = 0 => AtRest
    BY <1>6 DEF Serve, JournalsInTurn, FilesInTurn, AtRest, ItemCalls
  <2>3. Rested'
    BY <1>6, <2>2 DEF Serve, Rested, AtRest, Unsettled, Rank, Directory
  <2> QED BY <1>6, <2>1, <2>3 DEF Serve
<1> QED BY <1>1, <1>2, <1>3, <1>4, <1>5, <1>6

(* Every step keeps the invariant.                                         *)
LEMMA NextKeepsIdempotent ==
  ASSUME RecoveryInv, IdempotentInv, [Next]_allVars
  PROVE  IdempotentInv'
  BY OthersKeepIdempotent, SettlesKeepIdempotent, CallsKeepIdempotent, OrphansKeepIdempotent,
     PassesKeepIdempotent DEF Next, Recovery

(* IdempotentInv holds for operations of every kind, external writers,     *)
(* failing calls and crashes.                                              *)
THEOREM IdempotentInvariant == Spec => []IdempotentInv
<1>1. Init => IdempotentInv
  BY DEF Init, AtomicTextInit, IdempotentInv, PassesAgree, Rested
<1> QED BY <1>1, NextKeepsIdempotent, Invariant, PTL DEF Spec

(* recoverInterruptedOperations: run again on what it left, as often as    *)
(* the process dies, recovery leaves the directory as it is, as long as no *)
(* call fails and nobody else acts.                                        *)
THEOREM RecoveryRepeats == Spec => RecoveryIsIdempotent
<1>1. ASSUME RecoveryInv, IdempotentInv, [Next]_allVars
      PROVE  [pc # "idle" /\ pc' = "idle" /\ settled # None /\ faults' = 0
                => Directory' = settled]_allVars
  <2> SUFFICES ASSUME pc # "idle", pc' = "idle", settled # None, faults' = 0, Next
               PROVE  Directory' = settled
    BY <1>1
  <2>1. settled' # None => Directory' = settled'
    BY <1>1, NextKeepsIdempotent DEF IdempotentInv, Rested
  <2>2. ~Commit
    BY CommitGoesOn, <1>1 DEF IdempotentInv, PassesAgree
  <2>3. ~Crash /\ ~Client
    BY DEF Crash, Client, Begin, Load, OpenTemp, BeginRemove, Enters
  <2>4. ~External
    BY DEF External, ExternalReplace, ExternalWrite, ExternalDelete, ExternalOpen, Outside
  <2>5. Serve
    BY <1>1, <2>2, <2>3, <2>4, RecoveryMovesOrServes DEF Next, RecoveryMoves
  <2> QED BY <1>1, <2>5 DEF Serve, IdempotentInv, Rested, Directory
<1> QED BY <1>1, Invariant, IdempotentInvariant, PTL DEF Spec, RecoveryIsIdempotent


=============================================================================
