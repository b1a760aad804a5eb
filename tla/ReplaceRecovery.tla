--------------------------- MODULE ReplaceRecovery ---------------------------
(***************************************************************************)
(* Crashes of the server and its startup recovery (server/crashRecovery.ts)*)
(* around the atomic text writes of AtomicText.tla, for one document.      *)
(*                                                                         *)
(* The process may die before any of its file-system calls, recovery's own *)
(* included; what has reached the directory stays.  At the next start      *)
(* recoverInterruptedOperations works in passes: it lists the directory,   *)
(* settles every journal it found and, if none of those is left, applies   *)
(* the rules for hidden files without a journal.  It ends with the first   *)
(* pass that reports nothing new; only then are requests accepted.         *)
(*                                                                         *)
(* recoverReplaceJournal decides from what it reads and then makes a       *)
(* sequence of calls: the decision is one step, and each call is one.      *)
(***************************************************************************)
EXTENDS AtomicText, FiniteSets, Sequences

CONSTANT MaxCrashes   \* bound: deaths of the process

ASSUME CrashesAssumption == MaxCrashes \in Nat

VARIABLES
  quarantine,  \* quarantine[a]: the inode of a's .nuvyn-quarantine-save-* file
  listed,      \* journals the current pass found
  journals,    \* those it has still to settle
  orphans,     \* <<rank, a>>: hidden files it has still to judge
  item,        \* the operation whose files it is settling
  plan,        \* the calls that follow the next one
  terminal,    \* terminalArtifacts: journals later passes skip
  seen,        \* seenActions and terminalActionKeys: the reports made
  progressed,  \* the pass made a new report
  acted,       \* the pass reported a change, not only a quarantine
  crashes,     \* deaths so far
  quiet,       \* history: no external writer acted since the pass began
  settled      \* history: the directory as the last recovery left it, until
               \*   a client or an external writer acts

pass == <<listed, journals, orphans, item, plan, terminal, seen, progressed, acted>>
recoveryVars == <<quarantine, pass, crashes, quiet, settled>>
allVars == <<vars, recoveryVars>>

Directory == <<target, save, staged, quarantine, journal>>

RecoverySteps == {"down", "list", "journals", "drop_save", "drop_journal",
  "recover_drop_staged", "recover_link", "recover_restore", "recover_restored",
  "recover_rest", "pending", "pending_rename", "manual", "postcommit",
  "orphans", "orphan_restored"}

Init ==
  /\ AtomicTextInit
  /\ quarantine = [a \in Ops |-> None]
  /\ listed = {} /\ journals = {} /\ orphans = {} /\ terminal = {} /\ seen = {}
  /\ item = 0 /\ plan = <<>>
  /\ progressed = FALSE /\ acted = FALSE
  /\ crashes = 0
  /\ quiet = FALSE
  /\ settled = None

-----------------------------------------------------------------------------
(* note(): a report made before is no progress; a report of a change, not  *)
(* only of a quarantine or a failure, makes later passes look again.  A    *)
(* report names the document's path or one of the hidden files.            *)
OnThePath == {"landed", "completed", "rolled back", "orphan restored", "removal rolled back",
              "link failed", "restore failed"}
Changes == {"journal cleaned", "save cleaned", "removal cleaned", "landed", "completed",
            "rolled back", "orphan restored", "removal rolled back"}
Key(a, r) == IF r \in OnThePath THEN <<0, r>> ELSE <<a, r>>

(* mutant: every report counts as progress, also one made before *)
NoteCounted(a, reports) ==
  /\ seen' = seen \cup {Key(a, r) : r \in reports}
  /\ progressed' = (progressed \/ reports # {})
  /\ acted' = (acted \/ reports \cap Changes # {})

Note(a, reports) ==
  /\ seen' = seen \cup {Key(a, r) : r \in reports}
  /\ progressed' = (progressed \/ \E r \in reports : Key(a, r) \notin seen)
  /\ acted' = (acted \/ reports \cap Changes # {})

(* The calls still to be made for an item, one after the other. *)
Follow(calls) ==
  /\ pc' = IF calls = <<>> THEN "journals" ELSE Head(calls)
  /\ plan' = IF calls = <<>> THEN <<>> ELSE Tail(calls)

(* What every step of recovery leaves alone: no operation is running. *)
Recovering ==
  UNCHANGED <<op, owned, verdict, caller, outside, deleted, content, crashes, quiet, settled>>

(* Take up a journal the pass listed, to be settled by the given calls.    *)
(* A journal reported as quarantined is not taken up again for now.        *)
Settle(a, calls, reports) ==
  /\ pc = "journals"
  /\ a \in journals
  /\ journals' = journals \ {a}
  /\ item' = a
  /\ Follow(calls)
  /\ Note(a, reports)
  /\ terminal' = IF reports \cap {"changed", "occupied", "retained", "resumed"} # {}
                   THEN terminal \cup {a} ELSE terminal
  /\ Recovering
  /\ UNCHANGED <<target, save, staged, journal, quarantine, listed, orphans, faults>>

Active(a) == journal[a] = "active"

(* Nothing was taken aside: the operation never got that far.  Its save    *)
(* file goes only if the document is there.                                *)
SettleUnstarted(a) ==
  /\ Active(a) /\ staged[a] = None
  /\ IF save[a] # None /\ target # None
       THEN Settle(a, <<"drop_save", "drop_journal">>, {"journal cleaned", "save cleaned"})
       ELSE Settle(a, <<"drop_journal">>,
                   {"journal cleaned"} \cup IF save[a] # None THEN {"save kept"} ELSE {})

(* The target is the replacement: clean up, unless the staged bytes are    *)
(* no longer the ones that were replaced.                                  *)
SettleLanded(a) ==
  /\ Active(a) /\ staged[a] # None /\ target # None
  /\ content[target] = request[a].replacement
  /\ IF content[staged[a]] = request[a].expected
       THEN Settle(a, <<"recover_drop_staged", "drop_save", "drop_journal">>, {"landed"})
       ELSE Settle(a, <<"postcommit">>, {"changed"})

QuarantineSave(a) ==
  IF save[a] # None THEN <<"pending", "pending_rename", "manual">> ELSE <<"manual">>

(* The target is something else: keep every generation. *)
SettleOccupied(a) ==
  /\ Active(a) /\ staged[a] # None /\ target # None
  /\ content[target] # request[a].replacement
  /\ Settle(a, QuarantineSave(a), {"occupied"})

BothIntact(a) ==
  /\ content[staged[a]] = request[a].expected
  /\ save[a] # None
  /\ content[save[a]] = request[a].replacement

(* The target is missing: finish the commit if both generations are what   *)
(* the journal says, or else put the old one back.                         *)
SettleInterrupted(a) ==
  /\ Active(a) /\ staged[a] # None /\ target = None
  /\ Settle(a, IF BothIntact(a)
                 THEN <<"recover_link", "drop_save", "recover_drop_staged", "drop_journal">>
                 ELSE <<"recover_restore">>, {})

(* quarantine-save-pending: finish what an earlier recovery began. *)
SettlePending(a) ==
  /\ journal[a] = "pending"
  /\ Settle(a, IF save[a] # None /\ quarantine[a] = None
                 THEN <<"pending_rename", "manual">> ELSE <<"manual">>,
            {"resumed"})

(* mutant: a journal kept for manual recovery is dropped at the next start *)
SettleRetainedDropped(a) ==
  /\ journal[a] \in {"torn", "manual", "postcommit"}
  /\ Settle(a, <<"drop_journal">>, {"retained"})

(* A journal that cannot be parsed, or is kept for manual recovery. *)
SettleRetained(a) ==
  /\ journal[a] \in {"torn", "manual", "postcommit"}
  /\ Settle(a, <<>>, {"retained"})

-----------------------------------------------------------------------------
(* The calls.  Each is for the item being settled. *)
Call(step) ==
  /\ pc = step
  /\ Recovering
  /\ UNCHANGED <<listed, journals, orphans, item, terminal>>

DropSave ==
  /\ Call("drop_save")
  /\ save' = [save EXCEPT ![item] = None]
  /\ Follow(plan) /\ Note(item, {})
  /\ UNCHANGED <<target, staged, journal, quarantine, faults>>

DropStagedBytes ==
  /\ Call("recover_drop_staged")
  /\ staged' = [staged EXCEPT ![item] = None]
  /\ Follow(plan) /\ Note(item, {})
  /\ UNCHANGED <<target, save, journal, quarantine, faults>>

DropJournal ==
  /\ Call("drop_journal")
  /\ journal' = [journal EXCEPT ![item] = "none"]
  /\ Follow(plan) /\ Note(item, {})
  /\ UNCHANGED <<target, save, staged, quarantine, faults>>

(* A new phase of the journal, through rewriteDurableJournal. *)
Rewrite(step, phase) ==
  /\ Call(step)
  /\ journal' = [journal EXCEPT ![item] = phase]
  /\ Follow(plan) /\ Note(item, {})
  /\ UNCHANGED <<target, save, staged, quarantine, faults>>

RewritePhase ==
  \/ Rewrite("pending", "pending")
  \/ Rewrite("manual", "manual")
  \/ Rewrite("postcommit", "postcommit")

RenameSave ==
  /\ Call("pending_rename")
  /\ quarantine' = [quarantine EXCEPT ![item] = save[item]]
  /\ save' = [save EXCEPT ![item] = None]
  /\ Follow(plan) /\ Note(item, {})
  /\ UNCHANGED <<target, staged, journal, faults>>

(* A path claimed since it was looked at makes link fail with EEXIST. *)
CompleteCommit ==
  /\ Call("recover_link")
  /\ IF target = None
       THEN target' = save[item] /\ Follow(plan) /\ Note(item, {"completed"})
       ELSE UNCHANGED target /\ Follow(<<"recover_restore">>) /\ Note(item, {})
  /\ UNCHANGED <<save, staged, journal, quarantine, faults>>

CompleteCommitFails ==
  /\ Call("recover_link")
  /\ target = None
  /\ faults < MaxFaults /\ faults' = faults + 1
  /\ Follow(<<>>) /\ Note(item, {"link failed"})
  /\ UNCHANGED <<target, save, staged, journal, quarantine>>

(* restoreCreateOnly, then what is to become of the save file. *)
RestoreOld ==
  /\ Call("recover_restore")
  /\ IF target = None
       THEN target' = staged[item] /\ Follow(<<"recover_restored", "recover_rest">>) /\ Note(item, {})
       ELSE UNCHANGED target /\ Follow(<<"recover_rest">>) /\ Note(item, {"staged kept"})
  /\ UNCHANGED <<save, staged, journal, quarantine, faults>>

RestoreOldFails ==
  /\ Call("recover_restore")
  /\ target = None
  /\ faults < MaxFaults /\ faults' = faults + 1
  /\ Follow(<<"recover_rest">>) /\ Note(item, {"restore failed", "staged kept"})
  /\ UNCHANGED <<target, save, staged, journal, quarantine>>

RestoredOld ==
  /\ Call("recover_restored")
  /\ staged' = [staged EXCEPT ![item] = None]
  /\ Follow(plan) /\ Note(item, {"rolled back"})
  /\ UNCHANGED <<target, save, journal, quarantine, faults>>

AfterRestore ==
  /\ Call("recover_rest")
  /\ Follow(IF save[item] # None THEN QuarantineSave(item) ELSE <<"drop_journal">>)
  /\ Note(item, {})
  /\ UNCHANGED <<target, save, staged, journal, quarantine, faults>>

-----------------------------------------------------------------------------
(* Hidden files without a journal, judged in the order staged, removed,    *)
(* save.  A journal that is still there keeps them all from being judged.  *)
Rank(a) == IF request[a].kind = "remove" THEN 2 ELSE 1

Hidden == {<<Rank(a), a>> : a \in {b \in Ops : staged[b] # None}}
          \cup {<<3, a>> : a \in {b \in Ops : save[b] # None}}

JournalsSettled ==
  /\ pc = "journals"
  /\ journals = {}
  /\ pc' = "orphans"
  /\ orphans' = IF \E a \in listed : journal[a] # "none" THEN {} ELSE orphans
  /\ Recovering
  /\ UNCHANGED <<target, save, staged, journal, quarantine, faults, plan, listed, journals, item,
                 terminal, seen, progressed, acted>>

(* The next hidden file that is still there. *)
Judge(rank, a, reports) ==
  /\ pc = "orphans"
  /\ <<rank, a>> \in orphans
  /\ \A x \in orphans : rank <= x[1]
  /\ orphans' = orphans \ {<<rank, a>>}
  /\ item' = a
  /\ Note(a, reports)
  /\ Recovering
  /\ UNCHANGED <<journal, quarantine, plan, listed, journals, terminal>>

OrphanGone(rank, a) ==
  /\ (IF rank = 3 THEN save[a] ELSE staged[a]) = None
  /\ Judge(rank, a, {})
  /\ UNCHANGED <<target, save, staged, faults, pc>>

OrphanRestored(rank, a) ==
  /\ rank < 3 /\ staged[a] # None /\ target = None
  /\ Judge(rank, a, {})
  /\ target' = staged[a]
  /\ pc' = "orphan_restored"
  /\ UNCHANGED <<save, staged, faults>>

OrphanRestoreFails(rank, a) ==
  /\ rank < 3 /\ staged[a] # None /\ target = None
  /\ faults < MaxFaults /\ faults' = faults + 1
  /\ Judge(rank, a, {"orphan failed"})
  /\ UNCHANGED <<target, save, staged, pc>>

OrphanUnstaged ==
  /\ pc = "orphan_restored"
  /\ staged' = [staged EXCEPT ![item] = None]
  /\ pc' = "orphans"
  /\ Note(item, {IF request[item].kind = "remove" THEN "removal rolled back" ELSE "orphan restored"})
  /\ Recovering
  /\ UNCHANGED <<target, save, journal, quarantine, faults, plan, listed, journals, orphans, item,
                 terminal>>

OrphanStagedKept(a) ==
  /\ staged[a] # None /\ target # None
  /\ Judge(1, a, {"orphan kept"})
  /\ UNCHANGED <<target, save, staged, faults, pc>>

(* mutant: an interrupted removal is completed *)
OrphanRemovalCompleted(a) ==
  /\ staged[a] # None
  /\ Judge(2, a, {"removal cleaned"})
  /\ staged' = [staged EXCEPT ![a] = None]
  /\ UNCHANGED <<target, save, faults, pc>>

OrphanRemoved(a) ==
  /\ staged[a] # None /\ target # None
  /\ Judge(2, a, {"removal cleaned"})
  /\ staged' = [staged EXCEPT ![a] = None]
  /\ UNCHANGED <<target, save, faults, pc>>

OrphanSave(a) ==
  /\ save[a] # None
  /\ Judge(3, a, IF target # None THEN {"save cleaned"} ELSE {"save kept"})
  /\ save' = IF target # None THEN [save EXCEPT ![a] = None] ELSE save
  /\ UNCHANGED <<target, staged, faults, pc>>

-----------------------------------------------------------------------------
ListDirectory ==
  /\ pc = "list"
  /\ pc' = "journals"
  /\ listed' = {a \in Ops : journal[a] # "none"}
  /\ journals' = listed' \ terminal
  /\ orphans' = Hidden
  /\ progressed' = FALSE /\ acted' = FALSE
  /\ quiet' = TRUE
  /\ UNCHANGED <<disk, op, owned, verdict, caller, outside, deleted, faults, quarantine, plan,
                 item, terminal, seen, crashes, settled>>

ForgetPass ==
  /\ listed' = {} /\ journals' = {} /\ orphans' = {} /\ terminal' = {} /\ seen' = {}
  /\ item' = 0 /\ plan' = <<>>
  /\ progressed' = FALSE /\ acted' = FALSE

NextPass ==
  /\ pc = "orphans" /\ orphans = {}
  /\ progressed
  /\ pc' = "list"
  /\ terminal' = IF acted THEN {} ELSE terminal
  /\ Recovering
  /\ UNCHANGED <<target, save, staged, journal, quarantine, faults, plan, item, listed, journals,
                 orphans, seen, progressed, acted>>

Serve ==
  /\ pc = "orphans" /\ orphans = {}
  /\ ~progressed
  /\ pc' = "idle"
  /\ ForgetPass
  /\ settled' = IF quiet THEN Directory ELSE None
  /\ UNCHANGED <<disk, quarantine, op, owned, verdict, caller, outside, deleted, faults, crashes,
                 quiet>>

Restart ==
  /\ pc = "down"
  /\ pc' = "list"
  /\ UNCHANGED <<disk, op, owned, verdict, caller, outside, deleted, faults, recoveryVars>>

(* The process dies; nobody learns what became of the operation. *)
Crash ==
  /\ crashes < MaxCrashes
  /\ pc # "down"
  /\ crashes' = crashes + 1
  /\ pc' = "down"
  /\ outcome' = [a \in Ops |-> IF outcome[a] = "running" THEN "lost" ELSE outcome[a]]
  /\ owned' = None /\ verdict' = "saved"
  /\ ForgetPass
  /\ UNCHANGED <<disk, quarantine, op, request, base, outside, deleted, faults, quiet, settled>>

Recovery ==
  \/ Restart \/ ListDirectory \/ JournalsSettled \/ NextPass \/ Serve
  \/ DropSave \/ DropStagedBytes \/ DropJournal \/ RewritePhase \/ RenameSave
  \/ CompleteCommit \/ CompleteCommitFails \/ RestoreOld \/ RestoreOldFails
  \/ RestoredOld \/ AfterRestore \/ OrphanUnstaged
  \/ \E a \in Ops :
       \/ SettleUnstarted(a) \/ SettleLanded(a) \/ SettleOccupied(a)
       \/ SettleInterrupted(a) \/ SettlePending(a) \/ SettleRetained(a)
       \/ \E rank \in 1 .. 3 : OrphanGone(rank, a)
       \/ \E rank \in 1 .. 2 : OrphanRestored(rank, a) \/ OrphanRestoreFails(rank, a)
       \/ OrphanStagedKept(a) \/ OrphanRemoved(a) \/ OrphanSave(a)

Next ==
  \/ Commit /\ UNCHANGED recoveryVars
  \/ (Client \/ External) /\ quiet' = FALSE /\ settled' = None /\ UNCHANGED <<quarantine, pass, crashes>>
  \/ Recovery
  \/ Crash

Spec == Init /\ [][Next]_allVars

(* The server goes on with the operation or the recovery it is in, and is  *)
(* started again after it died.  Clients, external writers, failures and   *)
(* crashes are under no obligation.                                        *)
FairSpec == Spec /\ WF_allVars((Commit /\ UNCHANGED recoveryVars) \/ Recovery)

-----------------------------------------------------------------------------
TypeOK ==
  /\ AtomicTextTypeOK
  /\ pc \in CommitSteps \cup RecoverySteps
  /\ quarantine \in [Ops -> Inodes \cup {None}]
  /\ listed \subseteq Ops /\ journals \subseteq Ops /\ terminal \subseteq Ops
  /\ orphans \subseteq (1 .. 3) \X Ops
  /\ item \in 0 .. MaxOps
  /\ progressed \in BOOLEAN /\ acted \in BOOLEAN
  /\ crashes \in 0 .. MaxCrashes

(* At every instant, between any two calls of a save, a removal or a       *)
(* recovery and after a crash at any of them, the document is at its path  *)
(* or under a staging name, unless somebody deleted it.                    *)
NeverOutOfReach ==
  deleted \/ target # None \/ \E a \in Ops : staged[a] # None

(* While a replace runs, and so at every point where the process may die   *)
(* in it, a generation it has taken aside has a complete journal: written  *)
(* before the takeover, removed after everything else.                     *)
StagedIsJournaled ==
  \A a \in Ops :
    request[a].kind = "replace" /\ outcome[a] = "running" /\ staged[a] # None =>
      journal[a] \in {"active", "postcommit"}

(* A generation of the document that a step of the server makes            *)
(* unreachable has the bytes some caller based its save or removal on, or  *)
(* an external writer gave it up: what was saved outside is never          *)
(* destroyed, neither by a commit nor by a recovery.                       *)
Generations == ({target} \cup {staged[a] : a \in Ops}) \ {None}
Based == {request[a].expected : a \in {b \in Ops : outcome[b] # "unstarted"}}

NoEditLost ==
  [][external' = external =>
       \A i \in Generations \ Generations' : content[i] \in Based \/ i \in forfeit]_allVars

(* A save the caller was told is refused stays refused: its bytes never    *)
(* show up at the path, not even after a crash and a recovery.             *)
Refusals == {"conflict", "missing", "ownership", "error"}

RefusedStaysRefused ==
  \A a \in Ops : outcome[a] \in Refusals => target # a

(* All old or all new.  With no writer but the server, whenever requests   *)
(* are accepted the path holds the last acknowledged bytes or those of a   *)
(* later save whose caller never got an answer.                            *)
Acknowledged == {a \in Ops : outcome[a] = "saved"}
LastAcknowledged(a) == a \in Acknowledged /\ \A b \in Acknowledged : b <= a

AllOldOrAllNew ==
  external = 0 /\ pc = "idle" =>
    /\ target # None
    /\ \/ content[target] = Base /\ Acknowledged = {}
       \/ \E a \in Ops :
            /\ content[target] = request[a].replacement
            /\ LastAcknowledged(a) \/ (outcome[a] = "lost" /\ \A b \in Acknowledged : b < a)

(* Recovery is idempotent: run again on what it left, after another crash  *)
(* and with nobody else acting, it leaves the directory as it is.          *)
RecoveryIsIdempotent ==
  [][pc # "idle" /\ pc' = "idle" /\ settled # None /\ faults' = 0 => Directory' = settled]_allVars

(* Every operation and every recovery comes to its end, the passes of a    *)
(* recovery that keeps reporting retained journals included.               *)
ServerSettles == []<>(pc = "idle")

-----------------------------------------------------------------------------
(* The parts of the inductive invariant behind NeverOutOfReach and         *)
(* StagedIsJournaled.                                                      *)
Visible == deleted \/ target # None

(* In an operation op names it; in the calls for an item, item does, and   *)
(* the calls still to come are those of one of the Settle actions.         *)
RegistersNamed ==
  /\ pc \in CommitSteps \ {"idle"} => op \in Ops
  /\ pc \in RecoverySteps \ {"down", "list", "journals", "orphans"} => item \in Ops

CallsLeft ==
  /\ pc \in {"drop_journal", "recover_restore", "recover_rest", "manual", "postcommit"} => plan = <<>>
  /\ pc = "drop_save" =>
       plan = <<"drop_journal">> \/ plan = <<"recover_drop_staged", "drop_journal">>
  /\ pc = "recover_drop_staged" =>
       plan = <<"drop_journal">> \/ plan = <<"drop_save", "drop_journal">>
  /\ pc = "recover_link" => plan = <<"drop_save", "recover_drop_staged", "drop_journal">>
  /\ pc = "recover_restored" => plan = <<"recover_rest">>
  /\ pc = "pending" => plan = <<"pending_rename", "manual">>
  /\ pc = "pending_rename" => plan = <<"manual">>

(* The files a call is about to link or restore are there. *)
FilesHeld ==
  /\ pc \in {"write_temp", "open_journal", "write_journal", "capture", "takeover",
             "verify_owner", "verify_bytes", "link", "create_link"} => save[op] # None
  /\ pc \in {"verify_owner", "verify_bytes", "link", "restore", "restore_stat",
             "restore_rename", "remove_check", "remove_final"} => staged[op] # None
  /\ pc = "recover_link" => save[item] # None
  /\ pc \in {"recover_link", "recover_restore"} => staged[item] # None

(* Before a staged name goes, the document is at its path again. *)
VisibleBeforeUnlink ==
  pc \in {"drop_staged", "restore_clean", "final_check", "clean_temp", "clean_staged",
          "drop_save", "recover_drop_staged", "recover_restored", "orphan_restored"} => Visible

(* Only the operation the server is in is running. *)
RunningIsCurrent ==
  \A a \in Ops : outcome[a] = "running" => a = op /\ pc \in CommitSteps \ {"idle"}

(* Only a removal takes the steps of a removal. *)
RemovalSteps ==
  pc \in {"remove_capture", "remove_verify", "remove_rename"} => request[op].kind = "remove"

(* Nothing is taken aside by an operation before its takeover, and a       *)
(* replace gets there with its journal written.                            *)
StagedLater ==
  /\ \A a \in Ops : a > op => staged[a] = None
  /\ pc \in {"write_temp", "open_journal", "write_journal", "capture", "takeover"} =>
       staged[op] = None
  /\ pc \in {"capture", "takeover"} => journal[op] = "active"

RecoveryInv ==
  /\ TypeOK
  /\ RegistersNamed
  /\ CallsLeft
  /\ FilesHeld
  /\ VisibleBeforeUnlink
  /\ NeverOutOfReach
  /\ RunningIsCurrent
  /\ RemovalSteps
  /\ StagedLater
  /\ StagedIsJournaled

-----------------------------------------------------------------------------
(* The inductive invariant behind RefusedStaysRefused: until an operation  *)
(* has linked its save file, and for ever if it is refused, the file has   *)
(* no name but its own, and a refused one has not even that.               *)
Unlinked(a) == target # a /\ \A b \in Ops : staged[b] # a

StepsOf(kind) ==
  CASE kind = "replace" ->
         {"write_temp", "open_journal", "write_journal", "capture", "takeover", "verify_owner",
          "verify_bytes", "link", "drop_staged", "restore", "restore_clean", "restore_stat",
          "restore_rename", "final_check", "mark", "mark_temp", "clean_temp", "clean_staged",
          "clean_journal", "fail_temp", "fail_journal"}
    [] kind = "create" -> {"write_temp", "create_link", "create_clean"}
    [] kind = "remove" ->
         {"remove_capture", "remove_verify", "remove_rename", "remove_check", "remove_final",
          "remove_unlink", "restore", "restore_clean", "restore_stat", "restore_rename"}

LinkedSteps == {"final_check", "mark", "mark_temp", "clean_temp", "clean_staged", "clean_journal"}

StepOfKind == pc \in CommitSteps \ {"idle"} => pc \in StepsOf(request[op].kind)

SavesAreOwn ==
  /\ \A a \in Ops : save[a] \in {None, a}
  /\ \A a \in Ops : request[a].kind = "remove" => save[a] = None
  /\ \A a \in Ops : a > op => save[a] = None
  /\ pc = "fail_journal" => save[op] = None

UnlinkedBefore ==
  /\ \A a \in Ops : a > op => Unlinked(a)
  /\ pc \in CommitSteps \ ({"idle", "create_clean"} \cup LinkedSteps) => Unlinked(op)
  /\ pc = "create_clean" => verdict \in {"saved", "conflict"}
  /\ pc = "create_clean" /\ verdict = "conflict" => Unlinked(op)

RefusedIsGone ==
  \A a \in Ops : outcome[a] \in Refusals => a <= op /\ Unlinked(a) /\ save[a] = None

RefusalInv == StepOfKind /\ SavesAreOwn /\ UnlinkedBefore /\ RefusedIsGone

-----------------------------------------------------------------------------
(* The inductive invariant behind NoEditLost, without removals and failing *)
(* calls: a staged name is only removed when the file is at the path or    *)
(* was given up, or has the bytes the save was based on.                   *)
HasName(i) == i = target \/ i \in forfeit
Shown(a) == staged[a] # None => HasName(staged[a])
Replaced(a) == content[staged[a]] = request[a].expected \/ Shown(a)

OnlySaves ==
  /\ \A a \in Ops : request[a].kind # "remove"
  /\ pc \notin {"restore_stat", "restore_rename"}
  /\ \A x \in orphans : x[1] # 2

Started ==
  /\ \A a \in Ops : a <= op <=> outcome[a] # "unstarted"
  /\ pc \in CommitSteps \ {"idle"} => outcome[op] = "running"

StagedMayGo ==
  /\ pc \in {"link", "drop_staged", "clean_temp", "clean_staged"} => Replaced(op)
  /\ pc = "restore_clean" => Shown(op)
  /\ pc \in {"recover_link", "recover_drop_staged"} => Replaced(item)
  /\ pc = "drop_save" /\ plan = <<"recover_drop_staged", "drop_journal">> => Replaced(item)
  /\ pc \in {"recover_restored", "orphan_restored"} => Shown(item)

EditInv == OnlySaves /\ Started /\ StagedMayGo

-----------------------------------------------------------------------------
(* The inductive invariant behind AllOldOrAllNew, without removals and     *)
(* failing calls.  A journal is active only for the last operation, and    *)
(* recovery does not serve before it has settled it.                       *)
ItemCalls == RecoverySteps \ {"down", "list", "journals", "orphans", "orphan_restored"}

JournalOfLast ==
  /\ \A a \in Ops : journal[a] = "active" => a = op
  /\ \A a \in Ops : a > op => journal[a] = "none"
  /\ pc \in {"idle", "mark_temp", "create_link", "create_clean", "orphans", "orphan_restored"} =>
       \A a \in Ops : journal[a] # "active"
  /\ pc \in {"write_temp", "open_journal"} => journal[op] = "none"
  /\ pc \in ItemCalls => item <= op

ActiveIsSettled ==
  \A a \in Ops : journal[a] = "active" =>
    /\ pc \in {"down", "list"} => a \notin terminal
    /\ pc \in RecoverySteps \ {"down", "list"} =>
         a \in journals \/ (item = a /\ pc \in ItemCalls)

(* No writer but the server: the bytes a path or a staged file has are old *)
(* or new, ...                                                             *)
OldOrNew(c) ==
  \/ c = Base /\ Acknowledged = {}
  \/ \E a \in Ops :
       /\ c = request[a].replacement
       /\ LastAcknowledged(a) \/ (outcome[a] = "lost" /\ \A b \in Acknowledged : b < a)

(* ... and the path is empty only between the takeover of the last         *)
(* operation and its end, or the recovery from it.                         *)
TakenAside ==
  /\ op \in Ops /\ staged[op] # None /\ journal[op] = "active"
  /\ outcome[op] \in {"running", "lost"}
  /\ OldOrNew(content[staged[op]])
  /\ \/ pc \in {"verify_owner", "verify_bytes", "link", "restore", "down", "list"}
     \/ pc \in RecoverySteps /\ op \in journals
     \/ pc \in {"recover_link", "recover_restore"}

PathIsOldOrNew ==
  /\ target = None => TakenAside
  /\ target # None =>
       OldOrNew(content[target]) \/ (pc \in LinkedSteps /\ content[target] = request[op].replacement)

ReplaceUndisturbed ==
  /\ ~deleted
  /\ pc \in {"restore", "restore_clean", "fail_temp", "fail_journal"} => verdict \in Refusals
  /\ pc = "takeover" => target = owned
  /\ pc \in {"verify_owner", "verify_bytes", "link", "restore"} => target = None
  /\ pc = "verify_owner" => staged[op] = owned
  /\ pc \in {"open_journal", "write_journal", "capture", "takeover", "verify_owner",
             "verify_bytes", "link"} => content[op] = request[op].replacement
  /\ pc \in LinkedSteps => target # None /\ content[target] = request[op].replacement
  /\ pc \in {"link", "final_check"} => content[staged[op]] = request[op].expected
  /\ pc \notin {"drop_staged", "mark", "mark_temp"}
  /\ pc = "create_clean" => verdict = "conflict"

RecoveryUndisturbed ==
  /\ \A a \in Ops : journal[a] = "none" => staged[a] = None
  /\ pc \in {"fail_temp", "fail_journal", "clean_journal"} => staged[op] = None
  /\ pc \in {"drop_journal", "recover_rest"} => staged[item] = None
  /\ pc = "drop_save" /\ plan = <<"drop_journal">> => staged[item] = None
  /\ pc \in {"recover_link", "recover_restore"} => target = None /\ item = op
  /\ pc \in {"pending", "pending_rename", "manual", "postcommit"} /\ item = op => target # None
  /\ pc = "recover_link" => content[save[item]] = request[item].replacement

UndisturbedInv == PathIsOldOrNew /\ ReplaceUndisturbed /\ RecoveryUndisturbed

TextInv == JournalOfLast /\ ActiveIsSettled /\ (external = 0 => UndisturbedInv)

-----------------------------------------------------------------------------
(* The inductive invariant behind RecoveryIsIdempotent.  A pass in which   *)
(* no external writer acts and no call fails leaves what no later pass     *)
(* changes, whether it is the last one or not.                             *)
Unsettled(a) == journal[a] \in {"active", "pending"}

(* A pass finds to do only what it listed or was judged already.           *)
JournalsInTurn ==
  /\ \A a \in Ops : journal[a] # "none" => a \in listed
  /\ pc \in ItemCalls => item \in listed
  /\ \A a \in Ops : Unsettled(a) =>
       pc \in ItemCalls \cup {"journals"} /\ (a \in journals \/ (item = a /\ pc \in ItemCalls))

FilesInTurn ==
  /\ pc \in ItemCalls \cup {"journals"} =>
       \A a \in Ops : /\ staged[a] # None => <<Rank(a), a>> \in orphans
                      /\ save[a] # None => <<3, a>> \in orphans
  /\ pc \in {"orphans", "orphan_restored"} =>
       \/ pc = "orphans" /\ orphans = {} /\ \E a \in Ops : journal[a] # "none"
       \/ \A a \in Ops :
            /\ journal[a] = "none"
            /\ staged[a] # None => \/ <<Rank(a), a>> \in orphans
                                   \/ Rank(a) = 1 /\ target # None
                                   \/ item = a /\ pc = "orphan_restored"
            /\ save[a] # None =>
                 <<3, a>> \in orphans \/ (target = None /\ \A b \in Ops : staged[b] = None)
  /\ pc = "orphan_restored" => target # None

(* What a recovery leaves as it is: every journal is kept for a user or    *)
(* gone, and if all are gone, so are the files that could be dropped.      *)
AtRest ==
  /\ \A a \in Ops : ~Unsettled(a)
  /\ (\A a \in Ops : journal[a] = "none") =>
       \A a \in Ops : /\ staged[a] # None => target # None /\ Rank(a) = 1
                      /\ save[a] # None => target = None

Rested ==
  settled # None /\ faults = 0 =>
    Directory = settled /\ AtRest /\ pc \in {"idle", "down", "list", "journals", "orphans"}

(* Journals that later passes skip are settled, hidden files are judged as *)
(* what they are, and what was left at rest is forgotten when a client or  *)
(* an external writer acts.                                                *)
PassesAgree ==
  /\ pc \in CommitSteps \ {"idle"} => settled = None
  /\ settled # None => quiet
  /\ pc \in CommitSteps \cup {"down"} => orphans = {} /\ terminal = {}
  /\ \A a \in Ops : <<2, a>> \in orphans => Rank(a) = 2
  /\ \A a \in terminal : Unsettled(a) =>
       item = a /\ pc \in {"postcommit", "pending", "pending_rename", "manual"}

IdempotentInv ==
  /\ PassesAgree
  /\ quiet /\ faults = 0 /\ pc \in RecoverySteps \ {"down", "list"} => JournalsInTurn /\ FilesInTurn
  /\ Rested

=============================================================================
