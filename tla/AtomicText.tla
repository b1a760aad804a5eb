----------------------------- MODULE AtomicText -----------------------------
(***************************************************************************)
(* The atomic text writes of server/atomicTextWrite.ts on one document,    *)
(* one file-system call at a time, against writers outside the server.     *)
(*                                                                         *)
(* A replace writes the new bytes to a hidden save file, records its       *)
(* intent in a durable journal, renames the target aside to a hidden       *)
(* staging name, verifies what it took, links the save file to the target  *)
(* (link never replaces) and removes save file, staged file and journal,   *)
(* the journal last.  A create only links; a conditional removal only      *)
(* takes the target aside, verifies it and unlinks it.  The document lock  *)
(* of WriteLock.tla admits one of them at a time.                          *)
(*                                                                         *)
(* A name is bound to an inode and an inode has bytes; a hash is modelled  *)
(* by the bytes it is the hash of.  Editors outside the server may replace *)
(* or delete the target and may write through a descriptor they opened     *)
(* earlier.  They leave the hidden names alone, which the vault path       *)
(* syntax reserves.                                                        *)
(***************************************************************************)
EXTENDS Naturals

CONSTANTS MaxOps,      \* bound: operations of the server
          MaxExternal, \* bound: steps of external writers
          MaxFaults,   \* bound: link calls and journal rewrites that fail
          Callers,     \* the kinds of operation the callers ask for
          Base,        \* the bytes of the document at the start
          Saves,       \* bytes the server is asked to write
          Edits,       \* bytes external writers write
          Empty,       \* the bytes of a file that has just been created
          None         \* no directory entry, no request, no descriptor

ASSUME BoundsAssumption == MaxOps \in Nat /\ MaxExternal \in Nat /\ MaxFaults \in Nat
ASSUME NoneIsNoInode == None \notin Nat

Ops == 1 .. MaxOps
Bytes == {Base, Empty} \cup Saves \cup Edits

(* Inode 0 is the document's, inode a the save file of operation a, the    *)
(* others are made by external writers.                                    *)
Inodes == 0 .. MaxOps + MaxExternal

VARIABLES
  target,   \* the inode of the document's path, or None
  save,     \* save[a]: the inode of operation a's save file
  staged,   \* staged[a]: of the name it moved the target to
            \*   (.nuvyn-staged-* in a replace, .nuvyn-remove-* in a removal)
  journal,  \* journal[a]: "none", "torn" or the phase of a's journal
  content,  \* content[i]: the bytes of inode i
  pc,       \* the server's next call
  op,       \* the operation the server is in, 0 before the first
  owned,    \* the inode the operation captured
  verdict,  \* what the operation will report
  request,  \* request[a]: kind, expected and replacement bytes
  outcome,  \* outcome[a]: what the caller was told
  base,     \* the bytes the client loaded last
  fd,       \* the inode an external editor has open
  external, \* steps external writers took
  faults,   \* calls that failed
  deleted,  \* history: an external writer or a removal deleted the document
  forfeit   \* history: inodes external writers put up with losing: they
            \*   replaced or deleted them at the path, or wrote into them
            \*   when they were staged and had passed their last check

disk == <<target, save, staged, journal, content>>
server == <<pc, op, owned, verdict>>
caller == <<request, outcome, base>>
outside == <<fd, external, forfeit>>
vars == <<disk, server, caller, outside, faults, deleted>>

Kinds == {"replace", "create", "remove"}
ASSUME CallersAssumption == Callers \subseteq Kinds

JournalStates == {"none", "torn", "active", "pending", "manual", "postcommit"}
Verdicts == {"saved", "conflict", "missing", "ownership", "error", "postcommit",
             "removed", "kept"}
CommitSteps == {"idle", "write_temp", "open_journal", "write_journal", "capture",
  "takeover", "verify_owner", "verify_bytes", "link", "drop_staged",
  "restore", "restore_clean", "restore_stat", "restore_rename",
  "final_check", "mark", "mark_temp", "clean_temp", "clean_staged", "clean_journal",
  "fail_temp", "fail_journal", "create_link", "create_clean",
  "remove_capture", "remove_verify", "remove_rename", "remove_check",
  "remove_final", "remove_unlink"}

Request == [kind : Kinds, expected : Bytes, replacement : Bytes]

AtomicTextTypeOK ==
  /\ target \in Inodes \cup {None}
  /\ save \in [Ops -> Inodes \cup {None}]
  /\ staged \in [Ops -> Inodes \cup {None}]
  /\ journal \in [Ops -> JournalStates]
  /\ content \in [Inodes -> Bytes]
  /\ op \in 0 .. MaxOps
  /\ owned \in Inodes \cup {None}
  /\ verdict \in Verdicts
  /\ request \in [Ops -> Request]
  /\ outcome \in [Ops -> Verdicts \cup {"unstarted", "running", "lost"}]
  /\ base \in Bytes
  /\ fd \in Inodes \cup {None}
  /\ external \in 0 .. MaxExternal
  /\ faults \in 0 .. MaxFaults
  /\ deleted \in BOOLEAN
  /\ forfeit \subseteq Inodes

AtomicTextInit ==
  /\ target = 0
  /\ save = [a \in Ops |-> None]
  /\ staged = [a \in Ops |-> None]
  /\ journal = [a \in Ops |-> "none"]
  /\ content = [i \in Inodes |-> IF i = 0 THEN Base ELSE Empty]
  /\ pc = "idle"
  /\ op = 0
  /\ owned = None
  /\ verdict = "saved"
  /\ request = [a \in Ops |-> [kind |-> "replace", expected |-> Base, replacement |-> Base]]
  /\ outcome = [a \in Ops |-> "unstarted"]
  /\ base = Base
  /\ fd = None
  /\ external = 0
  /\ faults = 0
  /\ deleted = FALSE
  /\ forfeit = {}

-----------------------------------------------------------------------------
(* The server's next call; a refusal goes through fail(); a report.        *)
Goto(p) == pc' = p /\ UNCHANGED <<op, owned, verdict>>

Fail(v) == pc' = "fail_temp" /\ verdict' = v /\ UNCHANGED <<op, owned>>

Report(v) ==
  /\ pc' = "idle"
  /\ outcome' = [outcome EXCEPT ![op] = v]
  /\ UNCHANGED <<op, owned, verdict, request, base>>

(* Calls that only look at the disk, and calls that bind one of the names. *)
Reads == UNCHANGED disk

Unlinks(names) == names' = [names EXCEPT ![op] = None]

(* An operation that nobody has been told the end of asks for a new one.   *)
Enters(kind, replacement, first) ==
  /\ pc = "idle"
  /\ op < MaxOps
  /\ op' = op + 1
  /\ request' = [request EXCEPT ![op + 1] =
       [kind |-> kind, expected |-> base, replacement |-> replacement]]
  /\ outcome' = [outcome EXCEPT ![op + 1] = "running"]
  /\ pc' = first
  /\ UNCHANGED <<owned, verdict, base, faults>>

(* writeTemporaryTextFile: O_EXCL open, then write and fsync. *)
OpenTemp(kind, replacement) ==
  /\ Enters(kind, replacement, "write_temp")
  /\ save' = [save EXCEPT ![op + 1] = op + 1]
  /\ UNCHANGED <<target, staged, journal, content>>

WriteTemp ==
  /\ pc = "write_temp"
  /\ content' = [content EXCEPT ![save[op]] = request[op].replacement]
  /\ Goto(IF request[op].kind = "create" THEN "create_link" ELSE "open_journal")
  /\ UNCHANGED <<target, save, staged, journal, caller, faults>>

(* writeDurableJournal: O_EXCL open, then write and fsync. *)
OpenJournal ==
  /\ pc = "open_journal"
  /\ journal' = [journal EXCEPT ![op] = "torn"]
  /\ Goto("write_journal")
  /\ UNCHANGED <<target, save, staged, content, caller, faults>>

WriteJournal ==
  /\ pc = "write_journal"
  /\ journal' = [journal EXCEPT ![op] = "active"]
  /\ Goto("capture")
  /\ UNCHANGED <<target, save, staged, content, caller, faults>>

Capture ==
  /\ pc = "capture"
  /\ owned' = target
  /\ IF target = None
       THEN pc' = "fail_temp" /\ verdict' = "missing"
       ELSE pc' = "takeover" /\ UNCHANGED verdict
  /\ UNCHANGED <<op, disk, caller, faults>>

Takeover ==
  /\ pc = "takeover"
  /\ IF target = None
       THEN Reads /\ Fail("missing")
       ELSE /\ staged' = [staged EXCEPT ![op] = target]
            /\ target' = None
            /\ Goto("verify_owner")
            /\ UNCHANGED <<save, journal, content>>
  /\ UNCHANGED <<caller, faults>>

VerifyOwner ==
  /\ pc = "verify_owner"
  /\ IF staged[op] = owned THEN Goto("verify_bytes") ELSE Fail("ownership")
  /\ UNCHANGED <<disk, caller, faults>>

VerifyBytes ==
  /\ pc = "verify_bytes"
  /\ IF content[staged[op]] = request[op].expected
       THEN Goto("link")
       ELSE pc' = "restore" /\ verdict' = "conflict" /\ UNCHANGED <<op, owned>>
  /\ UNCHANGED <<disk, caller, faults>>

(* link(2) the replacement in: it never replaces.  On EEXIST the staged    *)
(* generation is removed and the newcomer stays.                           *)
Link ==
  /\ pc = "link"
  /\ IF target = None
       THEN target' = save[op] /\ Goto("final_check")
       ELSE /\ pc' = "drop_staged" /\ verdict' = "conflict"
            /\ UNCHANGED <<target, op, owned>>
  /\ UNCHANGED <<save, staged, journal, content, caller, faults>>

LinkFails ==
  /\ pc = "link"
  /\ target = None
  /\ faults < MaxFaults
  /\ faults' = faults + 1
  /\ pc' = "restore" /\ verdict' = "error"
  /\ UNCHANGED <<op, owned, disk, caller>>

DropStaged ==
  /\ pc = "drop_staged"
  /\ Unlinks(staged)
  /\ Goto("fail_temp")
  /\ UNCHANGED <<target, save, journal, content, caller, faults>>

-----------------------------------------------------------------------------
(* restoreStagedGeneration, for a replace and for a removal.  A replace    *)
(* then cleans up in fail(), a removal reports.                            *)
EndRestore ==
  IF request[op].kind = "replace"
    THEN Goto("fail_temp") /\ UNCHANGED caller
    ELSE Report(verdict)

(* mutant: a refused generation is left under its staging name *)
RestoreLinkSkipped ==
  /\ pc = "restore"
  /\ EndRestore
  /\ UNCHANGED <<disk, faults>>

RestoreLink ==
  /\ pc = "restore"
  /\ IF target = None
       THEN target' = staged[op] /\ Goto("restore_clean") /\ UNCHANGED caller
       ELSE UNCHANGED target /\ EndRestore
  /\ UNCHANGED <<save, staged, journal, content, faults>>

RestoreLinkFails ==
  /\ pc = "restore"
  /\ target = None
  /\ faults < MaxFaults
  /\ faults' = faults + 1
  /\ Goto("restore_stat")
  /\ UNCHANGED <<disk, caller>>

RestoreClean ==
  /\ pc = "restore_clean"
  /\ Unlinks(staged)
  /\ EndRestore
  /\ UNCHANGED <<target, save, journal, content, faults>>

RestoreStat ==
  /\ pc = "restore_stat"
  /\ IF target = None
       THEN Goto("restore_rename") /\ UNCHANGED caller
       ELSE EndRestore
  /\ UNCHANGED <<disk, faults>>

RestoreRename ==
  /\ pc = "restore_rename"
  /\ target' = staged[op]
  /\ Unlinks(staged)
  /\ EndRestore
  /\ UNCHANGED <<save, journal, content, faults>>

-----------------------------------------------------------------------------
(* mutant: the staged generation is not read again after the link *)
FinalCheckSkipped ==
  /\ pc = "final_check"
  /\ Goto("clean_temp")
  /\ UNCHANGED <<disk, caller, faults>>

(* After the link: the staged generation is read once more.  If it changed *)
(* it is kept, and the journal says why.                                   *)
FinalCheck ==
  /\ pc = "final_check"
  /\ Goto(IF content[staged[op]] = request[op].expected THEN "clean_temp" ELSE "mark")
  /\ UNCHANGED <<disk, caller, faults>>

Mark ==
  /\ pc = "mark"
  /\ journal' = [journal EXCEPT ![op] = "postcommit"]
  /\ Goto("mark_temp")
  /\ UNCHANGED <<target, save, staged, content, caller, faults>>

MarkFails ==
  /\ pc = "mark"
  /\ faults < MaxFaults
  /\ faults' = faults + 1
  /\ Goto("mark_temp")
  /\ UNCHANGED <<disk, caller>>

MarkTemp ==
  /\ pc = "mark_temp"
  /\ Unlinks(save)
  /\ Report("postcommit")
  /\ UNCHANGED <<target, staged, journal, content, faults>>

(* mutant: the journal goes with the save file, not last *)
CleanTempAndJournal ==
  /\ pc = "clean_temp"
  /\ Unlinks(save)
  /\ journal' = [journal EXCEPT ![op] = "none"]
  /\ Goto("clean_staged")
  /\ UNCHANGED <<target, staged, content, caller, faults>>

CleanTemp ==
  /\ pc = "clean_temp"
  /\ Unlinks(save)
  /\ Goto("clean_staged")
  /\ UNCHANGED <<target, staged, journal, content, caller, faults>>

CleanStaged ==
  /\ pc = "clean_staged"
  /\ Unlinks(staged)
  /\ Goto("clean_journal")
  /\ UNCHANGED <<target, save, journal, content, caller, faults>>

CleanJournal ==
  /\ pc = "clean_journal"
  /\ journal' = [journal EXCEPT ![op] = "none"]
  /\ Report("saved")
  /\ UNCHANGED <<target, save, staged, content, faults>>

(* mutant: the caller is told before save file and journal are removed *)
FailBeforeCleanup ==
  /\ pc = "fail_temp"
  /\ Report(verdict)
  /\ UNCHANGED <<disk, faults>>

(* fail(): the save file goes, then the journal, then the caller is told.  *)
FailTemp ==
  /\ pc = "fail_temp"
  /\ Unlinks(save)
  /\ Goto("fail_journal")
  /\ UNCHANGED <<target, staged, journal, content, caller, faults>>

FailJournal ==
  /\ pc = "fail_journal"
  /\ journal' = [journal EXCEPT ![op] = "none"]
  /\ Report(verdict)
  /\ UNCHANGED <<target, save, staged, content, faults>>

-----------------------------------------------------------------------------
(* prepareAtomicTextCreate: link or refuse, then drop the save file. *)
CreateLink ==
  /\ pc = "create_link"
  /\ pc' = "create_clean"
  /\ verdict' = IF target = None THEN "saved" ELSE "conflict"
  /\ target' = IF target = None THEN save[op] ELSE target
  /\ deleted' = FALSE
  /\ UNCHANGED <<op, owned, save, staged, journal, content, caller, faults>>

CreateClean ==
  /\ pc = "create_clean"
  /\ Unlinks(save)
  /\ Report(verdict)
  /\ UNCHANGED <<target, staged, journal, content, faults>>

(* removeTextIfUnchanged: look, take aside, look twice more, unlink. *)
BeginRemove ==
  /\ Enters("remove", base, "remove_capture")
  /\ UNCHANGED disk

RemoveCapture ==
  /\ pc = "remove_capture"
  /\ IF target # None /\ content[target] = request[op].expected
       THEN pc' = "remove_verify" /\ owned' = target /\ UNCHANGED <<op, verdict, caller>>
       ELSE Report("kept")
  /\ UNCHANGED <<disk, faults>>

RemoveVerify ==
  /\ pc = "remove_verify"
  /\ IF target = owned
       THEN Goto("remove_rename") /\ UNCHANGED caller
       ELSE Report("ownership")
  /\ UNCHANGED <<disk, faults>>

RemoveRename ==
  /\ pc = "remove_rename"
  /\ IF target = None
       THEN UNCHANGED <<target, staged>> /\ Report("kept")
       ELSE /\ staged' = [staged EXCEPT ![op] = target]
            /\ target' = None
            /\ Goto("remove_check") /\ UNCHANGED caller
  /\ UNCHANGED <<save, journal, content, faults>>

RemoveCheck ==
  /\ pc \in {"remove_check", "remove_final"}
  /\ IF staged[op] # owned
       THEN Report("ownership")
       ELSE /\ IF content[staged[op]] # request[op].expected
                 THEN pc' = "restore" /\ verdict' = "postcommit"
                 ELSE /\ pc' = IF pc = "remove_check" THEN "remove_final" ELSE "remove_unlink"
                      /\ UNCHANGED verdict
            /\ UNCHANGED <<op, owned, caller>>
  /\ UNCHANGED <<disk, faults>>

RemoveUnlink ==
  /\ pc = "remove_unlink"
  /\ Unlinks(staged)
  /\ Report("removed")
  /\ deleted' = TRUE
  /\ UNCHANGED <<target, save, journal, content, faults>>

(* The client reads the document before it edits it. *)
Load ==
  /\ pc = "idle"
  /\ target # None
  /\ base' = content[target]
  /\ UNCHANGED <<server, disk, request, outcome, faults>>

Begin ==
  \/ \E kind \in Callers \ {"remove"}, c \in Saves : OpenTemp(kind, c)
  \/ "remove" \in Callers /\ BeginRemove

Step ==
  \/ WriteTemp \/ OpenJournal \/ WriteJournal \/ Capture \/ Takeover
  \/ VerifyOwner \/ VerifyBytes \/ Link \/ LinkFails \/ DropStaged
  \/ RestoreLink \/ RestoreLinkFails \/ RestoreClean \/ RestoreStat \/ RestoreRename
  \/ FinalCheck \/ Mark \/ MarkFails \/ MarkTemp
  \/ CleanTemp \/ CleanStaged \/ CleanJournal \/ FailTemp \/ FailJournal
  \/ CreateClean
  \/ RemoveCapture \/ RemoveVerify \/ RemoveRename \/ RemoveCheck

Commit ==
  /\ \/ Step /\ UNCHANGED deleted
     \/ CreateLink
     \/ RemoveUnlink
  /\ UNCHANGED outside

Client == (Begin \/ Load) /\ UNCHANGED <<outside, deleted>>

-----------------------------------------------------------------------------
(* Writers outside the server: an editor that saves by renaming a new file *)
(* over the path, a deletion, an editor that keeps the file open and       *)
(* writes in place.                                                        *)
Outside ==
  /\ external < MaxExternal
  /\ external' = external + 1
  /\ UNCHANGED <<server, caller, faults, save, staged, journal>>

ExternalReplace(c) ==
  /\ Outside
  /\ target' = MaxOps + external'
  /\ content' = [content EXCEPT ![target'] = c]
  /\ deleted' = FALSE
  /\ forfeit' = forfeit \cup ({target} \ {None})
  /\ UNCHANGED fd

ExternalDelete ==
  /\ Outside
  /\ target # None
  /\ target' = None
  /\ deleted' = TRUE
  /\ forfeit' = forfeit \cup ({target} \ {None})
  /\ UNCHANGED <<content, fd>>

ExternalOpen ==
  /\ fd = None
  /\ target # None
  /\ fd' = target
  /\ UNCHANGED <<disk, server, caller, faults, external, deleted, forfeit>>

(* The steps between the last check of a staged file and its removal. *)
CheckedSteps == {"link", "drop_staged", "clean_temp", "clean_staged", "remove_unlink",
  "recover_link", "drop_save", "recover_drop_staged"}

ExternalWrite(c) ==
  /\ Outside
  /\ fd # None
  /\ content' = [content EXCEPT ![fd] = c]
  /\ forfeit' = IF pc \in CheckedSteps /\ fd # target THEN forfeit \cup {fd} ELSE forfeit
  /\ UNCHANGED <<target, fd, deleted>>

External ==
  \/ \E c \in Edits : ExternalReplace(c) \/ ExternalWrite(c)
  \/ ExternalDelete
  \/ ExternalOpen

=============================================================================
