-------------------------- MODULE DocumentLifecycle --------------------------
(***************************************************************************)
(* Rename and delete of one document: its file and its metadata row, and   *)
(* their recovery after a crash (server/documentFileLifecycle.ts, the      *)
(* PATCH and DELETE handlers of server/routes/posts.ts and                 *)
(* server/crashRecovery.ts).                                               *)
(*                                                                         *)
(* A move never replaces a file: the source is renamed to a hidden name,   *)
(* linked at the destination and unlinked at the hidden name, and the row  *)
(* follows.  A delete renames the file to a hidden name, deletes the row   *)
(* and unlinks the file.  Programs outside the server know no lock: they   *)
(* create, replace and remove files at the two public paths at any moment. *)
(* The server may die between any two of its calls.                        *)
(*                                                                         *)
(* gen[p] is the file at place p, an inode with its bytes: two places with *)
(* the same value are two names of one file.  Links fail only because the  *)
(* name is taken; AtomicText.tla has the other failures of a restore.      *)
(***************************************************************************)
EXTENDS Integers, FiniteSets

CONSTANTS
  Bytes,        \* the contents a file may have
  Text,         \* the document's contents at the start
  None,         \* no file, no row, no journal
  DocId, NewId, \* the document's identity, and one of any other file
  MaxExternal,  \* bound: steps of outside programs
  MaxCrashes    \* bound: deaths of the process

ASSUME LifecycleAssumption ==
  /\ Text \in Bytes /\ None \notin Bytes
  /\ None \notin [ino : Nat, raw : Bytes]
  /\ DocId # NewId /\ None \notin {DocId, NewId}
  /\ MaxExternal \in Nat /\ MaxCrashes \in Nat

VARIABLES
  gen,       \* gen[p]: the file at place p
  row,       \* row[p]: the identity the metadata row of public path p holds
  journal,   \* the file-rename journal: the hash of the source, or None
  manifest,  \* the delete-path-reuse manifest exists
  pc,        \* the next call of the handler or of recovery
  move,      \* the move under way: the rename itself or its rollback
  snap,      \* databaseSnapshot: the rows before the operation
  error,     \* what the handler's catch block was given
  rec,       \* the bookkeeping of recoverInterruptedOperations
  born,      \* history: every file there has ever been
  gone,      \* history: files an outside program or the user's delete removed
  ext,       \* outside steps so far
  crashes    \* deaths so far

disk == <<gen, row, journal, manifest>>
history == <<born, gone, ext, crashes>>
vars == <<disk, pc, move, snap, error, rec, history>>

Public == {"src", "dest"}
Place == Public \cup {"staging", "back", "inflight", "quarantine"}

(* The two calls of createOnlyMoveFile in renameDocumentWithMetadata: the  *)
(* rename through the journal's staging name, the rollback through one of  *)
(* its own next to the destination.                                        *)
Moves == {"forward", "backward"}
From == [forward |-> "src", backward |-> "dest"]
To == [forward |-> "dest", backward |-> "src"]
Via == [forward |-> "staging", backward |-> "back"]

Files == [ino : 1 .. (MaxExternal + 1), raw : Bytes]
Document == [ino |-> 1, raw |-> Text]

NoRecovery == [todo |-> {}, via |-> "staging", to |-> "src", seen |-> {},
               term |-> {}, fresh |-> FALSE, acted |-> FALSE]

(* The destination may have a row without a file: the row of a document    *)
(* that an outside program removed.                                        *)
Init ==
  /\ gen = [p \in Place |-> IF p = "src" THEN Document ELSE None]
  /\ row \in [Public -> {DocId, NewId, None}]
  /\ row["src"] = DocId /\ row["dest"] # DocId
  /\ journal = None /\ manifest = FALSE
  /\ pc = "idle" /\ move = "forward" /\ snap = row /\ error = "none"
  /\ rec = NoRecovery
  /\ born = {Document} /\ gone = {} /\ ext = 0 /\ crashes = 0

-----------------------------------------------------------------------------
(* Calls on the directory and on the database.                             *)

Renamed(p, q) == [gen EXCEPT ![p] = None, ![q] = gen[p]]
Linked(p, q) == [gen EXCEPT ![q] = gen[p]]
Unlinked(p) == [gen EXCEPT ![p] = None]

(* moveDocumentMetadataReplacingDestination: without a row at p it does    *)
(* nothing, otherwise it drops the row at q and moves the one at p.        *)
RowMoved(p, q) ==
  IF row[p] = None THEN row ELSE [row EXCEPT ![p] = None, ![q] = row[p]]

RowDeleted(p) == [row EXCEPT ![p] = None]

Goto(here, there) == pc = here /\ pc' = there

-----------------------------------------------------------------------------
(* Rename: renameDocumentWithMetadata under the PATCH handler.             *)

(* The handler's checks under the locks, and its snapshot of the rows.     *)
StartRename ==
  /\ Goto("idle", "journal")
  /\ gen["src"] # None /\ gen["dest"] = None
  /\ snap' = row /\ move' = "forward" /\ error' = "plain"
  /\ UNCHANGED <<disk, rec, history>>

(* The source is read again for the hash in the journal.                   *)
WriteJournal ==
  /\ Goto("journal", "take")
  /\ gen["src"] # None
  /\ journal' = gen["src"].raw
  /\ UNCHANGED <<gen, row, manifest, move, snap, error, rec, history>>

SourceVanished ==
  /\ Goto("journal", "unwind")
  /\ gen["src"] = None
  /\ UNCHANGED <<disk, move, snap, error, rec, history>>

(* createOnlyMoveFile takes whatever file is at the source aside.          *)
TakeAside ==
  /\ Goto("take", "link")
  /\ gen[From[move]] # None
  /\ gen' = Renamed(From[move], Via[move])
  /\ UNCHANGED <<row, journal, manifest, move, snap, error, rec, history>>

(* There is nothing to take: the rename drops its journal, the rollback    *)
(* reports both failures and leaves the journal to recovery.               *)
NothingToTake ==
  /\ pc = "take"
  /\ gen[From[move]] = None
  /\ pc' = IF move = "forward" THEN "drop" ELSE "unwind"
  /\ UNCHANGED <<disk, move, snap, error, rec, history>>

LinkTaken ==
  /\ Goto("link", "unlink")
  /\ gen[To[move]] = None
  /\ gen' = Linked(Via[move], To[move])
  /\ UNCHANGED <<row, journal, manifest, move, snap, error, rec, history>>

LinkOccupied ==
  /\ Goto("link", "restore")
  /\ gen[To[move]] # None
  /\ UNCHANGED <<disk, move, snap, error, rec, history>>

(* The staged file would be renamed over the path it came from.            *)
RestoreTakenOver ==
  /\ Goto("restore", "tidy")
  /\ gen' = Linked(Via[move], From[move])
  /\ UNCHANGED <<row, journal, manifest, move, snap, error, rec, history>>

(* restoreStagedGeneration: create-only as well.                           *)
RestoreTaken ==
  /\ Goto("restore", "tidy")
  /\ gen[From[move]] = None
  /\ gen' = Linked(Via[move], From[move])
  /\ UNCHANGED <<row, journal, manifest, move, snap, error, rec, history>>

(* Both paths were re-used: the file stays at its hidden name and the      *)
(* journal stays with it.                                                  *)
RestoreOccupied ==
  /\ Goto("restore", "unwind")
  /\ gen[From[move]] # None
  /\ error' = "staging"
  /\ UNCHANGED <<disk, move, snap, rec, history>>

TidyTaken ==
  /\ pc = "tidy"
  /\ gen' = Unlinked(Via[move])
  /\ IF move = "forward"
       THEN pc' = "drop" /\ UNCHANGED error
       ELSE pc' = "unwind" /\ error' = "destination"
  /\ UNCHANGED <<row, journal, manifest, move, snap, rec, history>>

UnlinkTaken ==
  /\ pc = "unlink"
  /\ pc' = IF move = "forward" THEN "row" ELSE "drop"
  /\ gen' = Unlinked(Via[move])
  /\ UNCHANGED <<row, journal, manifest, move, snap, error, rec, history>>

MoveRow ==
  /\ Goto("row", "clear")
  /\ row["src"] # None
  /\ row' = RowMoved("src", "dest")
  /\ UNCHANGED <<gen, journal, manifest, move, snap, error, rec, history>>

(* The file would stay at the destination, the journal would be dropped.   *)
MoveRowFailsInPlace ==
  /\ Goto("row", "drop")
  /\ UNCHANGED <<disk, move, snap, error, rec, history>>

(* The database throws: the file is moved back.                            *)
MoveRowFails ==
  /\ Goto("row", "take")
  /\ move' = "backward"
  /\ UNCHANGED <<disk, snap, error, rec, history>>

(* removeDurableJournal(...).catch(() => {}): it may leave the journal.    *)
ClearJournal ==
  /\ Goto("clear", "served")
  /\ journal' \in {None, journal}
  /\ UNCHANGED <<gen, row, manifest, move, snap, error, rec, history>>

DropJournal ==
  /\ Goto("drop", "unwind")
  /\ journal' \in {None, journal}
  /\ UNCHANGED <<gen, row, manifest, move, snap, error, rec, history>>

(* The handler's catch block restores the rows and, when the file is only  *)
(* left at a hidden name, takes the identity off the source path.          *)
Unwind ==
  /\ pc = "unwind"
  /\ pc' = CASE error = "staging" -> "identify"
             [] error = "destination" -> "follow"
             [] OTHER -> "served"
  /\ row' = IF error = "staging" THEN [snap EXCEPT !["src"] = None] ELSE snap
  /\ UNCHANGED <<gen, journal, manifest, move, snap, error, rec, history>>

(* ensureMetadata for the file that took the path.                         *)
IdentifySource ==
  /\ Goto("identify", "served")
  /\ row' = IF gen["src"] = None THEN row ELSE [row EXCEPT !["src"] = NewId]
  /\ UNCHANGED <<gen, journal, manifest, move, snap, error, rec, history>>

(* The restored rows would be left as they are.                            *)
FollowFileNot ==
  /\ Goto("follow", "clear")
  /\ UNCHANGED <<disk, move, snap, error, rec, history>>

(* The rollback left the file at the destination: the identity follows it. *)
FollowFile ==
  /\ Goto("follow", "clear")
  /\ row' = IF gen["dest"] = None THEN RowDeleted("src") ELSE RowMoved("src", "dest")
  /\ UNCHANGED <<gen, journal, manifest, move, snap, error, rec, history>>

RenameStep ==
  \/ WriteJournal \/ SourceVanished
  \/ TakeAside \/ NothingToTake \/ LinkTaken \/ LinkOccupied
  \/ RestoreTaken \/ RestoreOccupied \/ TidyTaken \/ UnlinkTaken
  \/ MoveRow \/ MoveRowFails \/ ClearJournal \/ DropJournal
  \/ Unwind \/ IdentifySource \/ FollowFile

-----------------------------------------------------------------------------
(* Delete: the DELETE handler.                                             *)

StartDelete ==
  /\ Goto("idle", "delete_row")
  /\ gen["src"] # None
  /\ snap' = row
  /\ gen' = Renamed("src", "inflight")
  /\ UNCHANGED <<row, journal, manifest, move, error, rec, history>>

DeleteRow ==
  /\ Goto("delete_row", "delete_file")
  /\ row' = RowDeleted("src")
  /\ UNCHANGED <<gen, journal, manifest, move, snap, error, rec, history>>

DeleteFile ==
  /\ Goto("delete_file", "served")
  /\ gen' = Unlinked("inflight")
  /\ gone' = gone \cup {gen["inflight"]}
  /\ UNCHANGED <<row, journal, manifest, move, snap, error, rec, born, ext, crashes>>

(* Either call throws: the handler tries to put the file back.             *)
DeleteFails ==
  /\ pc \in {"delete_row", "delete_file"}
  /\ pc' = "put_back"
  /\ UNCHANGED <<disk, move, snap, error, rec, history>>

PutBack ==
  /\ Goto("put_back", "put_back_tidy")
  /\ gen["src"] = None
  /\ gen' = Linked("inflight", "src")
  /\ UNCHANGED <<row, journal, manifest, move, snap, error, rec, history>>

PutBackTidy ==
  /\ Goto("put_back_tidy", "put_back_row")
  /\ gen' = Unlinked("inflight")
  /\ UNCHANGED <<row, journal, manifest, move, snap, error, rec, history>>

PutBackRow ==
  /\ Goto("put_back_row", "served")
  /\ row' = snap
  /\ UNCHANGED <<gen, journal, manifest, move, snap, error, rec, history>>

(* The path was re-used: persistReuseQuarantine, then reidentifyReusedPath.*)
WriteManifest ==
  /\ Goto("put_back", "set_aside")
  /\ gen["src"] # None
  /\ manifest' = TRUE
  /\ UNCHANGED <<gen, row, journal, move, snap, error, rec, history>>

SetAside ==
  /\ Goto("set_aside", "detach")
  /\ gen' = Renamed("inflight", "quarantine")
  /\ UNCHANGED <<row, journal, manifest, move, snap, error, rec, history>>

Detach ==
  /\ Goto("detach", "reidentify")
  /\ row' = RowDeleted("src")
  /\ UNCHANGED <<gen, journal, manifest, move, snap, error, rec, history>>

(* If the new file cannot be read the manifest stays.                      *)
Reidentify ==
  /\ pc = "reidentify"
  /\ IF gen["src"] = None
       THEN pc' = "served" /\ UNCHANGED row
       ELSE pc' = "drop_manifest" /\ row' = [row EXCEPT !["src"] = NewId]
  /\ UNCHANGED <<gen, journal, manifest, move, snap, error, rec, history>>

DropManifest ==
  /\ Goto("drop_manifest", "served")
  /\ manifest' \in BOOLEAN
  /\ UNCHANGED <<gen, row, journal, move, snap, error, rec, history>>

DeleteStep ==
  \/ DeleteRow \/ DeleteFile \/ DeleteFails
  \/ PutBack \/ PutBackTidy \/ PutBackRow
  \/ WriteManifest \/ SetAside \/ Detach \/ Reidentify \/ DropManifest

-----------------------------------------------------------------------------
(* Startup recovery.  recoverDirectory treats the hidden files of the two  *)
(* base names as two groups, in the order the directory lists them: the    *)
(* manifest, the journal, the delete staging and the rename staging belong *)
(* to the source, the rollback's staging to the destination.               *)

Final == {"completed", "restored", "cleaned"}

(* Every report would count as progress.                                   *)
NotedAgain(r, artifact, action) ==
  [r EXCEPT !.fresh = TRUE,
            !.seen = @ \cup {<<artifact, action>>},
            !.acted = @ \/ action \in Final,
            !.term = IF action \in Final THEN @ ELSE @ \cup {artifact}]

(* note(): a report is progress once; one that changes nothing makes the   *)
(* journal terminal for the passes to come.                                *)
Noted(r, artifact, action) ==
  [r EXCEPT !.fresh = @ \/ <<artifact, action>> \notin r.seen,
            !.seen = @ \cup {<<artifact, action>>},
            !.acted = @ \/ action \in Final,
            !.term = IF action \in Final THEN @ ELSE @ \cup {artifact}]

Note(artifact, action) == rec' = Noted(rec, artifact, action)

Restart ==
  /\ Goto("down", "pass")
  /\ rec' = [NoRecovery EXCEPT !.todo = {"src", "dest"}]
  /\ UNCHANGED <<disk, move, snap, error, history>>

NextGroup ==
  /\ pc = "pass"
  /\ \E group \in rec.todo :
       /\ rec' = [rec EXCEPT !.todo = @ \ {group}, !.via = "back"]
       /\ pc' = IF group = "src" THEN "judge_manifest" ELSE "judge_taken"
  /\ UNCHANGED <<disk, move, snap, error, history>>

(* A pass that reported nothing new is the last.                           *)
EndPass ==
  /\ pc = "pass" /\ rec.todo = {}
  /\ IF rec.fresh
       THEN /\ rec' = [rec EXCEPT !.todo = {"src", "dest"}, !.fresh = FALSE,
                         !.acted = FALSE, !.term = IF rec.acted THEN {} ELSE @]
            /\ pc' = "pass"
       ELSE rec' = NoRecovery /\ pc' = "served"
  /\ UNCHANGED <<disk, move, snap, error, history>>

(* The manifest: finish setting the file aside, take the identity off the  *)
(* path if it is still the deleted document's, drop the manifest.          *)
JudgeManifest ==
  /\ pc = "judge_manifest"
  /\ IF ~manifest
       THEN pc' = "judge_journal" /\ UNCHANGED <<disk, rec>>
     ELSE IF gen["inflight"] # None
       THEN gen' = Renamed("inflight", "quarantine")
            /\ UNCHANGED <<pc, row, journal, manifest, rec>>
     ELSE IF row["src"] = DocId
       THEN row' = RowDeleted("src") /\ UNCHANGED <<pc, gen, journal, manifest, rec>>
       ELSE /\ manifest' = FALSE /\ pc' = "judge_journal"
            /\ Note("quarantine", "reused")
            /\ UNCHANGED <<gen, row, journal>>
  /\ UNCHANGED <<move, snap, error, history>>

(* recoverFileRenameJournal decides from what it reads.                    *)
HasBytes(p) == gen[p] # None /\ gen[p].raw = journal
StagingIsDest == gen["staging"] \in {None, gen["dest"]}

Verdict ==
  IF row["dest"] = DocId
    THEN IF StagingIsDest THEN "drop_staging" ELSE "other_generation"
  ELSE IF gen["src"] = None /\ HasBytes("dest")
    THEN IF ~StagingIsDest THEN "staging_mismatch"
         ELSE IF row["src"] = DocId THEN "complete_row" ELSE "identity_mismatch"
  ELSE IF gen["src"] = None /\ gen["dest"] = None /\ gen["staging"] # None
    THEN IF HasBytes("staging") THEN "restore_source" ELSE "hash_mismatch"
  ELSE IF HasBytes("src") /\ gen["dest"] = None THEN "end_journal"
  ELSE "ambiguous"

Retained == {"other_generation", "staging_mismatch", "identity_mismatch",
             "hash_mismatch", "ambiguous"}

JudgeJournal ==
  /\ pc = "judge_journal"
  /\ IF journal = None \/ "journal" \in rec.term
       THEN pc' = "orphans" /\ UNCHANGED rec
     ELSE IF Verdict \in Retained
       THEN pc' = "orphans" /\ Note("journal", Verdict)
       ELSE pc' = Verdict /\ UNCHANGED rec
  /\ UNCHANGED <<disk, move, snap, error, history>>

CompleteRow ==
  /\ Goto("complete_row", "drop_staging")
  /\ row' = RowMoved("src", "dest")
  /\ UNCHANGED <<gen, journal, manifest, move, snap, error, rec, history>>

CompleteRowFails ==
  /\ Goto("complete_row", "orphans")
  /\ Note("journal", "failed")
  /\ UNCHANGED <<disk, move, snap, error, history>>

DropStaging ==
  /\ Goto("drop_staging", "end_journal")
  /\ gen' = Unlinked("staging")
  /\ UNCHANGED <<row, journal, manifest, move, snap, error, rec, history>>

RestoreSource ==
  /\ pc = "restore_source"
  /\ IF gen["src"] = None
       THEN pc' = "drop_staging" /\ gen' = Linked("staging", "src") /\ UNCHANGED rec
       ELSE pc' = "orphans" /\ UNCHANGED gen /\ Note("staging", "claimed")
  /\ UNCHANGED <<row, journal, manifest, move, snap, error, history>>

EndJournal ==
  /\ Goto("end_journal", "orphans")
  /\ journal' = None
  /\ Note("journal", "cleaned")
  /\ UNCHANGED <<gen, row, manifest, move, snap, error, history>>

(* A journal or manifest that was kept keeps the hidden files of its group *)
(* from the rules for orphans.                                             *)
JudgeOrphans ==
  /\ pc = "orphans"
  /\ IF journal # None \/ manifest THEN pc' = "pass" /\ UNCHANGED <<disk, rec>>
     ELSE IF gen["inflight"] = None
       THEN /\ rec' = [rec EXCEPT !.via = "staging"]
            /\ pc' = "judge_taken" /\ UNCHANGED disk
     ELSE IF gen["src"] # None
       THEN /\ gen' = Renamed("inflight", "quarantine")
            /\ pc' = "stale_row" /\ UNCHANGED <<row, journal, manifest, rec>>
       ELSE /\ row' = RowDeleted("src")
            /\ pc' = "finish_delete" /\ UNCHANGED <<gen, journal, manifest, rec>>
  /\ UNCHANGED <<move, snap, error, history>>

StaleRow ==
  /\ Goto("stale_row", "orphans")
  /\ row' = RowDeleted("src")
  /\ Note("quarantine", "promoted")
  /\ UNCHANGED <<gen, journal, manifest, move, snap, error, history>>

FinishDelete ==
  /\ Goto("finish_delete", "orphans")
  /\ gen' = Unlinked("inflight")
  /\ gone' = gone \cup {gen["inflight"]}
  /\ Note("src", "completed")
  /\ UNCHANGED <<row, journal, manifest, move, snap, error, born, ext, crashes>>

(* recoverRenameStaging: a second name of the file tells where it landed.  *)
Home == [staging |-> "src", back |-> "dest"]
Partners == {p \in Public : gen[p] = gen[rec.via]}

JudgeTaken ==
  /\ pc = "judge_taken"
  /\ IF gen[rec.via] = None THEN pc' = "pass" /\ UNCHANGED <<gen, rec>>
     ELSE IF Partners # {}
       THEN \E p \in Partners :
              /\ gen' = Unlinked(rec.via)
              /\ rec' = [rec EXCEPT !.to = p]
              /\ pc' = "rebind"
     ELSE IF gen[Home[rec.via]] # None
       THEN Note(rec.via, "reused") /\ pc' = "pass" /\ UNCHANGED gen
       ELSE gen' = Linked(rec.via, Home[rec.via]) /\ pc' = "restored" /\ UNCHANGED rec
  /\ UNCHANGED <<row, journal, manifest, move, snap, error, history>>

Rebind ==
  /\ Goto("rebind", "pass")
  /\ row' = IF rec.to = Home[rec.via] THEN row ELSE RowMoved(Home[rec.via], rec.to)
  /\ Note(rec.to, "completed")
  /\ UNCHANGED <<gen, journal, manifest, move, snap, error, history>>

TakenRestored ==
  /\ Goto("restored", "pass")
  /\ gen' = Unlinked(rec.via)
  /\ Note(Home[rec.via], "restored")
  /\ UNCHANGED <<row, journal, manifest, move, snap, error, history>>

RecoveryStep ==
  \/ Restart \/ NextGroup \/ EndPass
  \/ JudgeManifest \/ JudgeJournal \/ CompleteRow \/ CompleteRowFails
  \/ DropStaging \/ RestoreSource \/ EndJournal
  \/ JudgeOrphans \/ StaleRow \/ FinishDelete
  \/ JudgeTaken \/ Rebind \/ TakenRestored

-----------------------------------------------------------------------------
(* Crashes and outside programs.                                           *)

Crash ==
  /\ pc \notin {"idle", "down"}
  /\ crashes < MaxCrashes
  /\ crashes' = crashes + 1
  /\ pc' = "down"
  /\ rec' = NoRecovery
  /\ UNCHANGED <<disk, move, snap, error, born, gone, ext>>

(* An editor saves a new file at p or removes the one that is there.       *)
External(p, file) ==
  /\ ext < MaxExternal
  /\ ext' = ext + 1
  /\ gen[p] # None \/ file # None
  /\ gen' = [gen EXCEPT ![p] = file]
  /\ born' = born \cup ({file} \ {None})
  /\ gone' = gone \cup ({gen[p]} \ {None})
  /\ UNCHANGED <<row, journal, manifest, pc, move, snap, error, rec, crashes>>

Outside ==
  \E p \in Public, raw \in Bytes :
    \/ External(p, None)
    \/ External(p, [ino |-> Cardinality(born) + 1, raw |-> raw])

Server == RenameStep \/ DeleteStep \/ RecoveryStep
Next == StartRename \/ StartDelete \/ Server \/ Crash \/ Outside

Spec == Init /\ [][Next]_vars
FairSpec == Spec /\ WF_vars(Server)

-----------------------------------------------------------------------------
(* Properties.                                                             *)

Rows == [Public -> {DocId, NewId, None}]

(* Every variable holds a value of its kind.                               *)
TypeOK ==
  /\ gen \in [Place -> Files \cup {None}] /\ row \in Rows
  /\ journal \in Bytes \cup {None} /\ manifest \in BOOLEAN
  /\ move \in Moves /\ snap \in Rows
  /\ error \in {"none", "plain", "staging", "destination"}
  /\ born \subseteq Files /\ gone \subseteq born
  /\ ext \in 0 .. MaxExternal /\ crashes \in 0 .. MaxCrashes

(* A file that no outside program and no completed delete removed still    *)
(* has a name: no interleaving of the moves, their rollback, a failing     *)
(* database, crashes and recovery loses bytes (the contract of             *)
(* createOnlyMoveFile and restoreStagedGeneration).                        *)
NothingLost == \A file \in born \ gone : \E p \in Place : gen[p] = file

(* The operation is a rename: error is only set by one.                    *)
Renaming == error # "none"

(* Without outside programs a rename is atomic: once the server is serving *)
(* and holds no journal, the document is at one path, with its own row and *)
(* no other there, and has no hidden name, whatever failed or died on the  *)
(* way.  A row without a file at the destination is left out: if the       *)
(* rollback dies, recoverRenameStaging takes it for the document's.        *)
RenameIsAtomic ==
  pc = "served" /\ Renaming /\ journal = None /\ ext = 0 /\ snap["dest"] = None =>
    \E p \in Public :
      /\ gen = [q \in Place |-> IF q = p THEN Document ELSE None]
      /\ row = [q \in Public |-> IF q = p THEN DocId ELSE None]

(* The identity follows the bytes, not the path (routes/posts.ts): once    *)
(* the server is serving and holds no journal or manifest, the document's  *)
(* row is not at a path where a file with other bytes is, while the        *)
(* document's own file is elsewhere.                                       *)
IdentityKept ==
  pc = "served" /\ journal = None /\ ~manifest /\ Document \notin gone =>
    \A p \in Public : row[p] = DocId /\ gen[p] # None => gen[p].raw = Text

(* It is kept through one outside step and one death of the process; a     *)
(* second death can come between recovery's rename of a delete staging and *)
(* the delete of its row, and a second outside step can hide the evidence  *)
(* that recovery decides by.                                               *)
IdentityFollowsFile == ext < 2 /\ crashes < 2 => IdentityKept

(* Once the server is serving and holds no journal or manifest, no hidden  *)
(* name that recovery would act on is a second name of a public file: a    *)
(* crash between the link and the unlink of a move is always finished.     *)
OneName ==
  pc = "served" /\ journal = None /\ ~manifest =>
    \A p \in Public, q \in {"staging", "back", "inflight"} :
      gen[q] # None => gen[q] # gen[p]

(* What holds in every state, with outside programs and whatever dies:     *)
(* nothing is lost, and nothing is left with two names.                    *)
LifecycleInv == TypeOK /\ NothingLost /\ OneName

(* The handler answers, and recovery ends, however often it is restarted.  *)
Settles == pc # "idle" ~> pc = "served"

-----------------------------------------------------------------------------
(* The parts of the inductive invariant.                                   *)

RenameCalls == {"journal", "take", "link", "unlink", "restore", "tidy", "row",
                "clear", "drop", "unwind", "identify", "follow"}
DeleteCalls == {"delete_row", "delete_file", "put_back", "put_back_tidy",
                "put_back_row", "set_aside", "detach", "reidentify", "drop_manifest"}
RecoveryCalls == {"pass", "judge_manifest", "judge_journal", "complete_row",
                  "drop_staging", "restore_source", "end_journal", "orphans",
                  "stale_row", "finish_delete", "judge_taken", "rebind", "restored"}

Artifacts == {"src", "dest", "staging", "back", "journal", "quarantine"}
Actions == Retained \cup Final \cup {"failed", "claimed", "reused", "promoted"}
Passes == [todo : SUBSET Public, via : {"staging", "back"}, to : Public,
           seen : SUBSET (Artifacts \X Actions), term : SUBSET Artifacts,
           fresh : BOOLEAN, acted : BOOLEAN]

PcTyped ==
  pc \in {"idle", "served", "down"} \cup RenameCalls \cup DeleteCalls \cup RecoveryCalls

PassTyped == rec \in Passes

(* A file of an outside program is a new one: inodes are given in order.   *)
FilesAreBorn ==
  /\ Document \in born /\ IsFiniteSet(born) /\ Cardinality(born) <= ext + 1
  /\ \A file \in born : file.ino <= Cardinality(born)
  /\ \A p \in Place : gen[p] # None => gen[p] \in born

Hidden == Place \ Public

(* The hidden names an operation may have taken when a call is next.       *)
HiddenAt ==
  IF pc \in {"link", "unlink", "restore", "tidy", "identify"}
      \/ (pc = "unwind" /\ error = "staging") THEN {Via[move]}
  ELSE IF pc \in {"idle", "put_back_row"} \cup RenameCalls THEN {}
  ELSE IF pc \in {"detach", "reidentify", "drop_manifest"} THEN {"quarantine"}
  ELSE IF pc \in DeleteCalls THEN {"inflight"}
  ELSE Hidden

(* One file at most is away from the public paths, and under a name of the *)
(* operation under way.                                                    *)
OneHidden ==
  /\ \A p, q \in Hidden : gen[p] # None /\ gen[q] # None => p = q
  /\ \A p \in Hidden : gen[p] # None => p \in HiddenAt

(* The file at a hidden name can go: it has another name, or it was        *)
(* removed under that name.                                                *)
Dispensable(h, ps) ==
  gen[h] = None \/ gen[h] \in gone \/ \E p \in ps : gen[p] = gen[h]

UnlinksAreSafe ==
  /\ pc = "unlink" => Dispensable(Via[move], {To[move]})
  /\ pc = "tidy" => Dispensable(Via[move], {From[move]})
  /\ pc = "put_back_tidy" => Dispensable("inflight", {"src"})
  /\ pc \in {"complete_row", "drop_staging"} => Dispensable("staging", Public)
  /\ pc = "restored" => Dispensable(rec.via, {Home[rec.via]})

(* What the next call is about is there.                                   *)
Prepared ==
  /\ pc \in {"delete_row", "delete_file", "put_back", "set_aside", "finish_delete"} =>
       gen["inflight"] # None
  /\ pc = "restore_source" => gen["staging"] # None
  /\ pc \in {"take", "link", "unlink", "restore", "tidy", "row", "drop", "identify"}
       \/ (pc = "unwind" /\ error = "staging") => journal # None
  /\ pc \in {"complete_row", "drop_staging", "restore_source", "end_journal"} =>
       journal # None
  /\ pc \in {"journal", "take", "link", "unlink", "restore", "tidy", "row", "drop"} =>
       error = "plain"
  /\ pc \in {"journal", "row"} => move = "forward"

SingleName(h) == gen[h] # None => \A p \in Public : gen[p] # gen[h]

(* What a group's turn in a pass of recovery leaves holds to the end of    *)
(* the pass, whatever the other group's turn and outside programs do.      *)
PassSoFar ==
  /\ pc \in RecoveryCalls /\ "dest" \notin rec.todo
       /\ ~(pc \in {"judge_taken", "restored"} /\ rec.via = "back") => SingleName("back")
  /\ pc \in {"pass", "judge_taken", "rebind", "restored"}
       /\ "src" \notin rec.todo /\ journal = None /\ ~manifest =>
       /\ gen["inflight"] = None
       /\ SingleName("staging") \/ (pc \in {"judge_taken", "restored"} /\ rec.via = "staging")

FilesInv ==
  TypeOK /\ PcTyped /\ PassTyped /\ FilesAreBorn /\ NothingLost /\ OneHidden /\ UnlinksAreSafe
    /\ Prepared /\ PassSoFar /\ OneName

(* The inductive invariant behind RenameIsAtomic: where the document's     *)
(* file and row are in a rename nobody disturbs.                           *)
Undisturbed == Renaming /\ ext = 0 /\ snap["dest"] = None

At(ps) == \A q \in Place : gen[q] = IF q \in ps THEN Document ELSE None
RowAt(p) == \A q \in Public : row[q] = IF q = p THEN DocId ELSE None

(* Whether a call has died or not.                                         *)
FileAndRow ==
  /\ journal \in {None, Text} /\ ~manifest
  /\ \/ RowAt("src") /\ (At({"src"}) \/ At({"staging", "src"}) \/ At({"back", "src"}))
     \/ RowAt("dest") /\ (At({"dest"}) \/ At({"back", "dest"}))
     \/ RowAt("dest") /\ journal = Text /\ At({"staging", "dest"})
     \/ /\ RowAt("src") /\ journal = Text
        /\ \/ At({"staging"}) \/ At({"staging", "dest"}) \/ At({"dest"})
           \/ At({"back"}) \/ At({"back", "dest"})

RenameRuns ==
  /\ snap["src"] = DocId /\ snap["dest"] = None
  /\ pc \in RenameCalls => error = "plain"
  /\ pc \in {"journal", "drop", "unwind"} => At({"src"}) /\ RowAt("src")
  /\ pc \in {"take", "link", "unlink", "row"} => RowAt("src") /\ journal = Text
  /\ pc = "take" => At({From[move]})
  /\ pc = "link" => At({Via[move]})
  /\ pc = "unlink" => At({Via[move], To[move]})
  /\ pc = "row" => At({"dest"})
  /\ pc = "clear" => At({"dest"}) /\ RowAt("dest")
  /\ pc \notin {"restore", "tidy", "identify", "follow"} \cup DeleteCalls

RecoveryRuns ==
  /\ pc \notin {"stale_row", "finish_delete"}
  /\ pc = "complete_row" => At({"staging", "dest"}) \/ At({"dest"}) \/ At({"back", "dest"})
  /\ pc = "drop_staging" => RowAt("dest") \/ (RowAt("src") /\ At({"staging", "src"}))
  /\ pc = "restore_source" => At({"staging"})
  /\ pc = "end_journal" /\ RowAt("src") =>
       At({"src"}) \/ At({"staging", "src"}) \/ At({"back", "src"})
  /\ pc = "end_journal" /\ RowAt("dest") => At({"dest"}) \/ At({"back", "dest"})
  /\ pc \in {"judge_taken", "restored"} /\ rec.via = "staging" => journal = None
  /\ pc = "restored" => rec.via = "back" /\ At({"back", "dest"})
  /\ pc = "rebind" /\ rec.to # Home[rec.via] => rec.via = "back" /\ At({"src"})

(* Before the one operation there is the document.                         *)
NotBegun ==
  pc = "idle" => /\ error = "none" /\ ~manifest /\ journal = None /\ row["src"] = DocId
                 /\ ext = 0 => At({"src"})

AtomicInv == NotBegun /\ (Undisturbed => FileAndRow /\ RenameRuns /\ RecoveryRuns)

(* The inductive invariant behind IdentityFollowsFile.  Within its bounds  *)
(* the document's own file is the only one the server ever moves, and the  *)
(* identity is at a path with the document's bytes, or something is left   *)
(* that makes the call under way or recovery take it off the path.         *)
Followed == ext < 2 /\ crashes < 2 /\ Document \notin gone

OneStranger ==
  /\ \A h \in Hidden : gen[h] \in {None, Document}
  /\ \E p \in Public : gen[p] \in {None, Document}
  /\ ext = 0 => \A p \in Public : gen[p] \in {None, Document}

HasText(p) == gen[p] # None /\ gen[p].raw = Text

IdentityIsAccountedFor ==
  /\ row["src"] = DocId =>
       \/ HasText("src") \/ journal # None \/ manifest
       \/ gen["inflight"] # None \/ pc = "stale_row"
  /\ row["dest"] = DocId => HasText("dest") /\ row["src"] # DocId
  /\ pc # "idle" => snap["src"] = DocId /\ snap["dest"] # DocId
  /\ pc = "served" /\ journal = None /\ ~manifest => gen["inflight"] = None
  /\ pc \in {"down"} \cup RecoveryCalls => crashes > 0
  /\ journal \in {None, Text}

(* Where the document is when a call is next.                              *)
DocumentIsAt ==
  /\ pc \in {"idle", "journal", "drop", "put_back_tidy", "put_back_row"} => gen["src"] = Document
  /\ pc \in {"row", "clear", "follow"} => gen["dest"] = Document
  /\ pc \in {"take", "tidy"} => gen[From[move]] = Document
  /\ pc = "unlink" => gen[To[move]] = Document
  /\ pc \in {"link", "unlink", "restore", "tidy"} => gen[Via[move]] = Document
  /\ pc \in {"link", "restore"} => \A p \in Public : gen[p] # Document
  /\ pc = "restore" => gen[To[move]] # None
  /\ pc = "unwind" => \/ error = "plain" /\ gen["src"] = Document
                      \/ error = "destination" /\ gen["dest"] = Document /\ journal # None
  /\ pc \in {"idle"} \cup RenameCalls => ~(gen["src"] = Document /\ gen["dest"] = Document)
  /\ pc # "identify"
  /\ pc = "rebind" => gen[rec.to] = Document

(* What is known of the identity when a call is next that gives up what    *)
(* would make recovery look for it.                                        *)
RowIsAt ==
  /\ pc \in {"idle"} \cup (RenameCalls \ {"clear"}) => row["dest"] # DocId
  /\ pc \in {"set_aside", "detach"} => manifest
  /\ pc \in {"clear", "reidentify"} => row["src"] = None
  /\ pc = "drop_manifest" => row["src"] # DocId
  /\ pc = "complete_row" => HasText("dest")
  /\ pc = "drop_staging" => row["src"] # DocId \/ gen["src"] = Document
  /\ pc = "end_journal" => row["src"] # DocId \/ HasText("src")

IdentityInv ==
  Followed => OneStranger /\ IdentityIsAccountedFor /\ DocumentIsAt /\ RowIsAt
=============================================================================
