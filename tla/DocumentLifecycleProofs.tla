----------------------- MODULE DocumentLifecycleProofs -----------------------
(***************************************************************************)
(* Proofs about DocumentLifecycle, for any contents, any number of steps   *)
(* of outside programs and any number of deaths of the process.            *)
(*                                                                         *)
(* FilesInv is about the files: the files there have been, the one that is *)
(* under a hidden name, and why the name that the next unlink takes is not *)
(* the last one.  It needs no bound and gives NothingLost and OneName.     *)
(* AtomicInv says where the document and its row are, call by call, in a   *)
(* rename that no outside program disturbs, and IdentityInv who answers    *)
(* for the identity as long as one outside step and one death, at most,    *)
(* have happened; the third uses the first two.                            *)
(*                                                                         *)
(* Each lemma "...Kept" takes one part of an invariant through every call. *)
(***************************************************************************)
EXTENDS DocumentLifecycle, FiniteSetTheorems, TLAPS

USE DEF disk, history, Goto

(* note() changes the reports of the pass, and nothing else of it.         *)
LEMMA NotedTyped ==
  ASSUME NEW r \in Passes, NEW artifact \in Artifacts, NEW action \in Actions
  PROVE  /\ Noted(r, artifact, action) \in Passes
         /\ Noted(r, artifact, action).todo = r.todo
         /\ Noted(r, artifact, action).via = r.via
         /\ Noted(r, artifact, action).to = r.to
<1> DEFINE acted == r.acted \/ action \in Final
           term == IF action \in Final THEN r.term ELSE r.term \cup {artifact}
           fresh == r.fresh \/ <<artifact, action>> \notin r.seen
<1>1. acted \in BOOLEAN /\ fresh \in BOOLEAN
  BY DEF Passes
<1>2. /\ term \in SUBSET Artifacts
      /\ r.seen \cup {<<artifact, action>>} \in SUBSET (Artifacts \X Actions)
  BY DEF Passes
<1>3. Noted(r, artifact, action) =
        [r EXCEPT !.fresh = fresh, !.seen = r.seen \cup {<<artifact, action>>},
                  !.acted = acted, !.term = term]
  BY DEF Noted
<1> HIDE DEF acted, term, fresh
<1> QED BY <1>1, <1>2, <1>3 DEF Passes

(* The same, of the pass under way.                                        *)
LEMMA Reported ==
  ASSUME PassTyped
  PROVE  \A artifact \in Artifacts, action \in Actions :
           Note(artifact, action) =>
             rec' \in Passes /\ rec'.todo = rec.todo /\ rec'.via = rec.via /\ rec'.to = rec.to
  BY NotedTyped DEF Note, PassTyped

(* What an outside program leaves at a path is nothing or a new file: it   *)
(* has a number no file has had.                                           *)
LEMMA OutsiderIsNew ==
  ASSUME TypeOK, FilesAreBorn, Outside
  PROVE  \E p \in Public, file \in Files \cup {None} :
           External(p, file) /\ file \notin born
                             /\ (file # None => file.ino = Cardinality(born) + 1)
<1> USE LifecycleAssumption
<1>1. Cardinality(born) \in 0 .. MaxExternal + 1 /\ None \notin Files
  BY FS_CardinalityType DEF TypeOK, FilesAreBorn, Files
<1>2. PICK p \in Public, raw \in Bytes :
        \/ External(p, None)
        \/ External(p, [ino |-> Cardinality(born) + 1, raw |-> raw])
  BY DEF Outside
<1>3. CASE External(p, None)
  BY <1>1, <1>3 DEF TypeOK
<1>4. CASE External(p, [ino |-> Cardinality(born) + 1, raw |-> raw])
  <2> DEFINE file == [ino |-> Cardinality(born) + 1, raw |-> raw]
  <2>1. file.ino = Cardinality(born) + 1
    OBVIOUS
  <2>2. file \notin born
    BY <1>1, <2>1 DEF FilesAreBorn
  <2>3. file \in Files
    BY <1>1, <1>4 DEF External, Files, TypeOK, FilesAreBorn
  <2> HIDE DEF file
  <2> QED BY <1>4, <2>1, <2>2, <2>3 DEF file
<1> QED BY <1>2, <1>3, <1>4

(* Every variable keeps its type: a file of an outside program has the     *)
(* next inode, and what the user's delete removes was there.               *)
LEMMA TypesKept ==
  ASSUME FilesInv, Next
  PROVE  TypeOK'
<1> USE LifecycleAssumption
    DEF FilesInv, Rows, Place, Public, Hidden, Moves, Via, From, To, Home,
        TypeOK, Prepared, FilesAreBorn, Files
<1>1. CASE StartRename BY <1>1 DEF StartRename
<1>2. CASE StartDelete BY <1>2 DEF StartDelete, Renamed
<1>3. CASE RenameStep
  <2>1. CASE WriteJournal BY <2>1 DEF WriteJournal
  <2>2. CASE SourceVanished BY <2>2 DEF SourceVanished
  <2>3. CASE TakeAside BY <2>3 DEF TakeAside, Renamed
  <2>4. CASE NothingToTake BY <2>4 DEF NothingToTake
  <2>5. CASE LinkTaken BY <2>5 DEF LinkTaken, Linked
  <2>6. CASE LinkOccupied BY <2>6 DEF LinkOccupied
  <2>7. CASE RestoreTaken BY <2>7 DEF RestoreTaken, Linked
  <2>8. CASE RestoreOccupied BY <2>8 DEF RestoreOccupied
  <2>9. CASE TidyTaken BY <2>9 DEF TidyTaken, Unlinked
  <2>10. CASE UnlinkTaken BY <2>10 DEF UnlinkTaken, Unlinked
  <2>11. CASE MoveRow BY <2>11 DEF MoveRow, RowMoved
  <2>12. CASE MoveRowFails BY <2>12 DEF MoveRowFails
  <2>13. CASE ClearJournal BY <2>13 DEF ClearJournal
  <2>14. CASE DropJournal BY <2>14 DEF DropJournal
  <2>15. CASE Unwind BY <2>15 DEF Unwind
  <2>16. CASE IdentifySource BY <2>16 DEF IdentifySource
  <2>17. CASE FollowFile BY <2>17 DEF FollowFile, RowMoved, RowDeleted
  <2> QED BY <1>3, <2>1, <2>2, <2>3, <2>4, <2>5, <2>6, <2>7, <2>8, <2>9,
             <2>10, <2>11, <2>12, <2>13, <2>14, <2>15, <2>16, <2>17
             DEF RenameStep
<1>4. CASE DeleteStep
  <2>1. CASE DeleteRow BY <2>1 DEF DeleteRow, RowDeleted
  <2>2. CASE DeleteFile BY <2>2 DEF DeleteFile, Unlinked
  <2>3. CASE DeleteFails BY <2>3 DEF DeleteFails
  <2>4. CASE PutBack BY <2>4 DEF PutBack, Linked
  <2>5. CASE PutBackTidy BY <2>5 DEF PutBackTidy, Unlinked
  <2>6. CASE PutBackRow BY <2>6 DEF PutBackRow
  <2>7. CASE WriteManifest BY <2>7 DEF WriteManifest
  <2>8. CASE SetAside BY <2>8 DEF SetAside, Renamed
  <2>9. CASE Detach BY <2>9 DEF Detach, RowDeleted
  <2>10. CASE Reidentify BY <2>10 DEF Reidentify
  <2>11. CASE DropManifest BY <2>11 DEF DropManifest
  <2> QED BY <1>4, <2>1, <2>2, <2>3, <2>4, <2>5, <2>6, <2>7, <2>8, <2>9,
             <2>10, <2>11
             DEF DeleteStep
<1>5. CASE RecoveryStep
  <2>1. CASE Restart BY <2>1 DEF Restart, NoRecovery
  <2>2. CASE NextGroup BY <2>2 DEF NextGroup
  <2>3. CASE EndPass BY <2>3 DEF EndPass, NoRecovery
  <2>4. CASE JudgeManifest BY <2>4 DEF JudgeManifest, Renamed, RowDeleted
  <2>5. CASE JudgeJournal BY <2>5 DEF JudgeJournal, Retained, Verdict,
           StagingIsDest, HasBytes
  <2>6. CASE CompleteRow BY <2>6 DEF CompleteRow, RowMoved
  <2>7. CASE CompleteRowFails BY <2>7 DEF CompleteRowFails
  <2>8. CASE DropStaging BY <2>8 DEF DropStaging, Unlinked
  <2>9. CASE RestoreSource BY <2>9 DEF RestoreSource, Linked
  <2>10. CASE EndJournal BY <2>10 DEF EndJournal
  <2>11. CASE JudgeOrphans BY <2>11 DEF JudgeOrphans, Renamed, RowDeleted
  <2>12. CASE StaleRow BY <2>12 DEF StaleRow, RowDeleted
  <2>13. CASE FinishDelete BY <2>13 DEF FinishDelete, Unlinked
  <2>14. CASE JudgeTaken BY <2>14 DEF JudgeTaken, Partners, Unlinked, Linked,
           Home, PassTyped, Passes
  <2>15. CASE Rebind BY <2>15 DEF Rebind, RowMoved, Home, PassTyped, Passes
  <2>16. CASE TakenRestored BY <2>16 DEF TakenRestored, Unlinked, Home,
           PassTyped, Passes
  <2> QED BY <1>5, <2>1, <2>2, <2>3, <2>4, <2>5, <2>6, <2>7, <2>8, <2>9,
             <2>10, <2>11, <2>12, <2>13, <2>14, <2>15, <2>16
             DEF RecoveryStep
<1>6. CASE Crash BY <1>6 DEF Crash, NoRecovery
<1>7. CASE Outside
  <2>1. PICK p \in Public, file \in Files \cup {None} :
          /\ External(p, file) /\ file \notin born
          /\ file # None => file.ino = Cardinality(born) + 1
    BY <1>7, OutsiderIsNew
  <2> QED BY <2>1 DEF External
<1> QED BY <1>1, <1>2, <1>3, <1>4, <1>5, <1>6, <1>7 DEF Next, Server

(* Every call is followed by one of the server's calls.                    *)
LEMMA CallsKept ==
  ASSUME FilesInv, Next
  PROVE  PcTyped'
<1> USE LifecycleAssumption
    DEF FilesInv, Rows, Place, Public, Hidden, Moves, Via, From, To, Home,
        PcTyped, Retained, RenameCalls, DeleteCalls, RecoveryCalls
<1>1. CASE StartRename BY <1>1 DEF StartRename
<1>2. CASE StartDelete BY <1>2 DEF StartDelete, Renamed
<1>3. CASE RenameStep
  <2>1. CASE WriteJournal BY <2>1 DEF WriteJournal
  <2>2. CASE SourceVanished BY <2>2 DEF SourceVanished
  <2>3. CASE TakeAside BY <2>3 DEF TakeAside, Renamed
  <2>4. CASE NothingToTake BY <2>4 DEF NothingToTake
  <2>5. CASE LinkTaken BY <2>5 DEF LinkTaken, Linked
  <2>6. CASE LinkOccupied BY <2>6 DEF LinkOccupied
  <2>7. CASE RestoreTaken BY <2>7 DEF RestoreTaken, Linked
  <2>8. CASE RestoreOccupied BY <2>8 DEF RestoreOccupied
  <2>9. CASE TidyTaken BY <2>9 DEF TidyTaken, Unlinked
  <2>10. CASE UnlinkTaken BY <2>10 DEF UnlinkTaken, Unlinked
  <2>11. CASE MoveRow BY <2>11 DEF MoveRow, RowMoved
  <2>12. CASE MoveRowFails BY <2>12 DEF MoveRowFails
  <2>13. CASE ClearJournal BY <2>13 DEF ClearJournal
  <2>14. CASE DropJournal BY <2>14 DEF DropJournal
  <2>15. CASE Unwind BY <2>15 DEF Unwind
  <2>16. CASE IdentifySource BY <2>16 DEF IdentifySource
  <2>17. CASE FollowFile BY <2>17 DEF FollowFile, RowMoved, RowDeleted
  <2> QED BY <1>3, <2>1, <2>2, <2>3, <2>4, <2>5, <2>6, <2>7, <2>8, <2>9,
             <2>10, <2>11, <2>12, <2>13, <2>14, <2>15, <2>16, <2>17
             DEF RenameStep
<1>4. CASE DeleteStep
  <2>1. CASE DeleteRow BY <2>1 DEF DeleteRow, RowDeleted
  <2>2. CASE DeleteFile BY <2>2 DEF DeleteFile, Unlinked
  <2>3. CASE DeleteFails BY <2>3 DEF DeleteFails
  <2>4. CASE PutBack BY <2>4 DEF PutBack, Linked
  <2>5. CASE PutBackTidy BY <2>5 DEF PutBackTidy, Unlinked
  <2>6. CASE PutBackRow BY <2>6 DEF PutBackRow
  <2>7. CASE WriteManifest BY <2>7 DEF WriteManifest
  <2>8. CASE SetAside BY <2>8 DEF SetAside, Renamed
  <2>9. CASE Detach BY <2>9 DEF Detach, RowDeleted
  <2>10. CASE Reidentify BY <2>10 DEF Reidentify
  <2>11. CASE DropManifest BY <2>11 DEF DropManifest
  <2> QED BY <1>4, <2>1, <2>2, <2>3, <2>4, <2>5, <2>6, <2>7, <2>8, <2>9,
             <2>10, <2>11
             DEF DeleteStep
<1>5. CASE RecoveryStep
  <2>1. CASE Restart BY <2>1 DEF Restart, NoRecovery
  <2>2. CASE NextGroup BY <2>2 DEF NextGroup
  <2>3. CASE EndPass BY <2>3 DEF EndPass, NoRecovery
  <2>4. CASE JudgeManifest BY <2>4 DEF JudgeManifest, Renamed, RowDeleted
  <2>5. CASE JudgeJournal BY <2>5 DEF JudgeJournal, Retained, Verdict,
           StagingIsDest, HasBytes
  <2>6. CASE CompleteRow BY <2>6 DEF CompleteRow, RowMoved
  <2>7. CASE CompleteRowFails BY <2>7 DEF CompleteRowFails
  <2>8. CASE DropStaging BY <2>8 DEF DropStaging, Unlinked
  <2>9. CASE RestoreSource BY <2>9 DEF RestoreSource, Linked
  <2>10. CASE EndJournal BY <2>10 DEF EndJournal
  <2>11. CASE JudgeOrphans BY <2>11 DEF JudgeOrphans, Renamed, RowDeleted
  <2>12. CASE StaleRow BY <2>12 DEF StaleRow, RowDeleted
  <2>13. CASE FinishDelete BY <2>13 DEF FinishDelete, Unlinked
  <2>14. CASE JudgeTaken BY <2>14 DEF JudgeTaken, Partners, Unlinked, Linked,
           Home
  <2>15. CASE Rebind BY <2>15 DEF Rebind, RowMoved, Home
  <2>16. CASE TakenRestored BY <2>16 DEF TakenRestored, Unlinked, Home
  <2> QED BY <1>5, <2>1, <2>2, <2>3, <2>4, <2>5, <2>6, <2>7, <2>8, <2>9,
             <2>10, <2>11, <2>12, <2>13, <2>14, <2>15, <2>16
             DEF RecoveryStep
<1>6. CASE Crash BY <1>6 DEF Crash, NoRecovery
<1>7. CASE Outside BY <1>7 DEF Outside, External
<1> QED BY <1>1, <1>2, <1>3, <1>4, <1>5, <1>6, <1>7 DEF Next, Server

(* The bookkeeping of a pass stays a record of its kind.                   *)
LEMMA PassKept ==
  ASSUME FilesInv, Next
  PROVE  PassTyped'
<1>0. /\ rec \in Passes
      /\ \A artifact \in Artifacts, action \in Actions :
           Note(artifact, action) => rec' \in Passes
  BY Reported DEF FilesInv, PassTyped
<1>1. /\ rec.via \in Artifacts /\ Home[rec.via] \in Artifacts /\ rec.to \in Artifacts
      /\ rec.todo \in SUBSET Public /\ rec.term \in SUBSET Artifacts
  BY <1>0 DEF Passes, Artifacts, Home, Public
<1>2. NoRecovery \in Passes /\ {"src", "dest"} \in SUBSET Public
  BY DEF NoRecovery, Passes, Public
<1>3. CASE UNCHANGED rec BY <1>0, <1>3 DEF PassTyped
<1>4. CASE Restart BY <1>2, <1>4 DEF Restart, PassTyped, Passes
<1>5. CASE NextGroup
  <2>1. PICK group \in rec.todo : rec' = [rec EXCEPT !.todo = @ \ {group}, !.via = "back"]
    BY <1>5 DEF NextGroup
  <2> QED BY <1>0, <1>1, <2>1 DEF PassTyped, Passes
<1>6. CASE EndPass
  <2> DEFINE term == IF rec.acted THEN {} ELSE rec.term
  <2>1. term \in SUBSET Artifacts
    BY <1>1
  <2>2. \/ rec' = NoRecovery
        \/ rec' = [rec EXCEPT !.todo = {"src", "dest"}, !.fresh = FALSE,
                              !.acted = FALSE, !.term = term]
    BY <1>6 DEF EndPass
  <2> HIDE DEF term
  <2> QED BY <1>0, <1>2, <2>1, <2>2 DEF PassTyped, Passes
<1>7. CASE JudgeOrphans BY <1>0, <1>7 DEF JudgeOrphans, PassTyped, Passes
<1>8. CASE JudgeTaken
  <2>1. \A p \in Partners : [rec EXCEPT !.to = p] \in Passes
    BY <1>0 DEF Passes, Partners
  <2> QED BY <1>0, <1>1, <1>8, <2>1 DEF JudgeTaken, Actions, PassTyped
<1>9. CASE \/ JudgeManifest \/ JudgeJournal \/ CompleteRowFails \/ RestoreSource
           \/ EndJournal \/ StaleRow \/ FinishDelete \/ Rebind \/ TakenRestored
  BY <1>0, <1>1, <1>9
     DEF JudgeManifest, JudgeJournal, CompleteRowFails, RestoreSource, EndJournal, StaleRow,
         FinishDelete, Rebind, TakenRestored, Artifacts, Actions, Final, PassTyped
<1>10. CASE Crash BY <1>2, <1>10 DEF Crash, PassTyped
<1>11. CASE RenameStep \/ DeleteStep \/ StartRename \/ StartDelete \/ Outside
  <2>1. UNCHANGED rec
    BY <1>11 DEF RenameStep, WriteJournal, SourceVanished, TakeAside, NothingToTake,
                 LinkTaken, LinkOccupied, RestoreTaken, RestoreOccupied, TidyTaken,
                 UnlinkTaken, MoveRow, MoveRowFails, ClearJournal, DropJournal, Unwind,
                 IdentifySource, FollowFile, DeleteStep, DeleteRow, DeleteFile,
                 DeleteFails, PutBack, PutBackTidy, PutBackRow, WriteManifest, SetAside,
                 Detach, Reidentify, DropManifest, StartRename, StartDelete, Outside,
                 External
  <2> QED BY <1>3, <2>1
<1>12. CASE CompleteRow \/ DropStaging
  BY <1>3, <1>12 DEF CompleteRow, DropStaging
<1> QED BY <1>4, <1>5, <1>6, <1>7, <1>8, <1>9, <1>10, <1>11, <1>12
        DEF Next, Server, RecoveryStep

(* Every file there is has been made, and numbers are given once.          *)
LEMMA BornKept ==
  ASSUME FilesInv, Next
  PROVE  FilesAreBorn'
<1> USE LifecycleAssumption
    DEF FilesInv, Rows, Place, Public, Hidden, Moves, Via, From, To, Home,
        TypeOK, Files, FilesAreBorn
<1>1. CASE StartRename BY <1>1 DEF StartRename
<1>2. CASE StartDelete BY <1>2 DEF StartDelete, Renamed
<1>3. CASE RenameStep
  <2>1. CASE WriteJournal BY <2>1 DEF WriteJournal
  <2>2. CASE SourceVanished BY <2>2 DEF SourceVanished
  <2>3. CASE TakeAside BY <2>3 DEF TakeAside, Renamed
  <2>4. CASE NothingToTake BY <2>4 DEF NothingToTake
  <2>5. CASE LinkTaken BY <2>5 DEF LinkTaken, Linked
  <2>6. CASE LinkOccupied BY <2>6 DEF LinkOccupied
  <2>7. CASE RestoreTaken BY <2>7 DEF RestoreTaken, Linked
  <2>8. CASE RestoreOccupied BY <2>8 DEF RestoreOccupied
  <2>9. CASE TidyTaken BY <2>9 DEF TidyTaken, Unlinked
  <2>10. CASE UnlinkTaken BY <2>10 DEF UnlinkTaken, Unlinked
  <2>11. CASE MoveRow BY <2>11 DEF MoveRow, RowMoved
  <2>12. CASE MoveRowFails BY <2>12 DEF MoveRowFails
  <2>13. CASE ClearJournal BY <2>13 DEF ClearJournal
  <2>14. CASE DropJournal BY <2>14 DEF DropJournal
  <2>15. CASE Unwind BY <2>15 DEF Unwind
  <2>16. CASE IdentifySource BY <2>16 DEF IdentifySource
  <2>17. CASE FollowFile BY <2>17 DEF FollowFile, RowMoved, RowDeleted
  <2> QED BY <1>3, <2>1, <2>2, <2>3, <2>4, <2>5, <2>6, <2>7, <2>8, <2>9,
             <2>10, <2>11, <2>12, <2>13, <2>14, <2>15, <2>16, <2>17
             DEF RenameStep
<1>4. CASE DeleteStep
  <2>1. CASE DeleteRow BY <2>1 DEF DeleteRow, RowDeleted
  <2>2. CASE DeleteFile BY <2>2 DEF DeleteFile, Unlinked
  <2>3. CASE DeleteFails BY <2>3 DEF DeleteFails
  <2>4. CASE PutBack BY <2>4 DEF PutBack, Linked
  <2>5. CASE PutBackTidy BY <2>5 DEF PutBackTidy, Unlinked
  <2>6. CASE PutBackRow BY <2>6 DEF PutBackRow
  <2>7. CASE WriteManifest BY <2>7 DEF WriteManifest
  <2>8. CASE SetAside BY <2>8 DEF SetAside, Renamed
  <2>9. CASE Detach BY <2>9 DEF Detach, RowDeleted
  <2>10. CASE Reidentify BY <2>10 DEF Reidentify
  <2>11. CASE DropManifest BY <2>11 DEF DropManifest
  <2> QED BY <1>4, <2>1, <2>2, <2>3, <2>4, <2>5, <2>6, <2>7, <2>8, <2>9,
             <2>10, <2>11
             DEF DeleteStep
<1>5. CASE RecoveryStep
  <2>1. CASE Restart BY <2>1 DEF Restart, NoRecovery
  <2>2. CASE NextGroup BY <2>2 DEF NextGroup
  <2>3. CASE EndPass BY <2>3 DEF EndPass, NoRecovery
  <2>4. CASE JudgeManifest BY <2>4 DEF JudgeManifest, Renamed, RowDeleted
  <2>5. CASE JudgeJournal BY <2>5 DEF JudgeJournal, Retained, Verdict,
           StagingIsDest, HasBytes
  <2>6. CASE CompleteRow BY <2>6 DEF CompleteRow, RowMoved
  <2>7. CASE CompleteRowFails BY <2>7 DEF CompleteRowFails
  <2>8. CASE DropStaging BY <2>8 DEF DropStaging, Unlinked
  <2>9. CASE RestoreSource BY <2>9 DEF RestoreSource, Linked
  <2>10. CASE EndJournal BY <2>10 DEF EndJournal
  <2>11. CASE JudgeOrphans BY <2>11 DEF JudgeOrphans, Renamed, RowDeleted
  <2>12. CASE StaleRow BY <2>12 DEF StaleRow, RowDeleted
  <2>13. CASE FinishDelete BY <2>13 DEF FinishDelete, Unlinked
  <2>14. CASE JudgeTaken BY <2>14 DEF JudgeTaken, Partners, Unlinked, Linked,
           Home, PassTyped, Passes
  <2>15. CASE Rebind BY <2>15 DEF Rebind, RowMoved, Home
  <2>16. CASE TakenRestored BY <2>16 DEF TakenRestored, Unlinked, Home
  <2> QED BY <1>5, <2>1, <2>2, <2>3, <2>4, <2>5, <2>6, <2>7, <2>8, <2>9,
             <2>10, <2>11, <2>12, <2>13, <2>14, <2>15, <2>16
             DEF RecoveryStep
<1>6. CASE Crash BY <1>6 DEF Crash, NoRecovery
<1>7. CASE Outside
  <2>1. PICK p \in Public, file \in Files \cup {None} :
          /\ External(p, file) /\ file \notin born
          /\ file # None => file.ino = Cardinality(born) + 1
    BY <1>7, OutsiderIsNew
  <2>2. Cardinality(born) \in Nat
    BY FS_CardinalityType
  <2>3. \A q \in Place : gen'[q] # None => gen'[q] \in born'
    BY <2>1 DEF External
  <2>4. CASE file = None
    <3>1. born' = born /\ ext' = ext + 1
      BY <2>1, <2>4 DEF External
    <3> QED BY <2>2, <2>3, <3>1
  <2>5. CASE file # None
    <3>1. born' = born \cup {file} /\ ext' = ext + 1
      BY <2>1, <2>5 DEF External
    <3>2. IsFiniteSet(born') /\ Cardinality(born') = Cardinality(born) + 1
      BY <2>1, <3>1, FS_AddElement
    <3>3. \A other \in born' : other.ino <= Cardinality(born')
      BY <2>1, <2>2, <2>5, <3>1, <3>2
    <3> QED BY <2>2, <2>3, <3>1, <3>2, <3>3
  <2> QED BY <2>4, <2>5
<1> QED BY <1>1, <1>2, <1>3, <1>4, <1>5, <1>6, <1>7 DEF Next, Server

(* No call puts a second file under a hidden name.                         *)
LEMMA OneHiddenKept ==
  ASSUME FilesInv, Next
  PROVE  OneHidden'
<1> USE LifecycleAssumption
    DEF FilesInv, Rows, Place, Public, Hidden, Moves, Via, From, To, Home,
        TypeOK, PcTyped, PassTyped, Passes, OneHidden, Prepared, HiddenAt,
        Retained, RenameCalls, DeleteCalls, RecoveryCalls
<1>1. CASE StartRename BY <1>1 DEF StartRename
<1>2. CASE StartDelete BY <1>2 DEF StartDelete, Renamed
<1>3. CASE RenameStep
  <2>1. CASE WriteJournal BY <2>1 DEF WriteJournal
  <2>2. CASE SourceVanished BY <2>2 DEF SourceVanished
  <2>3. CASE TakeAside BY <2>3 DEF TakeAside, Renamed
  <2>4. CASE NothingToTake BY <2>4 DEF NothingToTake
  <2>5. CASE LinkTaken BY <2>5 DEF LinkTaken, Linked
  <2>6. CASE LinkOccupied BY <2>6 DEF LinkOccupied
  <2>7. CASE RestoreTaken BY <2>7 DEF RestoreTaken, Linked
  <2>8. CASE RestoreOccupied BY <2>8 DEF RestoreOccupied
  <2>9. CASE TidyTaken BY <2>9 DEF TidyTaken, Unlinked
  <2>10. CASE UnlinkTaken BY <2>10 DEF UnlinkTaken, Unlinked
  <2>11. CASE MoveRow BY <2>11 DEF MoveRow, RowMoved
  <2>12. CASE MoveRowFails BY <2>12 DEF MoveRowFails
  <2>13. CASE ClearJournal BY <2>13 DEF ClearJournal
  <2>14. CASE DropJournal BY <2>14 DEF DropJournal
  <2>15. CASE Unwind BY <2>15 DEF Unwind
  <2>16. CASE IdentifySource BY <2>16 DEF IdentifySource
  <2>17. CASE FollowFile BY <2>17 DEF FollowFile, RowMoved, RowDeleted
  <2> QED BY <1>3, <2>1, <2>2, <2>3, <2>4, <2>5, <2>6, <2>7, <2>8, <2>9,
             <2>10, <2>11, <2>12, <2>13, <2>14, <2>15, <2>16, <2>17
             DEF RenameStep
<1>4. CASE DeleteStep
  <2>1. CASE DeleteRow BY <2>1 DEF DeleteRow, RowDeleted
  <2>2. CASE DeleteFile BY <2>2 DEF DeleteFile, Unlinked
  <2>3. CASE DeleteFails BY <2>3 DEF DeleteFails
  <2>4. CASE PutBack BY <2>4 DEF PutBack, Linked
  <2>5. CASE PutBackTidy BY <2>5 DEF PutBackTidy, Unlinked
  <2>6. CASE PutBackRow BY <2>6 DEF PutBackRow
  <2>7. CASE WriteManifest BY <2>7 DEF WriteManifest
  <2>8. CASE SetAside BY <2>8 DEF SetAside, Renamed
  <2>9. CASE Detach BY <2>9 DEF Detach, RowDeleted
  <2>10. CASE Reidentify BY <2>10 DEF Reidentify
  <2>11. CASE DropManifest BY <2>11 DEF DropManifest
  <2> QED BY <1>4, <2>1, <2>2, <2>3, <2>4, <2>5, <2>6, <2>7, <2>8, <2>9,
             <2>10, <2>11
             DEF DeleteStep
<1>5. CASE RecoveryStep
  <2>1. CASE Restart BY <2>1 DEF Restart, NoRecovery
  <2>2. CASE NextGroup BY <2>2 DEF NextGroup
  <2>3. CASE EndPass BY <2>3 DEF EndPass, NoRecovery
  <2>4. CASE JudgeManifest BY <2>4 DEF JudgeManifest, Renamed, RowDeleted
  <2>5. CASE JudgeJournal BY <2>5 DEF JudgeJournal, Retained, Verdict,
           StagingIsDest, HasBytes
  <2>6. CASE CompleteRow BY <2>6 DEF CompleteRow, RowMoved
  <2>7. CASE CompleteRowFails BY <2>7 DEF CompleteRowFails
  <2>8. CASE DropStaging BY <2>8 DEF DropStaging, Unlinked
  <2>9. CASE RestoreSource BY <2>9 DEF RestoreSource, Linked
  <2>10. CASE EndJournal BY <2>10 DEF EndJournal
  <2>11. CASE JudgeOrphans BY <2>11 DEF JudgeOrphans, Renamed, RowDeleted
  <2>12. CASE StaleRow BY <2>12 DEF StaleRow, RowDeleted
  <2>13. CASE FinishDelete BY <2>13 DEF FinishDelete, Unlinked
  <2>14. CASE JudgeTaken BY <2>14 DEF JudgeTaken, Partners, Unlinked, Linked,
           Home
  <2>15. CASE Rebind BY <2>15 DEF Rebind, RowMoved, Home
  <2>16. CASE TakenRestored BY <2>16 DEF TakenRestored, Unlinked, Home
  <2> QED BY <1>5, <2>1, <2>2, <2>3, <2>4, <2>5, <2>6, <2>7, <2>8, <2>9,
             <2>10, <2>11, <2>12, <2>13, <2>14, <2>15, <2>16
             DEF RecoveryStep
<1>6. CASE Crash BY <1>6 DEF Crash, NoRecovery
<1>7. CASE Outside BY <1>7 DEF Outside, External
<1> QED BY <1>1, <1>2, <1>3, <1>4, <1>5, <1>6, <1>7 DEF Next, Server

(* No call takes the last name of a file, or the place of another file.    *)
LEMMA NothingLostKept ==
  ASSUME FilesInv, Next
  PROVE  NothingLost'
<1> USE LifecycleAssumption
    DEF FilesInv, Rows, Place, Public, Hidden, Moves, Via, From, To, Home,
        TypeOK, Files, PassTyped, Passes, OneHidden, HiddenAt, Prepared,
        FilesAreBorn, UnlinksAreSafe, Dispensable, NothingLost,
        RenameCalls, DeleteCalls, RecoveryCalls
<1>1. CASE StartRename BY <1>1 DEF StartRename
<1>2. CASE StartDelete BY <1>2 DEF StartDelete, Renamed
<1>3. CASE RenameStep
  <2>1. CASE WriteJournal BY <2>1 DEF WriteJournal
  <2>2. CASE SourceVanished BY <2>2 DEF SourceVanished
  <2>3. CASE TakeAside BY <2>3 DEF TakeAside, Renamed
  <2>4. CASE NothingToTake BY <2>4 DEF NothingToTake
  <2>5. CASE LinkTaken BY <2>5 DEF LinkTaken, Linked
  <2>6. CASE LinkOccupied BY <2>6 DEF LinkOccupied
  <2>7. CASE RestoreTaken BY <2>7 DEF RestoreTaken, Linked
  <2>8. CASE RestoreOccupied BY <2>8 DEF RestoreOccupied
  <2>9. CASE TidyTaken BY <2>9 DEF TidyTaken, Unlinked
  <2>10. CASE UnlinkTaken BY <2>10 DEF UnlinkTaken, Unlinked
  <2>11. CASE MoveRow BY <2>11 DEF MoveRow, RowMoved
  <2>12. CASE MoveRowFails BY <2>12 DEF MoveRowFails
  <2>13. CASE ClearJournal BY <2>13 DEF ClearJournal
  <2>14. CASE DropJournal BY <2>14 DEF DropJournal
  <2>15. CASE Unwind BY <2>15 DEF Unwind
  <2>16. CASE IdentifySource BY <2>16 DEF IdentifySource
  <2>17. CASE FollowFile BY <2>17 DEF FollowFile, RowMoved, RowDeleted
  <2> QED BY <1>3, <2>1, <2>2, <2>3, <2>4, <2>5, <2>6, <2>7, <2>8, <2>9,
             <2>10, <2>11, <2>12, <2>13, <2>14, <2>15, <2>16, <2>17
             DEF RenameStep
<1>4. CASE DeleteStep
  <2>1. CASE DeleteRow BY <2>1 DEF DeleteRow, RowDeleted
  <2>2. CASE DeleteFile BY <2>2 DEF DeleteFile, Unlinked
  <2>3. CASE DeleteFails BY <2>3 DEF DeleteFails
  <2>4. CASE PutBack BY <2>4 DEF PutBack, Linked
  <2>5. CASE PutBackTidy BY <2>5 DEF PutBackTidy, Unlinked
  <2>6. CASE PutBackRow BY <2>6 DEF PutBackRow
  <2>7. CASE WriteManifest BY <2>7 DEF WriteManifest
  <2>8. CASE SetAside BY <2>8 DEF SetAside, Renamed
  <2>9. CASE Detach BY <2>9 DEF Detach, RowDeleted
  <2>10. CASE Reidentify BY <2>10 DEF Reidentify
  <2>11. CASE DropManifest BY <2>11 DEF DropManifest
  <2> QED BY <1>4, <2>1, <2>2, <2>3, <2>4, <2>5, <2>6, <2>7, <2>8, <2>9,
             <2>10, <2>11
             DEF DeleteStep
<1>5. CASE RecoveryStep
  <2>1. CASE Restart BY <2>1 DEF Restart, NoRecovery
  <2>2. CASE NextGroup BY <2>2 DEF NextGroup
  <2>3. CASE EndPass BY <2>3 DEF EndPass, NoRecovery
  <2>4. CASE JudgeManifest BY <2>4 DEF JudgeManifest, Renamed, RowDeleted
  <2>5. CASE JudgeJournal BY <2>5 DEF JudgeJournal, Retained, Verdict,
           StagingIsDest, HasBytes
  <2>6. CASE CompleteRow BY <2>6 DEF CompleteRow, RowMoved
  <2>7. CASE CompleteRowFails BY <2>7 DEF CompleteRowFails
  <2>8. CASE DropStaging BY <2>8 DEF DropStaging, Unlinked
  <2>9. CASE RestoreSource BY <2>9 DEF RestoreSource, Linked
  <2>10. CASE EndJournal BY <2>10 DEF EndJournal
  <2>11. CASE JudgeOrphans BY <2>11 DEF JudgeOrphans, Renamed, RowDeleted
  <2>12. CASE StaleRow BY <2>12 DEF StaleRow, RowDeleted
  <2>13. CASE FinishDelete BY <2>13 DEF FinishDelete, Unlinked
  <2>14. CASE JudgeTaken BY <2>14 DEF JudgeTaken, Partners, Unlinked, Linked,
           Home
  <2>15. CASE Rebind BY <2>15 DEF Rebind, RowMoved, Home
  <2>16. CASE TakenRestored BY <2>16 DEF TakenRestored, Unlinked, Home
  <2> QED BY <1>5, <2>1, <2>2, <2>3, <2>4, <2>5, <2>6, <2>7, <2>8, <2>9,
             <2>10, <2>11, <2>12, <2>13, <2>14, <2>15, <2>16
             DEF RecoveryStep
<1>6. CASE Crash BY <1>6 DEF Crash, NoRecovery
<1>7. CASE Outside
  <2>1. PICK p \in Public, file \in Files \cup {None} :
          /\ External(p, file) /\ file \notin born
          /\ file # None => file.ino = Cardinality(born) + 1
    BY <1>7, OutsiderIsNew
  <2> QED BY <2>1 DEF External
<1> QED BY <1>1, <1>2, <1>3, <1>4, <1>5, <1>6, <1>7 DEF Next, Server

(* Before an unlink the file has its other name, or lost it to somebody    *)
(* else.                                                                   *)
LEMMA UnlinksAreSafeKept ==
  ASSUME FilesInv, Next
  PROVE  UnlinksAreSafe'
<1> USE LifecycleAssumption
    DEF FilesInv, Rows, Place, Public, Hidden, Moves, Via, From, To, Home,
        TypeOK, Files, PassTyped, Passes, OneHidden, HiddenAt, Prepared,
        FilesAreBorn, UnlinksAreSafe, Dispensable, Retained, RenameCalls,
        DeleteCalls, RecoveryCalls
<1>1. CASE StartRename BY <1>1 DEF StartRename
<1>2. CASE StartDelete BY <1>2 DEF StartDelete, Renamed
<1>3. CASE RenameStep
  <2>1. CASE WriteJournal BY <2>1 DEF WriteJournal
  <2>2. CASE SourceVanished BY <2>2 DEF SourceVanished
  <2>3. CASE TakeAside BY <2>3 DEF TakeAside, Renamed
  <2>4. CASE NothingToTake BY <2>4 DEF NothingToTake
  <2>5. CASE LinkTaken BY <2>5 DEF LinkTaken, Linked
  <2>6. CASE LinkOccupied BY <2>6 DEF LinkOccupied
  <2>7. CASE RestoreTaken BY <2>7 DEF RestoreTaken, Linked
  <2>8. CASE RestoreOccupied BY <2>8 DEF RestoreOccupied
  <2>9. CASE TidyTaken BY <2>9 DEF TidyTaken, Unlinked
  <2>10. CASE UnlinkTaken BY <2>10 DEF UnlinkTaken, Unlinked
  <2>11. CASE MoveRow BY <2>11 DEF MoveRow, RowMoved
  <2>12. CASE MoveRowFails BY <2>12 DEF MoveRowFails
  <2>13. CASE ClearJournal BY <2>13 DEF ClearJournal
  <2>14. CASE DropJournal BY <2>14 DEF DropJournal
  <2>15. CASE Unwind BY <2>15 DEF Unwind
  <2>16. CASE IdentifySource BY <2>16 DEF IdentifySource
  <2>17. CASE FollowFile BY <2>17 DEF FollowFile, RowMoved, RowDeleted
  <2> QED BY <1>3, <2>1, <2>2, <2>3, <2>4, <2>5, <2>6, <2>7, <2>8, <2>9,
             <2>10, <2>11, <2>12, <2>13, <2>14, <2>15, <2>16, <2>17
             DEF RenameStep
<1>4. CASE DeleteStep
  <2>1. CASE DeleteRow BY <2>1 DEF DeleteRow, RowDeleted
  <2>2. CASE DeleteFile BY <2>2 DEF DeleteFile, Unlinked
  <2>3. CASE DeleteFails BY <2>3 DEF DeleteFails
  <2>4. CASE PutBack BY <2>4 DEF PutBack, Linked
  <2>5. CASE PutBackTidy BY <2>5 DEF PutBackTidy, Unlinked
  <2>6. CASE PutBackRow BY <2>6 DEF PutBackRow
  <2>7. CASE WriteManifest BY <2>7 DEF WriteManifest
  <2>8. CASE SetAside BY <2>8 DEF SetAside, Renamed
  <2>9. CASE Detach BY <2>9 DEF Detach, RowDeleted
  <2>10. CASE Reidentify BY <2>10 DEF Reidentify
  <2>11. CASE DropManifest BY <2>11 DEF DropManifest
  <2> QED BY <1>4, <2>1, <2>2, <2>3, <2>4, <2>5, <2>6, <2>7, <2>8, <2>9,
             <2>10, <2>11
             DEF DeleteStep
<1>5. CASE RecoveryStep
  <2>1. CASE Restart BY <2>1 DEF Restart, NoRecovery
  <2>2. CASE NextGroup BY <2>2 DEF NextGroup
  <2>3. CASE EndPass BY <2>3 DEF EndPass, NoRecovery
  <2>4. CASE JudgeManifest BY <2>4 DEF JudgeManifest, Renamed, RowDeleted
  <2>5. CASE JudgeJournal BY <2>5 DEF JudgeJournal, Retained, Verdict,
           StagingIsDest, HasBytes
  <2>6. CASE CompleteRow BY <2>6 DEF CompleteRow, RowMoved
  <2>7. CASE CompleteRowFails BY <2>7 DEF CompleteRowFails
  <2>8. CASE DropStaging BY <2>8 DEF DropStaging, Unlinked
  <2>9. CASE RestoreSource BY <2>9 DEF RestoreSource, Linked
  <2>10. CASE EndJournal BY <2>10 DEF EndJournal
  <2>11. CASE JudgeOrphans BY <2>11 DEF JudgeOrphans, Renamed, RowDeleted
  <2>12. CASE StaleRow BY <2>12 DEF StaleRow, RowDeleted
  <2>13. CASE FinishDelete BY <2>13 DEF FinishDelete, Unlinked
  <2>14. CASE JudgeTaken BY <2>14 DEF JudgeTaken, Partners, Unlinked, Linked,
           Home
  <2>15. CASE Rebind BY <2>15 DEF Rebind, RowMoved, Home
  <2>16. CASE TakenRestored BY <2>16 DEF TakenRestored, Unlinked, Home
  <2> QED BY <1>5, <2>1, <2>2, <2>3, <2>4, <2>5, <2>6, <2>7, <2>8, <2>9,
             <2>10, <2>11, <2>12, <2>13, <2>14, <2>15, <2>16
             DEF RecoveryStep
<1>6. CASE Crash BY <1>6 DEF Crash, NoRecovery
<1>7. CASE Outside
  <2>1. PICK p \in Public, file \in Files \cup {None} :
          /\ External(p, file) /\ file \notin born
          /\ file # None => file.ino = Cardinality(born) + 1
    BY <1>7, OutsiderIsNew
  <2> QED BY <2>1 DEF External
<1> QED BY <1>1, <1>2, <1>3, <1>4, <1>5, <1>6, <1>7 DEF Next, Server

(* What a call relies on was made sure by the calls before it.             *)
LEMMA PreparedKept ==
  ASSUME FilesInv, Next
  PROVE  Prepared'
<1> USE LifecycleAssumption
    DEF FilesInv, Rows, Place, Public, Hidden, Moves, Via, From, To, Home,
        TypeOK, Prepared, Files
<1>1. CASE StartRename BY <1>1 DEF StartRename
<1>2. CASE StartDelete BY <1>2 DEF StartDelete, Renamed
<1>3. CASE RenameStep
  <2>1. CASE WriteJournal BY <2>1 DEF WriteJournal
  <2>2. CASE SourceVanished BY <2>2 DEF SourceVanished
  <2>3. CASE TakeAside BY <2>3 DEF TakeAside, Renamed
  <2>4. CASE NothingToTake BY <2>4 DEF NothingToTake
  <2>5. CASE LinkTaken BY <2>5 DEF LinkTaken, Linked
  <2>6. CASE LinkOccupied BY <2>6 DEF LinkOccupied
  <2>7. CASE RestoreTaken BY <2>7 DEF RestoreTaken, Linked
  <2>8. CASE RestoreOccupied BY <2>8 DEF RestoreOccupied
  <2>9. CASE TidyTaken BY <2>9 DEF TidyTaken, Unlinked
  <2>10. CASE UnlinkTaken BY <2>10 DEF UnlinkTaken, Unlinked
  <2>11. CASE MoveRow BY <2>11 DEF MoveRow, RowMoved
  <2>12. CASE MoveRowFails BY <2>12 DEF MoveRowFails
  <2>13. CASE ClearJournal BY <2>13 DEF ClearJournal
  <2>14. CASE DropJournal BY <2>14 DEF DropJournal
  <2>15. CASE Unwind BY <2>15 DEF Unwind
  <2>16. CASE IdentifySource BY <2>16 DEF IdentifySource
  <2>17. CASE FollowFile BY <2>17 DEF FollowFile, RowMoved, RowDeleted
  <2> QED BY <1>3, <2>1, <2>2, <2>3, <2>4, <2>5, <2>6, <2>7, <2>8, <2>9,
             <2>10, <2>11, <2>12, <2>13, <2>14, <2>15, <2>16, <2>17
             DEF RenameStep
<1>4. CASE DeleteStep
  <2>1. CASE DeleteRow BY <2>1 DEF DeleteRow, RowDeleted
  <2>2. CASE DeleteFile BY <2>2 DEF DeleteFile, Unlinked
  <2>3. CASE DeleteFails BY <2>3 DEF DeleteFails
  <2>4. CASE PutBack BY <2>4 DEF PutBack, Linked
  <2>5. CASE PutBackTidy BY <2>5 DEF PutBackTidy, Unlinked
  <2>6. CASE PutBackRow BY <2>6 DEF PutBackRow
  <2>7. CASE WriteManifest BY <2>7 DEF WriteManifest
  <2>8. CASE SetAside BY <2>8 DEF SetAside, Renamed
  <2>9. CASE Detach BY <2>9 DEF Detach, RowDeleted
  <2>10. CASE Reidentify BY <2>10 DEF Reidentify
  <2>11. CASE DropManifest BY <2>11 DEF DropManifest
  <2> QED BY <1>4, <2>1, <2>2, <2>3, <2>4, <2>5, <2>6, <2>7, <2>8, <2>9,
             <2>10, <2>11
             DEF DeleteStep
<1>5. CASE RecoveryStep
  <2>1. CASE Restart BY <2>1 DEF Restart, NoRecovery
  <2>2. CASE NextGroup BY <2>2 DEF NextGroup
  <2>3. CASE EndPass BY <2>3 DEF EndPass, NoRecovery
  <2>4. CASE JudgeManifest BY <2>4 DEF JudgeManifest, Renamed, RowDeleted
  <2>5. CASE JudgeJournal BY <2>5 DEF JudgeJournal, Retained, Verdict,
           StagingIsDest, HasBytes
  <2>6. CASE CompleteRow BY <2>6 DEF CompleteRow, RowMoved
  <2>7. CASE CompleteRowFails BY <2>7 DEF CompleteRowFails
  <2>8. CASE DropStaging BY <2>8 DEF DropStaging, Unlinked
  <2>9. CASE RestoreSource BY <2>9 DEF RestoreSource, Linked
  <2>10. CASE EndJournal BY <2>10 DEF EndJournal
  <2>11. CASE JudgeOrphans BY <2>11 DEF JudgeOrphans, Renamed, RowDeleted
  <2>12. CASE StaleRow BY <2>12 DEF StaleRow, RowDeleted
  <2>13. CASE FinishDelete BY <2>13 DEF FinishDelete, Unlinked
  <2>14. CASE JudgeTaken BY <2>14 DEF JudgeTaken, Partners, Unlinked, Linked,
           Home
  <2>15. CASE Rebind BY <2>15 DEF Rebind, RowMoved, Home
  <2>16. CASE TakenRestored BY <2>16 DEF TakenRestored, Unlinked, Home
  <2> QED BY <1>5, <2>1, <2>2, <2>3, <2>4, <2>5, <2>6, <2>7, <2>8, <2>9,
             <2>10, <2>11, <2>12, <2>13, <2>14, <2>15, <2>16
             DEF RecoveryStep
<1>6. CASE Crash BY <1>6 DEF Crash, NoRecovery
<1>7. CASE Outside BY <1>7 DEF Outside, External
<1> QED BY <1>1, <1>2, <1>3, <1>4, <1>5, <1>6, <1>7 DEF Next, Server

(* What the turn of a group leaves holds through the turn of the other     *)
(* group.                                                                  *)
LEMMA PassSoFarKept ==
  ASSUME FilesInv, Next
  PROVE  PassSoFar'
<1> USE LifecycleAssumption
    DEF FilesInv, Rows, Place, Public, Hidden, Moves, Via, From, To, Home,
        TypeOK, Files, OneHidden, HiddenAt, Prepared, FilesAreBorn,
        PassSoFar, SingleName, RenameCalls, DeleteCalls, RecoveryCalls
<1>0. \A artifact \in Artifacts, action \in Actions :
        Note(artifact, action) =>
          rec' \in Passes /\ rec'.todo = rec.todo /\ rec'.via = rec.via /\ rec'.to = rec.to
  BY Reported DEF FilesInv
<1>1. CASE StartRename BY <1>1 DEF StartRename
<1>2. CASE StartDelete BY <1>2 DEF StartDelete, Renamed
<1>3. CASE RenameStep
  <2>1. CASE WriteJournal BY <2>1 DEF WriteJournal
  <2>2. CASE SourceVanished BY <2>2 DEF SourceVanished
  <2>3. CASE TakeAside BY <2>3 DEF TakeAside, Renamed
  <2>4. CASE NothingToTake BY <2>4 DEF NothingToTake
  <2>5. CASE LinkTaken BY <2>5 DEF LinkTaken, Linked
  <2>6. CASE LinkOccupied BY <2>6 DEF LinkOccupied
  <2>7. CASE RestoreTaken BY <2>7 DEF RestoreTaken, Linked
  <2>8. CASE RestoreOccupied BY <2>8 DEF RestoreOccupied
  <2>9. CASE TidyTaken BY <2>9 DEF TidyTaken, Unlinked
  <2>10. CASE UnlinkTaken BY <2>10 DEF UnlinkTaken, Unlinked
  <2>11. CASE MoveRow BY <2>11 DEF MoveRow, RowMoved
  <2>12. CASE MoveRowFails BY <2>12 DEF MoveRowFails
  <2>13. CASE ClearJournal BY <2>13 DEF ClearJournal
  <2>14. CASE DropJournal BY <2>14 DEF DropJournal
  <2>15. CASE Unwind BY <2>15 DEF Unwind
  <2>16. CASE IdentifySource BY <2>16 DEF IdentifySource
  <2>17. CASE FollowFile BY <2>17 DEF FollowFile, RowMoved, RowDeleted
  <2> QED BY <1>3, <2>1, <2>2, <2>3, <2>4, <2>5, <2>6, <2>7, <2>8, <2>9,
             <2>10, <2>11, <2>12, <2>13, <2>14, <2>15, <2>16, <2>17
             DEF RenameStep
<1>4. CASE DeleteStep
  <2>1. CASE DeleteRow BY <2>1 DEF DeleteRow, RowDeleted
  <2>2. CASE DeleteFile BY <2>2 DEF DeleteFile, Unlinked
  <2>3. CASE DeleteFails BY <2>3 DEF DeleteFails
  <2>4. CASE PutBack BY <2>4 DEF PutBack, Linked
  <2>5. CASE PutBackTidy BY <2>5 DEF PutBackTidy, Unlinked
  <2>6. CASE PutBackRow BY <2>6 DEF PutBackRow
  <2>7. CASE WriteManifest BY <2>7 DEF WriteManifest
  <2>8. CASE SetAside BY <2>8 DEF SetAside, Renamed
  <2>9. CASE Detach BY <2>9 DEF Detach, RowDeleted
  <2>10. CASE Reidentify BY <2>10 DEF Reidentify
  <2>11. CASE DropManifest BY <2>11 DEF DropManifest
  <2> QED BY <1>4, <2>1, <2>2, <2>3, <2>4, <2>5, <2>6, <2>7, <2>8, <2>9,
             <2>10, <2>11
             DEF DeleteStep
<1>5. CASE RecoveryStep
  <2>1. CASE Restart BY <2>1 DEF Restart, NoRecovery, PassTyped, Passes
  <2>2. CASE NextGroup BY <2>2 DEF NextGroup, PassTyped, Passes
  <2>3. CASE EndPass BY <2>3 DEF EndPass, NoRecovery, PassTyped, Passes
  <2>4. CASE JudgeManifest
    <3>1. rec'.todo = rec.todo /\ rec'.via = rec.via
      BY <1>0, <2>4 DEF JudgeManifest, Renamed, RowDeleted, Artifacts, Actions,
            Final
    <3> QED BY <2>4, <3>1 DEF JudgeManifest, Renamed, RowDeleted
  <2>5. CASE JudgeJournal
    <3>1. rec'.todo = rec.todo /\ rec'.via = rec.via
      BY <1>0, <2>5 DEF JudgeJournal, Retained, Verdict, StagingIsDest,
            HasBytes, Artifacts, Actions, Final
    <3> QED BY <2>5, <3>1 DEF JudgeJournal, Retained, Verdict, StagingIsDest,
            HasBytes
  <2>6. CASE CompleteRow BY <2>6 DEF CompleteRow, RowMoved
  <2>7. CASE CompleteRowFails
    <3>1. rec'.todo = rec.todo /\ rec'.via = rec.via
      BY <1>0, <2>7 DEF CompleteRowFails, Artifacts, Actions, Final
    <3> QED BY <2>7, <3>1 DEF CompleteRowFails
  <2>8. CASE DropStaging BY <2>8 DEF DropStaging, Unlinked
  <2>9. CASE RestoreSource
    <3>1. rec'.todo = rec.todo /\ rec'.via = rec.via
      BY <1>0, <2>9 DEF RestoreSource, Linked, Artifacts, Actions, Final
    <3> QED BY <2>9, <3>1 DEF RestoreSource, Linked
  <2>10. CASE EndJournal
    <3>1. rec'.todo = rec.todo /\ rec'.via = rec.via
      BY <1>0, <2>10 DEF EndJournal, Artifacts, Actions, Final
    <3> QED BY <2>10, <3>1 DEF EndJournal
  <2>11. CASE JudgeOrphans BY <2>11 DEF JudgeOrphans, Renamed, RowDeleted,
           PassTyped, Passes
  <2>12. CASE StaleRow
    <3>1. rec'.todo = rec.todo /\ rec'.via = rec.via
      BY <1>0, <2>12 DEF StaleRow, RowDeleted, Artifacts, Actions, Final
    <3> QED BY <2>12, <3>1 DEF StaleRow, RowDeleted
  <2>13. CASE FinishDelete
    <3>1. rec'.todo = rec.todo /\ rec'.via = rec.via
      BY <1>0, <2>13 DEF FinishDelete, Unlinked, Artifacts, Actions, Final
    <3> QED BY <2>13, <3>1 DEF FinishDelete, Unlinked
  <2>14. CASE JudgeTaken
    <3>1. rec.via \in {"staging", "back"}
      BY DEF PassTyped, Passes
    <3>2. rec'.todo = rec.todo /\ rec'.via = rec.via
      <4>1. \A p \in Public : LET r == [rec EXCEPT !.to = p] IN r.todo = rec.todo /\ r.via = rec.via
        BY DEF PassTyped, Passes
      <4>2. Note(rec.via, "reused") => rec'.todo = rec.todo /\ rec'.via = rec.via
        BY <1>0, <3>1 DEF Artifacts, Actions
      <4> QED BY <2>14, <4>1, <4>2 DEF JudgeTaken, Partners
    <3> QED BY <2>14, <3>1, <3>2 DEF JudgeTaken, Partners, Unlinked, Linked
  <2>15. CASE Rebind
    <3>1. rec'.todo = rec.todo /\ rec'.via = rec.via
      BY <1>0, <2>15 DEF Rebind, RowMoved, Home, Artifacts, Actions, Final,
            PassTyped, Passes
    <3> QED BY <2>15, <3>1 DEF Rebind, RowMoved, Home
  <2>16. CASE TakenRestored
    <3>1. rec'.todo = rec.todo /\ rec'.via = rec.via
      BY <1>0, <2>16 DEF TakenRestored, Unlinked, Home, Artifacts, Actions,
            Final, PassTyped, Passes
    <3> QED BY <2>16, <3>1 DEF TakenRestored, Unlinked, Home
  <2> QED BY <1>5, <2>1, <2>2, <2>3, <2>4, <2>5, <2>6, <2>7, <2>8, <2>9,
             <2>10, <2>11, <2>12, <2>13, <2>14, <2>15, <2>16
             DEF RecoveryStep
<1>6. CASE Crash BY <1>6 DEF Crash, NoRecovery, PassTyped, Passes
<1>7. CASE Outside
  <2>1. PICK p \in Public, file \in Files \cup {None} :
          /\ External(p, file) /\ file \notin born
          /\ file # None => file.ino = Cardinality(born) + 1
    BY <1>7, OutsiderIsNew
  <2> QED BY <2>1 DEF External
<1> QED BY <1>1, <1>2, <1>3, <1>4, <1>5, <1>6, <1>7 DEF Next, Server

(* Nothing is left with two names where nothing is left to recover.        *)
LEMMA OneNameKept ==
  ASSUME FilesInv, Next
  PROVE  OneName'
<1> USE LifecycleAssumption
    DEF FilesInv, Rows, Place, Public, Hidden, Moves, Via, From, To, Home,
        TypeOK, Files, PassTyped, Passes, OneHidden, HiddenAt, Prepared,
        FilesAreBorn, UnlinksAreSafe, Dispensable, OneName, PassSoFar,
        SingleName, RenameCalls, DeleteCalls, RecoveryCalls
<1>1. CASE StartRename BY <1>1 DEF StartRename
<1>2. CASE StartDelete BY <1>2 DEF StartDelete, Renamed
<1>3. CASE RenameStep
  <2>1. CASE WriteJournal BY <2>1 DEF WriteJournal
  <2>2. CASE SourceVanished BY <2>2 DEF SourceVanished
  <2>3. CASE TakeAside BY <2>3 DEF TakeAside, Renamed
  <2>4. CASE NothingToTake BY <2>4 DEF NothingToTake
  <2>5. CASE LinkTaken BY <2>5 DEF LinkTaken, Linked
  <2>6. CASE LinkOccupied BY <2>6 DEF LinkOccupied
  <2>7. CASE RestoreTaken BY <2>7 DEF RestoreTaken, Linked
  <2>8. CASE RestoreOccupied BY <2>8 DEF RestoreOccupied
  <2>9. CASE TidyTaken BY <2>9 DEF TidyTaken, Unlinked
  <2>10. CASE UnlinkTaken BY <2>10 DEF UnlinkTaken, Unlinked
  <2>11. CASE MoveRow BY <2>11 DEF MoveRow, RowMoved
  <2>12. CASE MoveRowFails BY <2>12 DEF MoveRowFails
  <2>13. CASE ClearJournal BY <2>13 DEF ClearJournal
  <2>14. CASE DropJournal BY <2>14 DEF DropJournal
  <2>15. CASE Unwind BY <2>15 DEF Unwind
  <2>16. CASE IdentifySource BY <2>16 DEF IdentifySource
  <2>17. CASE FollowFile BY <2>17 DEF FollowFile, RowMoved, RowDeleted
  <2> QED BY <1>3, <2>1, <2>2, <2>3, <2>4, <2>5, <2>6, <2>7, <2>8, <2>9,
             <2>10, <2>11, <2>12, <2>13, <2>14, <2>15, <2>16, <2>17
             DEF RenameStep
<1>4. CASE DeleteStep
  <2>1. CASE DeleteRow BY <2>1 DEF DeleteRow, RowDeleted
  <2>2. CASE DeleteFile BY <2>2 DEF DeleteFile, Unlinked
  <2>3. CASE DeleteFails BY <2>3 DEF DeleteFails
  <2>4. CASE PutBack BY <2>4 DEF PutBack, Linked
  <2>5. CASE PutBackTidy BY <2>5 DEF PutBackTidy, Unlinked
  <2>6. CASE PutBackRow BY <2>6 DEF PutBackRow
  <2>7. CASE WriteManifest BY <2>7 DEF WriteManifest
  <2>8. CASE SetAside BY <2>8 DEF SetAside, Renamed
  <2>9. CASE Detach BY <2>9 DEF Detach, RowDeleted
  <2>10. CASE Reidentify BY <2>10 DEF Reidentify
  <2>11. CASE DropManifest BY <2>11 DEF DropManifest
  <2> QED BY <1>4, <2>1, <2>2, <2>3, <2>4, <2>5, <2>6, <2>7, <2>8, <2>9,
             <2>10, <2>11
             DEF DeleteStep
<1>5. CASE RecoveryStep
  <2>1. CASE Restart BY <2>1 DEF Restart, NoRecovery
  <2>2. CASE NextGroup BY <2>2 DEF NextGroup
  <2>3. CASE EndPass BY <2>3 DEF EndPass, NoRecovery
  <2>4. CASE JudgeManifest BY <2>4 DEF JudgeManifest, Renamed, RowDeleted
  <2>5. CASE JudgeJournal BY <2>5 DEF JudgeJournal, Retained, Verdict,
           StagingIsDest, HasBytes
  <2>6. CASE CompleteRow BY <2>6 DEF CompleteRow, RowMoved
  <2>7. CASE CompleteRowFails BY <2>7 DEF CompleteRowFails
  <2>8. CASE DropStaging BY <2>8 DEF DropStaging, Unlinked
  <2>9. CASE RestoreSource BY <2>9 DEF RestoreSource, Linked
  <2>10. CASE EndJournal BY <2>10 DEF EndJournal
  <2>11. CASE JudgeOrphans BY <2>11 DEF JudgeOrphans, Renamed, RowDeleted
  <2>12. CASE StaleRow BY <2>12 DEF StaleRow, RowDeleted
  <2>13. CASE FinishDelete BY <2>13 DEF FinishDelete, Unlinked
  <2>14. CASE JudgeTaken BY <2>14 DEF JudgeTaken, Partners, Unlinked, Linked,
           Home
  <2>15. CASE Rebind BY <2>15 DEF Rebind, RowMoved, Home
  <2>16. CASE TakenRestored BY <2>16 DEF TakenRestored, Unlinked, Home
  <2> QED BY <1>5, <2>1, <2>2, <2>3, <2>4, <2>5, <2>6, <2>7, <2>8, <2>9,
             <2>10, <2>11, <2>12, <2>13, <2>14, <2>15, <2>16
             DEF RecoveryStep
<1>6. CASE Crash BY <1>6 DEF Crash, NoRecovery
<1>7. CASE Outside
  <2>1. PICK p \in Public, file \in Files \cup {None} :
          /\ External(p, file) /\ file \notin born
          /\ file # None => file.ino = Cardinality(born) + 1
    BY <1>7, OutsiderIsNew
  <2> QED BY <2>1 DEF External
<1> QED BY <1>1, <1>2, <1>3, <1>4, <1>5, <1>6, <1>7 DEF Next, Server

(* At the start there is the document, under one name.                    *)
LEMMA FilesInitially ==
  ASSUME Init
  PROVE  FilesInv
<1> USE LifecycleAssumption DEF Init, Public, Place, Moves
<1>1. Document \in Files /\ Document # None
  BY DEF Document, Files
<1>2. TypeOK
  <2>1. gen \in [Place -> Files \cup {None}]
    BY <1>1
  <2>2. row \in Rows /\ snap \in Rows
    BY DEF Rows
  <2>3. born \subseteq Files /\ gone \subseteq born
    BY <1>1
  <2>4. /\ journal \in Bytes \cup {None} /\ manifest \in BOOLEAN /\ move \in Moves
        /\ error \in {"none", "plain", "staging", "destination"}
    OBVIOUS
  <2>5. ext \in 0 .. MaxExternal /\ crashes \in 0 .. MaxCrashes
    OBVIOUS
  <2> HIDE DEF Init
  <2> QED BY <2>1, <2>2, <2>3, <2>4, <2>5 DEF TypeOK
<1>3. PcTyped
  BY DEF PcTyped
<1>4. PassTyped
  BY DEF PassTyped, Passes, NoRecovery
<1>5. FilesAreBorn
  <2>1. IsFiniteSet(born) /\ Cardinality(born) = 1
    BY FS_Singleton
  <2>2. Document.ino = 1
    BY DEF Document
  <2>3. \A p \in Place : gen[p] # None => gen[p] \in born
    OBVIOUS
  <2> QED BY <2>1, <2>2, <2>3 DEF FilesAreBorn
<1>6. NothingLost
  BY DEF NothingLost
<1>7. OneHidden
  BY DEF OneHidden, Hidden
<1>8. UnlinksAreSafe /\ Prepared /\ PassSoFar /\ OneName
  BY DEF UnlinksAreSafe, Prepared, PassSoFar, OneName, RecoveryCalls
<1> QED BY <1>2, <1>3, <1>4, <1>5, <1>6, <1>7, <1>8 DEF FilesInv

(* No step of the server or of anybody else breaks the invariant.          *)
LEMMA FilesStep ==
  ASSUME FilesInv, [Next]_vars
  PROVE  FilesInv'
<1>1. CASE Next
  <2> USE <1>1
  <2>1. TypeOK' /\ PcTyped' /\ PassTyped' /\ FilesAreBorn'
    BY TypesKept, CallsKept, PassKept, BornKept
  <2>2. NothingLost' /\ OneHidden' /\ UnlinksAreSafe'
    BY NothingLostKept, OneHiddenKept, UnlinksAreSafeKept
  <2>3. Prepared' /\ PassSoFar' /\ OneName'
    BY PreparedKept, PassSoFarKept, OneNameKept
  <2> QED BY <2>1, <2>2, <2>3 DEF FilesInv
<1>2. CASE UNCHANGED vars
  <2> USE <1>2 DEF vars, FilesInv
  <2>1. TypeOK' /\ PcTyped' /\ PassTyped' /\ FilesAreBorn'
    BY DEF TypeOK, PcTyped, PassTyped, FilesAreBorn
  <2>2. NothingLost' /\ OneHidden' /\ UnlinksAreSafe'
    BY DEF NothingLost, OneHidden, HiddenAt, UnlinksAreSafe, Dispensable
  <2>3. Prepared' /\ PassSoFar' /\ OneName'
    BY DEF Prepared, PassSoFar, SingleName, OneName
  <2> QED BY <2>1, <2>2, <2>3
<1> QED BY <1>1, <1>2

(* The inductive invariant: which files there have been, that one file at  *)
(* most is under a hidden name and which, and what each unlink relies on.  *)
THEOREM FilesInvariant == Spec => []FilesInv
  BY FilesInitially, FilesStep, PTL DEF Spec

(* No rename, delete or recovery loses a file, whatever outside programs   *)
(* do at the two paths, whichever call fails and however often the process *)
(* dies; and when the server is serving and has nothing left to recover,   *)
(* no file has two names.                                                  *)
THEOREM NothingIsLost == Spec => []LifecycleInv
<1>1. FilesInv => LifecycleInv
  BY DEF FilesInv, LifecycleInv
<1> QED BY <1>1, FilesInvariant, PTL

(* A rename that nobody disturbs goes from place to place, and recovery    *)
(* takes it up from any of them.                                           *)
LEMMA AtomicKept ==
  ASSUME FilesInv, AtomicInv, Next
  PROVE  AtomicInv'
<1> USE LifecycleAssumption
    DEF FilesInv, Rows, Place, Public, Hidden, Moves, Via, From, To, Home,
        TypeOK, PcTyped, Files, Document, AtomicInv, NotBegun, Prepared,
        Undisturbed, Renaming, FileAndRow, RenameRuns, RecoveryRuns, At,
        RowAt, Retained, HasBytes, StagingIsDest, Verdict, PassTyped,
        Passes, RenameCalls, DeleteCalls, RecoveryCalls
<1>1. CASE StartRename BY <1>1 DEF StartRename
<1>2. CASE StartDelete BY <1>2 DEF StartDelete, Renamed
<1>3. CASE RenameStep
  <2>1. CASE WriteJournal
    <3>1. Undisturbed => gen["src"] = Document
      BY <2>1 DEF WriteJournal
    <3>2. Document.raw = Text
      OBVIOUS
    <3>3. journal' = gen["src"].raw
      BY <2>1 DEF WriteJournal
    <3>4. Undisturbed => journal' = Text
      BY <3>1, <3>2, <3>3
    <3> HIDE DEF Document, Files
    <3> QED BY <2>1, <3>4 DEF WriteJournal
  <2>2. CASE SourceVanished BY <2>2 DEF SourceVanished
  <2>3. CASE TakeAside BY SMTT(30), <2>3 DEF TakeAside, Renamed
  <2>4. CASE NothingToTake BY <2>4 DEF NothingToTake
  <2>5. CASE LinkTaken BY SMTT(30), <2>5 DEF LinkTaken, Linked
  <2>6. CASE LinkOccupied BY <2>6 DEF LinkOccupied
  <2>7. CASE RestoreTaken BY <2>7 DEF RestoreTaken, Linked
  <2>8. CASE RestoreOccupied BY <2>8 DEF RestoreOccupied
  <2>9. CASE TidyTaken BY <2>9 DEF TidyTaken, Unlinked
  <2>10. CASE UnlinkTaken BY <2>10 DEF UnlinkTaken, Unlinked
  <2>11. CASE MoveRow BY <2>11 DEF MoveRow, RowMoved
  <2>12. CASE MoveRowFails BY <2>12 DEF MoveRowFails
  <2>13. CASE ClearJournal BY <2>13 DEF ClearJournal
  <2>14. CASE DropJournal BY <2>14 DEF DropJournal
  <2>15. CASE Unwind BY <2>15 DEF Unwind
  <2>16. CASE IdentifySource BY <2>16 DEF IdentifySource
  <2>17. CASE FollowFile BY <2>17 DEF FollowFile, RowMoved, RowDeleted
  <2> QED BY <1>3, <2>1, <2>2, <2>3, <2>4, <2>5, <2>6, <2>7, <2>8, <2>9,
             <2>10, <2>11, <2>12, <2>13, <2>14, <2>15, <2>16, <2>17
             DEF RenameStep
<1>4. CASE DeleteStep
  <2>1. CASE DeleteRow BY <2>1 DEF DeleteRow, RowDeleted
  <2>2. CASE DeleteFile BY <2>2 DEF DeleteFile, Unlinked
  <2>3. CASE DeleteFails BY <2>3 DEF DeleteFails
  <2>4. CASE PutBack BY <2>4 DEF PutBack, Linked
  <2>5. CASE PutBackTidy BY <2>5 DEF PutBackTidy, Unlinked
  <2>6. CASE PutBackRow BY <2>6 DEF PutBackRow
  <2>7. CASE WriteManifest BY <2>7 DEF WriteManifest
  <2>8. CASE SetAside BY <2>8 DEF SetAside, Renamed
  <2>9. CASE Detach BY <2>9 DEF Detach, RowDeleted
  <2>10. CASE Reidentify BY <2>10 DEF Reidentify
  <2>11. CASE DropManifest BY <2>11 DEF DropManifest
  <2> QED BY <1>4, <2>1, <2>2, <2>3, <2>4, <2>5, <2>6, <2>7, <2>8, <2>9,
             <2>10, <2>11
             DEF DeleteStep
<1>5. CASE RecoveryStep
  <2>1. CASE Restart BY <2>1 DEF Restart, NoRecovery
  <2>2. CASE NextGroup BY <2>2 DEF NextGroup
  <2>3. CASE EndPass BY <2>3 DEF EndPass, NoRecovery
  <2>4. CASE JudgeManifest BY <2>4 DEF JudgeManifest, Renamed, RowDeleted
  <2>5. CASE JudgeJournal BY <2>5 DEF JudgeJournal, Retained, Verdict,
           StagingIsDest, HasBytes
  <2>6. CASE CompleteRow BY <2>6 DEF CompleteRow, RowMoved
  <2>7. CASE CompleteRowFails BY <2>7 DEF CompleteRowFails
  <2>8. CASE DropStaging BY <2>8 DEF DropStaging, Unlinked
  <2>9. CASE RestoreSource BY <2>9 DEF RestoreSource, Linked
  <2>10. CASE EndJournal BY <2>10 DEF EndJournal
  <2>11. CASE JudgeOrphans BY <2>11 DEF JudgeOrphans, Renamed, RowDeleted
  <2>12. CASE StaleRow BY <2>12 DEF StaleRow, RowDeleted
  <2>13. CASE FinishDelete BY <2>13 DEF FinishDelete, Unlinked
  <2>14. CASE JudgeTaken BY <2>14 DEF JudgeTaken, Partners, Unlinked, Linked,
           Home
  <2>15. CASE Rebind BY SMTT(30), <2>15 DEF Rebind, RowMoved, Home
  <2>16. CASE TakenRestored BY <2>16 DEF TakenRestored, Unlinked, Home
  <2> QED BY <1>5, <2>1, <2>2, <2>3, <2>4, <2>5, <2>6, <2>7, <2>8, <2>9,
             <2>10, <2>11, <2>12, <2>13, <2>14, <2>15, <2>16
             DEF RecoveryStep
<1>6. CASE Crash BY <1>6 DEF Crash, NoRecovery
<1>7. CASE Outside BY <1>7 DEF Outside, External
<1> QED BY <1>1, <1>2, <1>3, <1>4, <1>5, <1>6, <1>7 DEF Next, Server

(* At the start no rename has begun.                                       *)
LEMMA AtomicInitially ==
  ASSUME Init
  PROVE  AtomicInv
  BY DEF Init, AtomicInv, NotBegun, At, Undisturbed, Renaming, Place, Public

(* The same, with the steps that change nothing.                           *)
LEMMA AtomicStep ==
  ASSUME FilesInv, AtomicInv, [Next]_vars
  PROVE  AtomicInv'
<1>1. CASE Next
  BY <1>1, AtomicKept
<1>2. CASE UNCHANGED vars
  <2>1. NotBegun' /\ (Undisturbed' => Undisturbed)
    BY <1>2 DEF vars, AtomicInv, NotBegun, At, Undisturbed, Renaming
  <2>2. FileAndRow => FileAndRow'
    BY <1>2 DEF vars, FileAndRow, At, RowAt
  <2>3. RenameRuns => RenameRuns'
    BY <1>2 DEF vars, RenameRuns, At, RowAt
  <2>4. RecoveryRuns => RecoveryRuns'
    BY <1>2 DEF vars, RecoveryRuns, At, RowAt
  <2> QED BY <2>1, <2>2, <2>3, <2>4 DEF AtomicInv
<1> QED BY <1>1, <1>2

(* Where the document and its row are, call by call, in a rename that      *)
(* nobody disturbs and in every recovery of it.                            *)
THEOREM AtomicInvariant == Spec => []AtomicInv
  BY FilesInvariant, AtomicInitially, AtomicStep, PTL DEF Spec

(* A rename no outside program disturbs is atomic: when the server serves  *)
(* again and holds no journal, the document is at one path with its row,   *)
(* through failures of the database and any number of deaths.              *)
THEOREM RenamesAreAtomic == Spec => []RenameIsAtomic
<1>1. ASSUME FilesInv, AtomicInv
      PROVE  RenameIsAtomic
  <2> SUFFICES ASSUME pc = "served", Renaming, journal = None, ext = 0, snap["dest"] = None
               PROVE  \E p \in Public :
                        /\ gen = [q \in Place |-> IF q = p THEN Document ELSE None]
                        /\ row = [q \in Public |-> IF q = p THEN DocId ELSE None]
    BY DEF RenameIsAtomic
  <2> USE <1>1
  <2>1. Text # None
    BY LifecycleAssumption
  <2>2. Document # None /\ Document \in Files
    BY LifecycleAssumption DEF Document, Files
  <2>3. FileAndRow /\ OneName /\ OneHidden /\ ~manifest
    BY DEF FilesInv, AtomicInv, Undisturbed, FileAndRow
  <2>4. \/ RowAt("src") /\ At({"src"})
        \/ RowAt("dest") /\ At({"dest"})
    BY <2>1, <2>2, <2>3 DEF FileAndRow, OneName, At, Public, Place
  <2>5. /\ gen = [q \in Place |-> gen[q]]
        /\ row = [q \in Public |-> row[q]]
    BY DEF FilesInv, TypeOK, Rows
  <2>6. \A p \in Public :
          At({p}) => gen = [q \in Place |-> IF q = p THEN Document ELSE None]
    BY <2>5 DEF At
  <2>7. \A p \in Public :
          RowAt(p) => row = [q \in Public |-> IF q = p THEN DocId ELSE None]
    BY <2>5 DEF RowAt
  <2> QED BY <2>4, <2>6, <2>7 DEF Public
<1> QED BY <1>1, FilesInvariant, AtomicInvariant, PTL

(* An outside program's one file is never taken for the document's.        *)
LEMMA StrangerKept ==
  ASSUME FilesInv, AtomicInv, IdentityInv, Next, Followed'
  PROVE  OneStranger'
<1> USE LifecycleAssumption
    DEF FilesInv, Rows, Place, Public, Hidden, Moves, Via, From, To, Home,
        TypeOK, PcTyped, Files, Document, Followed, HasText, Prepared,
        IdentityInv, OneStranger, IdentityIsAccountedFor, DocumentIsAt,
        RowIsAt, NotBegun, FilesAreBorn, RenameCalls, DeleteCalls,
        RecoveryCalls, OneHidden, HiddenAt
<1>1. CASE StartRename BY <1>1 DEF StartRename
<1>2. CASE StartDelete BY <1>2 DEF StartDelete, Renamed
<1>3. CASE RenameStep
  <2>1. CASE WriteJournal BY <2>1 DEF WriteJournal
  <2>2. CASE SourceVanished BY <2>2 DEF SourceVanished
  <2>3. CASE TakeAside BY <2>3 DEF TakeAside, Renamed
  <2>4. CASE NothingToTake BY <2>4 DEF NothingToTake
  <2>5. CASE LinkTaken BY <2>5 DEF LinkTaken, Linked
  <2>6. CASE LinkOccupied BY <2>6 DEF LinkOccupied
  <2>7. CASE RestoreTaken BY <2>7 DEF RestoreTaken, Linked
  <2>8. CASE RestoreOccupied BY <2>8 DEF RestoreOccupied
  <2>9. CASE TidyTaken BY <2>9 DEF TidyTaken, Unlinked
  <2>10. CASE UnlinkTaken BY <2>10 DEF UnlinkTaken, Unlinked
  <2>11. CASE MoveRow BY <2>11 DEF MoveRow, RowMoved
  <2>12. CASE MoveRowFails BY <2>12 DEF MoveRowFails
  <2>13. CASE ClearJournal BY <2>13 DEF ClearJournal
  <2>14. CASE DropJournal BY <2>14 DEF DropJournal
  <2>15. CASE Unwind BY <2>15 DEF Unwind
  <2>16. CASE IdentifySource BY <2>16 DEF IdentifySource
  <2>17. CASE FollowFile BY <2>17 DEF FollowFile, RowMoved, RowDeleted
  <2> QED BY <1>3, <2>1, <2>2, <2>3, <2>4, <2>5, <2>6, <2>7, <2>8, <2>9,
             <2>10, <2>11, <2>12, <2>13, <2>14, <2>15, <2>16, <2>17
             DEF RenameStep
<1>4. CASE DeleteStep
  <2>1. CASE DeleteRow BY <2>1 DEF DeleteRow, RowDeleted
  <2>2. CASE DeleteFile BY <2>2 DEF DeleteFile, Unlinked
  <2>3. CASE DeleteFails BY <2>3 DEF DeleteFails
  <2>4. CASE PutBack BY <2>4 DEF PutBack, Linked
  <2>5. CASE PutBackTidy BY <2>5 DEF PutBackTidy, Unlinked
  <2>6. CASE PutBackRow BY <2>6 DEF PutBackRow
  <2>7. CASE WriteManifest BY <2>7 DEF WriteManifest
  <2>8. CASE SetAside BY <2>8 DEF SetAside, Renamed
  <2>9. CASE Detach BY <2>9 DEF Detach, RowDeleted
  <2>10. CASE Reidentify BY <2>10 DEF Reidentify
  <2>11. CASE DropManifest BY <2>11 DEF DropManifest
  <2> QED BY <1>4, <2>1, <2>2, <2>3, <2>4, <2>5, <2>6, <2>7, <2>8, <2>9,
             <2>10, <2>11
             DEF DeleteStep
<1>5. CASE RecoveryStep
  <2>1. CASE Restart BY <2>1 DEF Restart, NoRecovery
  <2>2. CASE NextGroup BY <2>2 DEF NextGroup
  <2>3. CASE EndPass BY <2>3 DEF EndPass, NoRecovery
  <2>4. CASE JudgeManifest BY <2>4 DEF JudgeManifest, Renamed, RowDeleted
  <2>5. CASE JudgeJournal BY <2>5 DEF JudgeJournal, Retained, Verdict,
           StagingIsDest, HasBytes
  <2>6. CASE CompleteRow BY <2>6 DEF CompleteRow, RowMoved
  <2>7. CASE CompleteRowFails BY <2>7 DEF CompleteRowFails
  <2>8. CASE DropStaging BY <2>8 DEF DropStaging, Unlinked
  <2>9. CASE RestoreSource BY <2>9 DEF RestoreSource, Linked
  <2>10. CASE EndJournal BY <2>10 DEF EndJournal
  <2>11. CASE JudgeOrphans BY <2>11 DEF JudgeOrphans, Renamed, RowDeleted
  <2>12. CASE StaleRow BY <2>12 DEF StaleRow, RowDeleted
  <2>13. CASE FinishDelete BY <2>13 DEF FinishDelete, Unlinked
  <2>14. CASE JudgeTaken BY <2>14 DEF JudgeTaken, Partners, Unlinked, Linked,
           Home, PassTyped, Passes
  <2>15. CASE Rebind BY <2>15 DEF Rebind, RowMoved, Home, PassTyped, Passes
  <2>16. CASE TakenRestored BY <2>16 DEF TakenRestored, Unlinked, Home,
           PassTyped, Passes
  <2> QED BY <1>5, <2>1, <2>2, <2>3, <2>4, <2>5, <2>6, <2>7, <2>8, <2>9,
             <2>10, <2>11, <2>12, <2>13, <2>14, <2>15, <2>16
             DEF RecoveryStep
<1>6. CASE Crash BY <1>6 DEF Crash, NoRecovery
<1>7. CASE Outside
  <2>1. PICK p \in Public, file \in Files \cup {None} :
          /\ External(p, file) /\ file \notin born
          /\ file # None => file.ino = Cardinality(born) + 1
    BY <1>7, OutsiderIsNew
  <2> QED BY <2>1 DEF External
<1> QED BY <1>1, <1>2, <1>3, <1>4, <1>5, <1>6, <1>7 DEF Next, Server

(* The identity stays with the document's bytes, or something says that it *)
(* is to be moved.                                                         *)
LEMMA AccountKept ==
  ASSUME FilesInv, AtomicInv, IdentityInv, Next, Followed'
  PROVE  IdentityIsAccountedFor'
<1> USE LifecycleAssumption
    DEF FilesInv, Rows, Place, Public, Hidden, Moves, Via, From, To, Home,
        TypeOK, PcTyped, Files, Document, Followed, HasText, Prepared,
        IdentityInv, OneStranger, IdentityIsAccountedFor, DocumentIsAt,
        RowIsAt, NotBegun, FilesAreBorn, RenameCalls, DeleteCalls,
        RecoveryCalls, AtomicInv, OneHidden, HiddenAt, PassSoFar
<1>1. CASE StartRename BY <1>1 DEF StartRename
<1>2. CASE StartDelete BY <1>2 DEF StartDelete, Renamed
<1>3. CASE RenameStep
  <2>1. CASE WriteJournal BY <2>1 DEF WriteJournal
  <2>2. CASE SourceVanished BY <2>2 DEF SourceVanished
  <2>3. CASE TakeAside BY <2>3 DEF TakeAside, Renamed
  <2>4. CASE NothingToTake BY <2>4 DEF NothingToTake
  <2>5. CASE LinkTaken BY <2>5 DEF LinkTaken, Linked
  <2>6. CASE LinkOccupied BY <2>6 DEF LinkOccupied
  <2>7. CASE RestoreTaken BY <2>7 DEF RestoreTaken, Linked
  <2>8. CASE RestoreOccupied BY <2>8 DEF RestoreOccupied
  <2>9. CASE TidyTaken BY <2>9 DEF TidyTaken, Unlinked
  <2>10. CASE UnlinkTaken BY <2>10 DEF UnlinkTaken, Unlinked
  <2>11. CASE MoveRow BY <2>11 DEF MoveRow, RowMoved
  <2>12. CASE MoveRowFails BY <2>12 DEF MoveRowFails
  <2>13. CASE ClearJournal BY <2>13 DEF ClearJournal
  <2>14. CASE DropJournal BY <2>14 DEF DropJournal
  <2>15. CASE Unwind BY <2>15 DEF Unwind
  <2>16. CASE IdentifySource BY <2>16 DEF IdentifySource
  <2>17. CASE FollowFile BY <2>17 DEF FollowFile, RowMoved, RowDeleted
  <2> QED BY <1>3, <2>1, <2>2, <2>3, <2>4, <2>5, <2>6, <2>7, <2>8, <2>9,
             <2>10, <2>11, <2>12, <2>13, <2>14, <2>15, <2>16, <2>17
             DEF RenameStep
<1>4. CASE DeleteStep
  <2>1. CASE DeleteRow BY <2>1 DEF DeleteRow, RowDeleted
  <2>2. CASE DeleteFile BY <2>2 DEF DeleteFile, Unlinked
  <2>3. CASE DeleteFails BY <2>3 DEF DeleteFails
  <2>4. CASE PutBack BY <2>4 DEF PutBack, Linked
  <2>5. CASE PutBackTidy BY <2>5 DEF PutBackTidy, Unlinked
  <2>6. CASE PutBackRow BY <2>6 DEF PutBackRow
  <2>7. CASE WriteManifest BY <2>7 DEF WriteManifest
  <2>8. CASE SetAside BY <2>8 DEF SetAside, Renamed
  <2>9. CASE Detach BY <2>9 DEF Detach, RowDeleted
  <2>10. CASE Reidentify BY <2>10 DEF Reidentify
  <2>11. CASE DropManifest BY <2>11 DEF DropManifest
  <2> QED BY <1>4, <2>1, <2>2, <2>3, <2>4, <2>5, <2>6, <2>7, <2>8, <2>9,
             <2>10, <2>11
             DEF DeleteStep
<1>5. CASE RecoveryStep
  <2>1. CASE Restart BY <2>1 DEF Restart, NoRecovery
  <2>2. CASE NextGroup BY <2>2 DEF NextGroup
  <2>3. CASE EndPass BY <2>3 DEF EndPass, NoRecovery
  <2>4. CASE JudgeManifest BY <2>4 DEF JudgeManifest, Renamed, RowDeleted
  <2>5. CASE JudgeJournal BY <2>5 DEF JudgeJournal, Retained, Verdict,
           StagingIsDest, HasBytes
  <2>6. CASE CompleteRow BY <2>6 DEF CompleteRow, RowMoved
  <2>7. CASE CompleteRowFails BY <2>7 DEF CompleteRowFails
  <2>8. CASE DropStaging BY <2>8 DEF DropStaging, Unlinked
  <2>9. CASE RestoreSource BY <2>9 DEF RestoreSource, Linked
  <2>10. CASE EndJournal BY <2>10 DEF EndJournal
  <2>11. CASE JudgeOrphans BY <2>11 DEF JudgeOrphans, Renamed, RowDeleted
  <2>12. CASE StaleRow BY <2>12 DEF StaleRow, RowDeleted
  <2>13. CASE FinishDelete BY <2>13 DEF FinishDelete, Unlinked
  <2>14. CASE JudgeTaken BY <2>14 DEF JudgeTaken, Partners, Unlinked, Linked,
           Home, PassTyped, Passes
  <2>15. CASE Rebind BY <2>15 DEF Rebind, RowMoved, Home, PassTyped, Passes
  <2>16. CASE TakenRestored BY <2>16 DEF TakenRestored, Unlinked, Home,
           PassTyped, Passes
  <2> QED BY <1>5, <2>1, <2>2, <2>3, <2>4, <2>5, <2>6, <2>7, <2>8, <2>9,
             <2>10, <2>11, <2>12, <2>13, <2>14, <2>15, <2>16
             DEF RecoveryStep
<1>6. CASE Crash BY <1>6 DEF Crash, NoRecovery
<1>7. CASE Outside
  <2>1. PICK p \in Public, file \in Files \cup {None} :
          /\ External(p, file) /\ file \notin born
          /\ file # None => file.ino = Cardinality(born) + 1
    BY <1>7, OutsiderIsNew
  <2> QED BY <2>1 DEF External
<1> QED BY <1>1, <1>2, <1>3, <1>4, <1>5, <1>6, <1>7 DEF Next, Server

(* The document is where the next call expects it.                         *)
LEMMA DocumentKept ==
  ASSUME FilesInv, AtomicInv, IdentityInv, Next, Followed'
  PROVE  DocumentIsAt'
<1> USE LifecycleAssumption
    DEF FilesInv, Rows, Place, Public, Hidden, Moves, Via, From, To, Home,
        TypeOK, PcTyped, Files, Document, Followed, HasText, Prepared,
        IdentityInv, OneStranger, IdentityIsAccountedFor, DocumentIsAt,
        RowIsAt, NotBegun, FilesAreBorn, RenameCalls, DeleteCalls,
        RecoveryCalls, OneHidden, HiddenAt, NothingLost
<1>1. CASE StartRename BY <1>1 DEF StartRename
<1>2. CASE StartDelete BY <1>2 DEF StartDelete, Renamed
<1>3. CASE RenameStep
  <2>1. CASE WriteJournal BY <2>1 DEF WriteJournal
  <2>2. CASE SourceVanished BY <2>2 DEF SourceVanished
  <2>3. CASE TakeAside BY <2>3 DEF TakeAside, Renamed
  <2>4. CASE NothingToTake BY <2>4 DEF NothingToTake
  <2>5. CASE LinkTaken BY <2>5 DEF LinkTaken, Linked
  <2>6. CASE LinkOccupied BY <2>6 DEF LinkOccupied
  <2>7. CASE RestoreTaken BY <2>7 DEF RestoreTaken, Linked
  <2>8. CASE RestoreOccupied BY <2>8 DEF RestoreOccupied
  <2>9. CASE TidyTaken BY <2>9 DEF TidyTaken, Unlinked
  <2>10. CASE UnlinkTaken BY <2>10 DEF UnlinkTaken, Unlinked
  <2>11. CASE MoveRow BY <2>11 DEF MoveRow, RowMoved
  <2>12. CASE MoveRowFails BY <2>12 DEF MoveRowFails
  <2>13. CASE ClearJournal BY <2>13 DEF ClearJournal
  <2>14. CASE DropJournal BY <2>14 DEF DropJournal
  <2>15. CASE Unwind BY <2>15 DEF Unwind
  <2>16. CASE IdentifySource BY <2>16 DEF IdentifySource
  <2>17. CASE FollowFile BY <2>17 DEF FollowFile, RowMoved, RowDeleted
  <2> QED BY <1>3, <2>1, <2>2, <2>3, <2>4, <2>5, <2>6, <2>7, <2>8, <2>9,
             <2>10, <2>11, <2>12, <2>13, <2>14, <2>15, <2>16, <2>17
             DEF RenameStep
<1>4. CASE DeleteStep
  <2>1. CASE DeleteRow BY <2>1 DEF DeleteRow, RowDeleted
  <2>2. CASE DeleteFile BY <2>2 DEF DeleteFile, Unlinked
  <2>3. CASE DeleteFails BY <2>3 DEF DeleteFails
  <2>4. CASE PutBack BY <2>4 DEF PutBack, Linked
  <2>5. CASE PutBackTidy BY <2>5 DEF PutBackTidy, Unlinked
  <2>6. CASE PutBackRow BY <2>6 DEF PutBackRow
  <2>7. CASE WriteManifest BY <2>7 DEF WriteManifest
  <2>8. CASE SetAside BY <2>8 DEF SetAside, Renamed
  <2>9. CASE Detach BY <2>9 DEF Detach, RowDeleted
  <2>10. CASE Reidentify BY <2>10 DEF Reidentify
  <2>11. CASE DropManifest BY <2>11 DEF DropManifest
  <2> QED BY <1>4, <2>1, <2>2, <2>3, <2>4, <2>5, <2>6, <2>7, <2>8, <2>9,
             <2>10, <2>11
             DEF DeleteStep
<1>5. CASE RecoveryStep
  <2>1. CASE Restart BY <2>1 DEF Restart, NoRecovery
  <2>2. CASE NextGroup BY <2>2 DEF NextGroup
  <2>3. CASE EndPass BY <2>3 DEF EndPass, NoRecovery
  <2>4. CASE JudgeManifest BY <2>4 DEF JudgeManifest, Renamed, RowDeleted
  <2>5. CASE JudgeJournal BY <2>5 DEF JudgeJournal, Retained, Verdict,
           StagingIsDest, HasBytes
  <2>6. CASE CompleteRow BY <2>6 DEF CompleteRow, RowMoved
  <2>7. CASE CompleteRowFails BY <2>7 DEF CompleteRowFails
  <2>8. CASE DropStaging BY <2>8 DEF DropStaging, Unlinked
  <2>9. CASE RestoreSource BY <2>9 DEF RestoreSource, Linked
  <2>10. CASE EndJournal BY <2>10 DEF EndJournal
  <2>11. CASE JudgeOrphans BY <2>11 DEF JudgeOrphans, Renamed, RowDeleted
  <2>12. CASE StaleRow BY <2>12 DEF StaleRow, RowDeleted
  <2>13. CASE FinishDelete BY <2>13 DEF FinishDelete, Unlinked
  <2>14. CASE JudgeTaken BY <2>14 DEF JudgeTaken, Partners, Unlinked, Linked,
           Home, PassTyped, Passes
  <2>15. CASE Rebind BY <2>15 DEF Rebind, RowMoved, Home, PassTyped, Passes
  <2>16. CASE TakenRestored BY <2>16 DEF TakenRestored, Unlinked, Home,
           PassTyped, Passes
  <2> QED BY <1>5, <2>1, <2>2, <2>3, <2>4, <2>5, <2>6, <2>7, <2>8, <2>9,
             <2>10, <2>11, <2>12, <2>13, <2>14, <2>15, <2>16
             DEF RecoveryStep
<1>6. CASE Crash BY <1>6 DEF Crash, NoRecovery
<1>7. CASE Outside
  <2>1. PICK p \in Public, file \in Files \cup {None} :
          /\ External(p, file) /\ file \notin born
          /\ file # None => file.ino = Cardinality(born) + 1
    BY <1>7, OutsiderIsNew
  <2> QED BY <2>1 DEF External
<1> QED BY <1>1, <1>2, <1>3, <1>4, <1>5, <1>6, <1>7 DEF Next, Server

(* The identity is where the next call expects it.                         *)
LEMMA RowKept ==
  ASSUME FilesInv, AtomicInv, IdentityInv, Next, Followed'
  PROVE  RowIsAt'
<1> USE LifecycleAssumption
    DEF FilesInv, Rows, Place, Public, Hidden, Moves, Via, From, To, Home,
        TypeOK, PcTyped, Files, Document, Followed, HasText, Prepared,
        IdentityInv, OneStranger, IdentityIsAccountedFor, DocumentIsAt,
        RowIsAt, NotBegun, FilesAreBorn, RenameCalls, DeleteCalls,
        RecoveryCalls, AtomicInv, Retained, Verdict, HasBytes,
        StagingIsDest
<1>1. CASE StartRename BY <1>1 DEF StartRename
<1>2. CASE StartDelete BY <1>2 DEF StartDelete, Renamed
<1>3. CASE RenameStep
  <2>1. CASE WriteJournal BY <2>1 DEF WriteJournal
  <2>2. CASE SourceVanished BY <2>2 DEF SourceVanished
  <2>3. CASE TakeAside BY <2>3 DEF TakeAside, Renamed
  <2>4. CASE NothingToTake BY <2>4 DEF NothingToTake
  <2>5. CASE LinkTaken BY <2>5 DEF LinkTaken, Linked
  <2>6. CASE LinkOccupied BY <2>6 DEF LinkOccupied
  <2>7. CASE RestoreTaken BY <2>7 DEF RestoreTaken, Linked
  <2>8. CASE RestoreOccupied BY <2>8 DEF RestoreOccupied
  <2>9. CASE TidyTaken BY <2>9 DEF TidyTaken, Unlinked
  <2>10. CASE UnlinkTaken BY <2>10 DEF UnlinkTaken, Unlinked
  <2>11. CASE MoveRow BY <2>11 DEF MoveRow, RowMoved
  <2>12. CASE MoveRowFails BY <2>12 DEF MoveRowFails
  <2>13. CASE ClearJournal BY <2>13 DEF ClearJournal
  <2>14. CASE DropJournal BY <2>14 DEF DropJournal
  <2>15. CASE Unwind BY <2>15 DEF Unwind
  <2>16. CASE IdentifySource BY <2>16 DEF IdentifySource
  <2>17. CASE FollowFile BY <2>17 DEF FollowFile, RowMoved, RowDeleted
  <2> QED BY <1>3, <2>1, <2>2, <2>3, <2>4, <2>5, <2>6, <2>7, <2>8, <2>9,
             <2>10, <2>11, <2>12, <2>13, <2>14, <2>15, <2>16, <2>17
             DEF RenameStep
<1>4. CASE DeleteStep
  <2>1. CASE DeleteRow BY <2>1 DEF DeleteRow, RowDeleted
  <2>2. CASE DeleteFile BY <2>2 DEF DeleteFile, Unlinked
  <2>3. CASE DeleteFails BY <2>3 DEF DeleteFails
  <2>4. CASE PutBack BY <2>4 DEF PutBack, Linked
  <2>5. CASE PutBackTidy BY <2>5 DEF PutBackTidy, Unlinked
  <2>6. CASE PutBackRow BY <2>6 DEF PutBackRow
  <2>7. CASE WriteManifest BY <2>7 DEF WriteManifest
  <2>8. CASE SetAside BY <2>8 DEF SetAside, Renamed
  <2>9. CASE Detach BY <2>9 DEF Detach, RowDeleted
  <2>10. CASE Reidentify BY <2>10 DEF Reidentify
  <2>11. CASE DropManifest BY <2>11 DEF DropManifest
  <2> QED BY <1>4, <2>1, <2>2, <2>3, <2>4, <2>5, <2>6, <2>7, <2>8, <2>9,
             <2>10, <2>11
             DEF DeleteStep
<1>5. CASE RecoveryStep
  <2>1. CASE Restart BY <2>1 DEF Restart, NoRecovery
  <2>2. CASE NextGroup BY <2>2 DEF NextGroup
  <2>3. CASE EndPass BY <2>3 DEF EndPass, NoRecovery
  <2>4. CASE JudgeManifest BY <2>4 DEF JudgeManifest, Renamed, RowDeleted
  <2>5. CASE JudgeJournal BY <2>5 DEF JudgeJournal, Retained, Verdict,
           StagingIsDest, HasBytes
  <2>6. CASE CompleteRow BY <2>6 DEF CompleteRow, RowMoved
  <2>7. CASE CompleteRowFails BY <2>7 DEF CompleteRowFails
  <2>8. CASE DropStaging BY <2>8 DEF DropStaging, Unlinked
  <2>9. CASE RestoreSource BY <2>9 DEF RestoreSource, Linked
  <2>10. CASE EndJournal BY <2>10 DEF EndJournal
  <2>11. CASE JudgeOrphans BY <2>11 DEF JudgeOrphans, Renamed, RowDeleted
  <2>12. CASE StaleRow BY <2>12 DEF StaleRow, RowDeleted
  <2>13. CASE FinishDelete BY <2>13 DEF FinishDelete, Unlinked
  <2>14. CASE JudgeTaken BY <2>14 DEF JudgeTaken, Partners, Unlinked, Linked,
           Home
  <2>15. CASE Rebind BY <2>15 DEF Rebind, RowMoved, Home
  <2>16. CASE TakenRestored BY <2>16 DEF TakenRestored, Unlinked, Home
  <2> QED BY <1>5, <2>1, <2>2, <2>3, <2>4, <2>5, <2>6, <2>7, <2>8, <2>9,
             <2>10, <2>11, <2>12, <2>13, <2>14, <2>15, <2>16
             DEF RecoveryStep
<1>6. CASE Crash BY <1>6 DEF Crash, NoRecovery
<1>7. CASE Outside
  <2>1. PICK p \in Public, file \in Files \cup {None} :
          /\ External(p, file) /\ file \notin born
          /\ file # None => file.ino = Cardinality(born) + 1
    BY <1>7, OutsiderIsNew
  <2> QED BY <2>1 DEF External
<1> QED BY <1>1, <1>2, <1>3, <1>4, <1>5, <1>6, <1>7 DEF Next, Server

(* At the start the document is at its path, with its row.                 *)
LEMMA IdentityInitially ==
  ASSUME Init
  PROVE  IdentityInv
<1> USE LifecycleAssumption DEF Init, Place, Public, Hidden
<1>1. Document # None /\ Document.raw = Text
  BY DEF Document
<1>2. OneStranger
  BY DEF OneStranger
<1>3. IdentityIsAccountedFor
  BY <1>1 DEF IdentityIsAccountedFor, HasText, RecoveryCalls
<1>4. DocumentIsAt
  BY <1>1 DEF DocumentIsAt
<1>5. RowIsAt
  BY DEF RowIsAt
<1> QED BY <1>2, <1>3, <1>4, <1>5 DEF IdentityInv

(* The same, with the steps that change nothing.                           *)
LEMMA IdentityStep ==
  ASSUME FilesInv, AtomicInv, IdentityInv, [Next]_vars
  PROVE  IdentityInv'
<1>1. CASE Next
  <2> SUFFICES ASSUME Followed'
               PROVE  (OneStranger /\ IdentityIsAccountedFor /\ DocumentIsAt /\ RowIsAt)'
    BY DEF IdentityInv
  <2> QED BY <1>1, StrangerKept, AccountKept, DocumentKept, RowKept
<1>2. CASE UNCHANGED vars
  <2>1. Followed' => Followed
    BY <1>2 DEF vars, Followed
  <2>2. OneStranger => OneStranger'
    BY <1>2 DEF vars, OneStranger
  <2>3. IdentityIsAccountedFor => IdentityIsAccountedFor'
    BY <1>2 DEF vars, IdentityIsAccountedFor, HasText
  <2>4. DocumentIsAt => DocumentIsAt'
    BY <1>2 DEF vars, DocumentIsAt
  <2>5. RowIsAt => RowIsAt'
    BY <1>2 DEF vars, RowIsAt, HasText
  <2> QED BY <2>1, <2>2, <2>3, <2>4, <2>5 DEF IdentityInv
<1> QED BY <1>1, <1>2

(* Who answers for the identity between two calls, as long as one outside  *)
(* step and one death, at most, have happened.                             *)
THEOREM IdentityInvariant == Spec => []IdentityInv
  BY FilesInvariant, AtomicInvariant, IdentityInitially, IdentityStep, PTL DEF Spec

(* The identity follows the bytes: through one step of an outside program  *)
(* and one death of the process, when the server serves with nothing left  *)
(* to recover the document's row is at no path whose file has other bytes,  *)
(* unless somebody removed the document's own file.                        *)
THEOREM IdentityGoesWithTheFile == Spec => []IdentityFollowsFile
<1>1. ASSUME FilesInv, IdentityInv
      PROVE  IdentityFollowsFile
  <2> SUFFICES ASSUME ext < 2, crashes < 2, pc = "served", journal = None, ~manifest,
                      Document \notin gone, NEW p \in Public, row[p] = DocId, gen[p] # None
               PROVE  gen[p].raw = Text
    BY DEF IdentityFollowsFile, IdentityKept
  <2>1. IdentityIsAccountedFor
    BY <1>1 DEF IdentityInv, Followed
  <2> QED BY <2>1 DEF IdentityIsAccountedFor, HasText, Public
<1> QED BY <1>1, FilesInvariant, IdentityInvariant, PTL

=============================================================================
