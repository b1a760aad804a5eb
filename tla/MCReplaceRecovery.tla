-------------------------- MODULE MCReplaceRecovery --------------------------
(***************************************************************************)
(* The instances of ReplaceRecovery that TLC checks.  They differ in which *)
(* operations the callers ask for and in how many steps external writers,  *)
(* failing calls and crashes may take; the bytes are few, since a protocol *)
(* only compares them.                                                     *)
(***************************************************************************)
EXTENDS ReplaceRecovery, TLC

CONSTANTS original, saved, resaved, edited, empty

MCSaves == {saved}
MCTwoSaves == {saved, resaved}

(* The protocol does not tell the two texts apart. *)
Alike == Permutations({saved, resaved})

(* An editor may also write back the bytes the document started with. *)
MCEdits == {original, edited}

Replacing == {"replace", "create"}
Removing == {"create", "remove"}
AnyKind == {"replace", "create", "remove"}

ASSUME DistinctBytes == Cardinality({original, saved, resaved, edited, empty}) = 5
=============================================================================
