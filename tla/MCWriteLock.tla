----------------------------- MODULE MCWriteLock -----------------------------
(***************************************************************************)
(* Four operations over the vault coordinator (0), the structure lock (1)  *)
(* and two documents (2, 3): a folder rename that takes everything, a file *)
(* move under the structure lock, a version over both documents without it *)
(* and a plain save.                                                       *)
(***************************************************************************)
EXTENDS WriteLock

CONSTANTS folderRename, fileMove, createVersion, save

MCOps == {folderRename, fileMove, createVersion, save}
MCKeys == 0..3
MCFootprint ==
  [o \in MCOps |->
     CASE o = folderRename -> {0, 1, 2, 3}
       [] o = fileMove -> {1, 2, 3}
       [] o = createVersion -> {0, 2, 3}
       [] o = save -> {2}]

=============================================================================
