------------------------- MODULE MCDocumentLifecycle -------------------------
(***************************************************************************)
(* The instance of DocumentLifecycle that TLC checks: outside programs may *)
(* write the bytes the document started with, or other ones.               *)
(***************************************************************************)
EXTENDS DocumentLifecycle

CONSTANTS text, other

MCBytes == {text, other}
=============================================================================
