--------------------------- MODULE MCDocumentSave ---------------------------
(***************************************************************************)
(* DocumentSave with three texts: the one the tab was opened with, and two *)
(* that the user and the other programs write.                             *)
(***************************************************************************)
EXTENDS DocumentSave

CONSTANTS opened, one, two

MCTexts == {opened, one, two}
=============================================================================
