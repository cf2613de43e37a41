-------------------------- MODULE MCNotebookWrites --------------------------
(***************************************************************************)
(* Instances of NotebookWrites: two blocks and a line of prose.            *)
(***************************************************************************)
EXTENDS NotebookWrites

CodesXY == {"x", "y"}
ProseP == {"p"}
NotesN == {"n"}
FilePX == <<"p", "x">>
=============================================================================
