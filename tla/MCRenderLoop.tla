---------------------------- MODULE MCRenderLoop ----------------------------
(* RenderLoop on small bounds: version 1 of the source never terminates,   *)
(* only versions 0 and 2 declare the slider, and version 2 is saved by     *)
(* unlinking the file.                                                     *)
EXTENDS RenderLoop

MCDeclaring == {0, 2}
MCFirstVersion == {1}
MCSecondVersion == {2}
=============================================================================
