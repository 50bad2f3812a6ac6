------------------------------- MODULE MCEditor -------------------------------
(* A row of positions and a few views.                                     *)
EXTENDS Editor
==============================================================================
