--------------------------- MODULE MCHippoDaemon ---------------------------
(* Small instances of HippoDaemon. *)
EXTENDS HippoDaemon, TLC

Symmetry == Permutations(Tasks)
=============================================================================
