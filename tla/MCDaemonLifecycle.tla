------------------------ MODULE MCDaemonLifecycle ------------------------
(* Small instances of DaemonLifecycle. *)
EXTENDS DaemonLifecycle, TLC

Symmetry == Permutations(Pids)
===========================================================================
