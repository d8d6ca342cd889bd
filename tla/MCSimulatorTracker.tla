------------------------- MODULE MCSimulatorTracker -------------------------
(* Small instances of SimulatorTracker. *)
EXTENDS SimulatorTracker, TLC

Symmetry == Permutations(Tasks) \cup Permutations(Services)
=============================================================================
