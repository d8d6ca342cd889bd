--------------------------- MODULE MCProjectPorts ---------------------------
(* Small instances of ProjectPorts. *)
EXTENDS ProjectPorts, TLC

\* No project has a key, as after `hippo init`.
NoKeys == [p \in Projects |-> NoKey]

\* Nothing is claimed of what comes after the user was careless.
Careful == ~careless

Symmetry == Permutations(Projects)
=============================================================================
