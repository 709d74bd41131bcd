------------------------------- MODULE MCFiles -------------------------------
(* Which process has which name makes no difference after the start.       *)
EXTENDS Files, TLC

Symmetry == Permutations(Procs)
=============================================================================
