------------------------------ MODULE MCContext ------------------------------
(* Context over a few tasks. *)
EXTENDS Context, TLC

Symmetry == Permutations(Task)
=============================================================================
