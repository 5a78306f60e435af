------------------------------ MODULE MCTasks ------------------------------
(* Instances of Tasks for TLC. *)
EXTENDS TasksRefinement, TLC

\* The structs are interchangeable: Init starts any of them as init.
Symmetry == Permutations(Task)
=============================================================================
