------------------------------ MODULE MCTasks ------------------------------
(* Small instances of Tasks for TLC. *)
EXTENDS Tasks, TLC

Symmetry == Permutations(Users) \cup Permutations(Callers)
=============================================================================
