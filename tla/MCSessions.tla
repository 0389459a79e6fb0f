---------------------------- MODULE MCSessions ----------------------------
(* Small instances of Sessions for TLC. *)
EXTENDS Sessions, TLC

\* Calls and tokens are interchangeable.
Symmetry == Permutations(Tokens) \cup Permutations(Calls)
=============================================================================
