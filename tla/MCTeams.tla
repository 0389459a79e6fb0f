------------------------------ MODULE MCTeams ------------------------------
(* Small instances of Teams for TLC. *)
EXTENDS Teams, TLC

\* Users and invitations are interchangeable.
Symmetry == Permutations(Users) \cup Permutations(Invites)
=============================================================================
