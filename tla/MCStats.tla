------------------------------ MODULE MCStats ------------------------------
(* A small instance of Stats for TLC. *)
EXTENDS Stats

CONSTANTS r1, r2

\* The morning of a day, and its morning and noon.
Windows ==
  [r \in Requests |-> [kind |-> "done", user |-> 1, from |-> 0,
                       to |-> IF r = r1 THEN 1 ELSE 2, limit |-> Malformed]]
=============================================================================
