---------------------------- MODULE MCLifecycle ----------------------------
(* A small instance of Lifecycle for TLC. *)
EXTENDS Lifecycle

CONSTANTS u1, u2, f

\* Two updates of a task, and a comment on it or a query.
KindOf == [r \in Requests |-> IF r = f THEN "other" ELSE "task"]
RowOf == [r \in Requests |-> "task"]
=============================================================================
