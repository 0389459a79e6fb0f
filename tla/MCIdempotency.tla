--------------------------- MODULE MCIdempotency ---------------------------
(* Small instances of Idempotency for TLC. *)
EXTENDS Idempotency

CONSTANTS r1, r2, r3

\* An update of task 1, and the same key with another payload.
Update == [user |-> "ann", method |-> "PUT", pattern |-> "/tasks/{id}",
           path |-> "/tasks/1", payload |-> "p", idemKey |-> "k"]
OtherPayload == [Update EXCEPT !.payload = "q"]

\* The Req of each run.
RetryAndReuse ==
  [r \in Requests |-> IF r = r3 THEN OtherPayload ELSE Update]
RetryAndPlain ==
  [r \in Requests |-> IF r = r3 THEN [Update EXCEPT !.idemKey = NoKey] ELSE Update]
UpdatesOfTwoTasks ==
  [r \in Requests |-> IF r = r1 THEN Update
                                ELSE [Update EXCEPT !.path = "/tasks/2"]]
=============================================================================
