------------------------------- MODULE MCLogin -------------------------------
(* An instance of Login for TLC. *)
EXTENDS Login

CONSTANTS ip1, u1, ann, bob

\* An address of its own, and one that is the key of bob's lock.
Shared == <<"auth:lock:", bob>>
MCIps == {ip1, Shared}

MCRequests ==
  {[by |-> "login", key |-> ip1, login |-> ann],
   [by |-> "login", key |-> None, login |-> ann],
   [by |-> "login", key |-> Shared, login |-> bob],
   [by |-> "refresh", key |-> u1, login |-> None]}
=============================================================================
