--------------------------- MODULE TokenRotation ---------------------------
(***************************************************************************)
(* What refresh-token rotation promises, with no transactions, locks or    *)
(* clocks: a token is issued by a login or as the successor of another     *)
(* token, it is exchanged at most once, and it is spent from then on.      *)
(***************************************************************************)
CONSTANT Tokens

VARIABLES live,      \* tokens that can still be exchanged
          rotations  \* pairs <<t, u>>: t was exchanged for u

rotationVars == <<live, rotations>>

spent == {p[1] : p \in rotations}

Init == live = {} /\ rotations = {}

\* A login.
Issue(t) ==
  /\ t \notin live \cup spent
  /\ live' = live \cup {t}
  /\ UNCHANGED rotations

\* A refresh.
Rotate(t, u) ==
  /\ t \in live
  /\ u \notin live \cup spent
  /\ live' = (live \ {t}) \cup {u}
  /\ rotations' = rotations \cup {<<t, u>>}

Next ==
  \/ \E t \in Tokens : Issue(t)
  \/ \E t, u \in Tokens : Rotate(t, u)

Spec == Init /\ [][Next]_rotationVars
=============================================================================
