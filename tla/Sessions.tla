----------------------------- MODULE Sessions -----------------------------
(***************************************************************************)
(* Logins and refresh-token rotation: internal/service/auth.go on the      *)
(* sessions table (internal/repository/session_repo.go), with the MySQL    *)
(* row lock of SELECT ... FOR UPDATE.                                      *)
(*                                                                         *)
(* A call is one execution of Login or Refresh.  A refresh parses the      *)
(* token and reads the clock, locks the token's row and checks it, writes  *)
(* in its transaction, and commits; the calls interleave between these     *)
(* steps and the clock advances meanwhile.  What a transaction has written *)
(* is invisible to others until it commits.                                *)
(***************************************************************************)
EXTENDS Integers, FiniteSets

CONSTANTS
  Users,       \* user ids
  Tokens,      \* refresh tokens (a uuid makes every token signed distinct)
  Calls,       \* executions of Login or Refresh
  Second,      \* a second in units of the clock, which are half milliseconds
  RefreshTTL,  \* cfg.JWT.RefreshTTL
  ClockSkew,   \* cfg.JWT.ClockSkew, the parser's leeway
  MaxTime,     \* bound on the clock
  None         \* no token, no claims, no row, nobody

ASSUME TimesAssumption ==
  /\ Second \in Nat \ {0} /\ Second % 2 = 0
  /\ RefreshTTL \in Nat /\ ClockSkew \in Nat /\ MaxTime \in Nat

VARIABLES
  now,        \* the clock
  users,      \* the users table
  claims,     \* what each token signed so far says: [user, exp]
  sessions,   \* committed rows of the sessions table, by token hash
  rowLock,    \* which call's transaction holds each row
  pc, token, at, fresh,  \* of each call: step, token presented, clock read, token made
  result,     \* what each call returned
  rotations,  \* history: committed rotations, as pairs <<old, new>>
  family      \* history: the login each committed row descends from

vars == <<now, users, claims, sessions, rowLock, pc, token, at, fresh, result,
          rotations, family>>

Claims == [user : Users, exp : Int]
Rows == [user : Users, expires : Nat, revoked : BOOLEAN]

ASSUME NoneAssumption ==
  None \notin Claims \cup Rows \cup Tokens \cup Calls \cup Users

\* A signed token is recognised until its exp claim plus the leeway.
Valid(t) == claims[t] # None /\ now < claims[t].exp + ClockSkew

\* A NumericDate is cut to whole seconds.
NumericDate(time) == time - (time % Second)

\* A DATETIME(3) is rounded to the nearest millisecond, a half upwards.
DateTime3(time) == time + (time % 2)

\* newToken: a token never signed before, with exp from the clock at signing.
Sign(t, u) ==
  /\ claims[t] = None
  /\ claims' = [claims EXCEPT ![t] = [user |-> u, exp |-> NumericDate(now + RefreshTTL)]]

Finish(c, r) ==
  /\ pc' = [pc EXCEPT ![c] = "done"]
  /\ result' = [result EXCEPT ![c] = r]

\* Commit and rollback release the rows the transaction locked.
Unlock(c) == rowLock' = [t \in Tokens |-> IF rowLock[t] = c THEN None ELSE rowLock[t]]

-----------------------------------------------------------------------------
Init ==
  /\ now = 0
  /\ users = {}
  /\ claims = [t \in Tokens |-> None]
  /\ sessions = [t \in Tokens |-> None]
  /\ rowLock = [t \in Tokens |-> None]
  /\ pc = [c \in Calls |-> "idle"]
  /\ token = [c \in Calls |-> None]
  /\ at = [c \in Calls |-> 0]
  /\ fresh = [c \in Calls |-> None]
  /\ result = [c \in Calls |-> "none"]
  /\ rotations = {}
  /\ family = [t \in Tokens |-> None]

\* Register: a new row of users; the unique keys refuse a second one.
Register(u) ==
  /\ u \notin users
  /\ users' = users \cup {u}
  /\ UNCHANGED <<now, claims, sessions, rowLock, pc, token, at, fresh, result,
                 rotations, family>>

\* Login with credentials that do not match, or when the lookup fails.
LoginRefused(c) ==
  /\ pc[c] = "idle"
  /\ Finish(c, "invalid")
  /\ UNCHANGED <<now, users, claims, sessions, rowLock, token, at, fresh,
                 rotations, family>>

\* Login with the right password, up to newTokenPair.
LoginSign(c, u, t) ==
  /\ pc[c] = "idle"
  /\ u \in users
  /\ Sign(t, u)
  /\ fresh' = [fresh EXCEPT ![c] = t]
  /\ pc' = [pc EXCEPT ![c] = "create"]
  /\ UNCHANGED <<now, users, sessions, rowLock, token, at, result, rotations, family>>

\* createSession inserts the row, with an expiry from the clock at this point.
CreateSession(c) ==
  /\ pc[c] = "create"
  /\ LET t == fresh[c]
     IN  /\ sessions' = [sessions EXCEPT ![t] =
               [user |-> claims[t].user, expires |-> DateTime3(now + RefreshTTL), revoked |-> FALSE]]
         /\ family' = [family EXCEPT ![t] = t]
  /\ \E r \in {"ok", "error"} : Finish(c, r)   \* the answer may get lost
  /\ UNCHANGED <<now, users, claims, rowLock, token, at, fresh, rotations>>

\* createSession fails; Login returns the error.
CreateSessionFails(c) ==
  /\ pc[c] = "create"
  /\ Finish(c, "error")
  /\ UNCHANGED <<now, users, claims, sessions, rowLock, token, at, fresh,
                 rotations, family>>

\* Refresh up to the transaction: parseToken, and the clock read that the
\* rest of the call uses.
Parse(c, t) ==
  /\ pc[c] = "idle"
  /\ claims[t] # None
  /\ token' = [token EXCEPT ![c] = t]
  /\ \/ /\ ~Valid(t)
        /\ Finish(c, "invalid")
        /\ UNCHANGED at
     \/ /\ Valid(t)
        /\ at' = [at EXCEPT ![c] = now]
        /\ pc' = [pc EXCEPT ![c] = "select"]
        /\ UNCHANGED result
  /\ UNCHANGED <<now, users, claims, sessions, rowLock, fresh, rotations, family>>

\* Mutant: a SELECT without FOR UPDATE does not wait for the row.
RowReadable(t) == TRUE

\* SELECT ... FOR UPDATE waits until no other transaction holds the row.
RowFree(t) == rowLock[t] = None

\* Mutant: the expiry of the row is not looked at, nor is its revocation.
RowExists(c, row) == row # None

\* The row may be exchanged by a call that read the clock at at[c].
Usable(c, row) == row # None /\ ~row.revoked /\ at[c] <= row.expires

\* GetByTokenHashForUpdate and the checks; a refusal rolls back.
SelectForUpdate(c) ==
  LET t == token[c]
      row == sessions[t]
  IN  /\ pc[c] = "select"
      /\ RowFree(t)
      /\ \/ /\ Usable(c, row)
            /\ rowLock' = [rowLock EXCEPT ![t] = c]
            /\ pc' = [pc EXCEPT ![c] = "write"]
            /\ UNCHANGED result
         \/ /\ ~Usable(c, row)
            /\ Finish(c, IF row # None /\ row.revoked THEN "reuse" ELSE "invalid")
            /\ UNCHANGED rowLock
      /\ UNCHANGED <<now, users, claims, sessions, token, at, fresh, rotations, family>>

\* newTokenPair, RevokeWithTx and CreateWithTx, inside the transaction.
Write(c, u) ==
  /\ pc[c] = "write"
  /\ Sign(u, claims[token[c]].user)
  /\ fresh' = [fresh EXCEPT ![c] = u]
  /\ pc' = [pc EXCEPT ![c] = "commit"]
  /\ UNCHANGED <<now, users, sessions, rowLock, token, at, result, rotations, family>>

\* Mutant: the new session's expiry is read from the clock at commit.
NewExpiryAtCommit(c) == DateTime3(now + RefreshTTL)

\* Mutant: the time to live is subtracted.
NewExpiryInThePast(c) == at[c] - RefreshTTL

NewExpiry(c) == DateTime3(at[c] + RefreshTTL)

\* The committed effect of the transaction.
Rotated(c) ==
  LET t == token[c]
      u == fresh[c]
  IN  /\ sessions' = [sessions EXCEPT
            ![t].revoked = TRUE,
            ![u] = [user |-> claims[t].user, expires |-> NewExpiry(c), revoked |-> FALSE]]
      /\ rotations' = rotations \cup {<<t, u>>}
      /\ family' = [family EXCEPT ![u] = family[t]]

\* Commit; its answer may get lost, and the new token with it.
Commit(c) ==
  /\ pc[c] = "commit"
  /\ Rotated(c)
  /\ Unlock(c)
  /\ \E r \in {"ok", "error"} : Finish(c, r)
  /\ UNCHANGED <<now, users, claims, token, at, fresh>>

\* Mutant: a rollback that keeps the row locked.
RollbackKeepsLock(c) ==
  /\ pc[c] \in {"select", "write", "commit"}
  /\ Finish(c, "error")
  /\ UNCHANGED <<now, users, claims, sessions, rowLock, token, at, fresh, rotations,
                 family>>

\* An error, the handler's 5 second limit, or the death of the process.
Rollback(c) ==
  /\ pc[c] \in {"select", "write", "commit"}
  /\ Unlock(c)
  /\ Finish(c, "error")
  /\ UNCHANGED <<now, users, claims, sessions, token, at, fresh, rotations, family>>

Tick ==
  /\ now < MaxTime
  /\ now' = now + 1
  /\ UNCHANGED <<users, claims, sessions, rowLock, pc, token, at, fresh, result,
                 rotations, family>>

Step(c) ==
  \/ CreateSession(c) \/ CreateSessionFails(c)
  \/ SelectForUpdate(c)
  \/ \E u \in Tokens : Write(c, u)
  \/ Commit(c) \/ Rollback(c)

\* Every call has returned.
Finished == (\A c \in Calls : pc[c] = "done") /\ UNCHANGED vars

Next ==
  \/ \E u \in Users : Register(u)
  \/ \E c \in Calls :
       \/ LoginRefused(c)
       \/ \E u \in Users, t \in Tokens : LoginSign(c, u, t)
       \/ \E t \in Tokens : Parse(c, t)
       \/ Step(c)
  \/ Tick
  \/ Finished

Spec == Init /\ [][Next]_vars

-----------------------------------------------------------------------------
(* Properties *)

\* Types of the tables, the calls and the history variables.
TypeOK ==
  /\ now \in 0..MaxTime
  /\ users \subseteq Users
  /\ claims \in [Tokens -> Claims \cup {None}]
  /\ sessions \in [Tokens -> Rows \cup {None}]
  /\ rowLock \in [Tokens -> Calls \cup {None}]
  /\ pc \in [Calls -> {"idle", "create", "select", "write", "commit", "done"}]
  /\ token \in [Calls -> Tokens \cup {None}]
  /\ at \in [Calls -> 0..MaxTime]
  /\ fresh \in [Calls -> Tokens \cup {None}]
  /\ result \in [Calls -> {"none", "ok", "invalid", "reuse", "error"}]
  /\ rotations \subseteq Tokens \X Tokens
  /\ family \in [Tokens -> Tokens \cup {None}]

Live(t) == sessions[t] # None /\ ~sessions[t].revoked

\* However many refreshes race for one token, at most one of them gets a new
\* pair (auth.go, lines 193-234: the row is locked before it is checked).
OneWinner ==
  \A c, d \in Calls :
    /\ token[c] # None /\ token[c] = token[d]
    /\ result[c] = "ok" /\ result[d] = "ok"
    => c = d

\* A login leaves at most one token that can be exchanged, however often and
\* by however many parties its tokens are refreshed.
OneLivePerLogin ==
  \A t, u \in Tokens :
    Live(t) /\ Live(u) /\ family[t] = family[u] => t = u

\* The row of a rotated token outlives the token by at most a second, although
\* the two times come from different clock readings (lines 188 and 285), one of
\* them cut to seconds and the other rounded to milliseconds: the second is
\* reached when the rounding carries, and the parser's leeway adds nothing.
RotatedWithinToken ==
  \A p \in rotations : sessions[p[2]].expires <= claims[p[2]].exp + Second

\* The sessions table under concurrent calls implements token rotation.
Rotation == INSTANCE TokenRotation WITH live <- {t \in Tokens : Live(t)}
RefinesRotation == Rotation!Spec

\* A row is locked only by a transaction under way on it: however a call ends,
\* it gives its row back, so no token is blocked by a refresh that failed.
NoLockLeftBehind ==
  \A t \in Tokens : rowLock[t] # None =>
    pc[rowLock[t]] \in {"write", "commit"} /\ token[rowLock[t]] = t
=============================================================================
