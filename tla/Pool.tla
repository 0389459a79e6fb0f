-------------------------------- MODULE Pool --------------------------------
(***************************************************************************)
(* The requests of the public server as users of the connection pool       *)
(* (internal/repository/db.go).  A transaction keeps its connection until  *)
(* it ends, and the updates and deletions of tasks ask the pool for a      *)
(* second one while they keep the first and a row lock: GetRole, and for a *)
(* patched assignee IsMember, use the pool and not the transaction.        *)
(*                                                                         *)
(* The other requests run a query, which takes a connection and gives it   *)
(* back in one step, or a transaction that needs nothing but its own       *)
(* connection, such as Refresh.  A statement that has a connection while   *)
(* it waits for a row, as the insert of a comment does for the row of its  *)
(* task, is such a transaction as well.  Every handler runs under a        *)
(* context of 5 seconds.                                                   *)
(***************************************************************************)
EXTENDS Integers, FiniteSets

CONSTANTS
  Requests,  \* the requests
  Kind,      \* what each request does: "task" or "other"
  Row,       \* the row each request's transaction locks
  MaxOpen,   \* MySQLConfig.MaxOpenConns
  NoOne      \* owner of a row that is not locked

ASSUME MaxOpenAssumption == MaxOpen \in Nat \ {0}
ASSUME KindAssumption == Kind \in [Requests -> {"task", "other"}]
ASSUME RequestsAssumption == IsFiniteSet(Requests) /\ NoOne \notin Requests

VARIABLES
  at,     \* where each request is
  owner,  \* the request whose transaction has locked a row
  db      \* sql.DB: not there yet, open, or closed

Rows == {Row[r] : r \in Requests}

Active == {r \in Requests : at[r] \in {"begin", "select", "second", "write"}}

\* Each transaction holds one connection from BeginTxx to its end.
Held == {r \in Requests : at[r] \in {"select", "second", "write"}}

\* Mutant: one connection too many.
ConnectionFreeLate == db = "open" /\ Cardinality(Held) <= MaxOpen

\* The pool has a connection to give.
ConnectionFree == db = "open" /\ Cardinality(Held) < MaxOpen

RowFree(r) == owner[Row[r]] = NoOne

PoolInit ==
  /\ at = [r \in Requests |-> "idle"]
  /\ owner = [x \in Rows |-> NoOne]
  /\ db = "none"

\* Mutant: a transaction abandoned without a rollback.
RowsKept(rs) == owner

\* The row locks once the transactions of rs have ended.
RowsReleased(rs) == [x \in Rows |-> IF owner[x] \in rs THEN NoOne ELSE owner[x]]

\* The request returns; its transaction, if it has one, ends.
End(r) ==
  /\ at' = [at EXCEPT ![r] = "ended"]
  /\ owner' = RowsReleased({r})

\* A handler that needs no transaction and waits for no row runs its query.
Query(r) ==
  /\ at[r] = "begin" /\ Kind[r] = "other"
  /\ ConnectionFree
  /\ End(r)

\* BeginTxx.
Begin(r) ==
  /\ at[r] = "begin"
  /\ ConnectionFree
  /\ at' = [at EXCEPT ![r] = "select"]
  /\ UNCHANGED owner

\* GetByIDForUpdateTx, GetByTokenHashForUpdate, or the check of a foreign key:
\* the row is locked, or there is no such row and the transaction is rolled back.
Select(r) ==
  /\ at[r] = "select"
  /\ RowFree(r)
  /\ \/ /\ at' = [at EXCEPT ![r] = IF Kind[r] = "task" THEN "second" ELSE "write"]
        /\ owner' = [owner EXCEPT ![Row[r]] = r]
     \/ End(r)

\* GetRole, on a connection of its own; without the right role the deferred
\* Rollback ends the transaction.
GetRole(r) ==
  /\ at[r] = "second"
  /\ ConnectionFree
  /\ \/ at' = [at EXCEPT ![r] = "write"] /\ UNCHANGED owner
     \/ End(r)

\* The writes and Commit, or Rollback after one that failed.
Commit(r) == at[r] = "write" /\ End(r)

\* A closed sql.DB gives no connection; a transaction keeps the one it has.
DatabaseClosed(r) ==
  /\ db = "closed"
  /\ at[r] \in {"begin", "second"}
  /\ End(r)

\* Mutant: a handler that waits as long as it takes.
NeverTimesOut(r) == FALSE /\ UNCHANGED <<at, owner>>

\* The 5 seconds of the request's context end, or its client has gone: waiting
\* for a connection ends with an error, and database/sql rolls back.
TimesOut(r) == r \in Active /\ End(r)

RequestStep(r) ==
  \/ Query(r) \/ Begin(r) \/ Select(r) \/ GetRole(r) \/ Commit(r)
  \/ DatabaseClosed(r) \/ TimesOut(r)

\* r need not wait for another request or for its time limit.
CanGoOn(r) ==
  \/ at[r] \in {"begin", "second"} /\ (ConnectionFree \/ db = "closed")
  \/ at[r] = "select" /\ RowFree(r)
  \/ at[r] = "write"
=============================================================================
