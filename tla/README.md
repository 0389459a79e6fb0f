# A TLA+ model of MKK Luna

MKK Luna is a team task service: HTTP handlers over services over MySQL, with
Redis for locks, idempotency, caches and limits. These modules model the parts
where requests meet each other, where something can fail half way, or where a
check is followed by an action on what was checked.

## Inventory

| Part | State | Operations | Interacts with | What makes it correct |
|---|---|---|---|---|
| Redis lock (`internal/infra/redislock`) | a key per lock holding a token, with a TTL | Acquire, Release | idempotency, invitations | only the holder or the TTL ends a lock |
| Idempotency middleware and store (`internal/api/middleware/idempotency.go`, `internal/infra/idempotency`) | stored responses and locks in Redis | one handler around every mutating route | every write handler | a retry is not carried out again, a replay is the response to the same operation |
| Sessions (`internal/service/auth.go`, `session_repo.go`) | table `sessions` | Register, Login, Refresh | MySQL row locks, clock | a refresh token is exchanged at most once |
| Tasks (`internal/service/task.go` and its repositories) | tables `tasks`, `task_history`, `task_comments` | create, update and delete of tasks and comments | teams, row locks, foreign keys | the history accounts for the task; roles are respected; assignees are members |
| Teams (`internal/service/team.go`) | table `team_members` | CreateTeam, InviteByEmail | Redis lock, mail | roles are granted by right and never change |
| Task list cache (`internal/infra/cache/task_cache.go`) | version counters and lists in Redis | GetList, SetList, InvalidateTeam | list and write handlers | no outdated list after a write, or not for long |
| Mail and circuit breaker (`internal/infra/email`) | breaker counts | SendInvite | invitations | not called while open |
| Login lockout (`internal/infra/auth/lockout.go`) | counters and locks in Redis | IsLocked, OnFailure, OnSuccess | login handler | enough failures lock, for a bounded time |
| Rate limits (`internal/infra/ratelimit`) | window counters, in Redis or in memory | Allow | login and refresh handlers, middleware, keys of the lockout | at most the limit per window, and windows end |
| JWT blacklist (`internal/infra/auth/blacklist.go`) | revoked token ids in Redis | IsRevoked, Revoke (never called) | auth middleware | a revoked token is refused |
| Statistics (`internal/service/stats.go`, `stats_cache.go`) | cached query results | two cached queries, an integrity query | MySQL | an answer is for the endpoint, user and window asked for |
| Start and shutdown (`internal/application`, `pkg/nethttp/runner`, `cmd/api`) | two servers with two goroutines each, an error channel, wait groups | Start, Wait | all of it | what was accepted is served, failures show, the process ends |
| Connection pool (`internal/repository/db.go`) | at most MaxOpenConns connections | used by every query | transactions that query outside themselves | requests do not block each other for good |

Hard to test are the gap between looking for a stored response and taking the
lock, locks that run out under a slow handler, Redis commands whose failure is
reported although they ran, clients that leave, processes that die between a
commit and what follows it, refreshes racing for one token, updates racing for
one task, checks that are stale when their write is made, lists that are stored
after the write that outdates them, transactions that wait for one another's
connections, and goroutines that wait for one another at the end of the process.
`PROJECT.json` lists them by line.

## Modules

| Module | Models |
|---|---|
| `RedisLock` | Acquire (SETNX), the release script and expiry, as operators on the map of keys |
| `Idempotency`, `MCIdempotency` | requests going through the middleware; uses `RedisLock` |
| `TokenRotation` | what rotation promises: issue, exchange once, spent |
| `Sessions`, `MCSessions` | Register, Login and Refresh on the table; implements `TokenRotation` |
| `Tasks`, `MCTasks` | tasks, history and comments |
| `Teams`, `MCTeams` | teams and invitations; uses `RedisLock` |
| `TaskCache` | the list cache between list and write requests |
| `Login`, `MCLogin` | the login handler with the rate limit and the lockout in front of it, and the rate limit of refreshes, in one Redis |
| `Pool` | requests that use the connection pool and lock rows |
| `Lifecycle`, `MCLifecycle` | start, serving and shutdown of the process; composes main, the servers and `Pool` |
| `Stats`, `MCStats` | the statistics queries and their cache, while the data change |
| `IdempotencyProofs`, `SessionsProofs`, `TasksProofs`, `TeamsProofs`, `TaskCacheProofs`, `LoginProofs`, `LifecycleProofs`, `StatsProofs` | the theorems about the module named |

**Idempotency.** A request has a program counter that stands between two calls of
`Handler`: `get` (store.Get), `acquire` (locker.Acquire), `exec` (the wrapped
handler), `store` (store.Set), `release` (the deferred Release), and `bypass` for
a request that runs unprotected. The wrapped handler is one step that ends with
any of the statuses; with 500 the operation may or may not have been carried out.
SHA-256 is taken to be free of collisions. `Faults` selects what may go wrong: a
Redis command fails before or after it ran, or go-redis sends it again after it
ran (a SETNX then finds the request's own token), the client leaves (its context
is cancelled, or its body breaks off, `ReadFails`), a TTL runs out, the process
dies. `executed`, `expired`, `late` and `disturbed` are history variables that no
guard reads; `disturbed` has the keys for which a Redis call has failed or a
response has run out.

**Sessions.** A refresh parses its token and reads the clock, waits for the
token's row (`SELECT ... FOR UPDATE`), writes in its transaction and commits;
every point before the commit may roll back, and the answer to a commit may get
lost. The clock advances between any two steps and counts half milliseconds, so
that rounding shows; a second is an even number of them. Expiry claims are cut to
whole seconds (`NumericDate`), the column `expires_at` is rounded to milliseconds
(`DateTime3`), and the parser allows a leeway.

**Tasks.** A caller runs one operation after the other. The values a caller has
read are in `call`; the writes of a transaction show when it commits. Two fields
stand for the six of a task: `title` for those that only owners and admins may
change, `assignee_id` for those any member may. A comment's insert checks the
foreign key, which waits for a transaction that holds the task's row. The history
is kept per field, as deleting a task deletes its history and comments. The
integrity query of the statistics, `FindTasksWithAssigneeNotMember`, is the
property `AssigneeIsMember`: it finds nothing.

**Teams.** An invitation checks the inviter's role, takes the lock or goes on
without it if Redis fails, checks membership, sends the mail, inserts the row and
releases. Mail and insert may fail with or without having taken effect, and a
SETNX that is sent twice finds its own key.

**TaskCache.** The database is its revision. A list is a total and rows, each with
the revision it was read from, since COUNT and SELECT are two statements without a
transaction (`CountTasks`, `SelectTasks`). `getVersion` runs twice in a list
request, once to look and once to store. A write may commit and be reported as
failed, and then comes to no INCR; so does one that a crash ends after its commit.
An INCR may run more often than once in a call. `spoiled` is history: since the
last INCR that found no list on its way, something has happened after which the
present version may keep an outdated list.

**Login.** A worker takes a request through the limiter (`limit`, `limit_expire`),
the lockout check (`gate`), the service's password check (`auth`) and OnFailure
(`failure`, `failure_expire`, `lock`) or OnSuccess (`success`); a refresh ends at
its limiter. Limiters and lockout count in one Redis, in one map `redis`: the
limiters under the bare address and the bare user id, the lockout under
`Fail(login)` and `Lock(login)`. The address is what a header says, so a key may
have two uses, and nothing is assumed of addresses, user ids and lockout keys being
different; a request without an address is not limited. Counting is an INCR, which
go-redis may send up to `Tries` times, and then an EXPIRE by the one who got 1.
There is no clock: a key with a TTL ends at some time. Failures of the database
count as wrong passwords, as they do in the service. `bypass`, `passed`,
`windows`, `late`, `wrong` and `lost` are history: `passed` and `windows` count,
without ever being set back, the requests let through and the windows that are
over, and `lost` has the keys whose EXPIRE never ran. Properties of a limit or a
login are about those whose keys have no other use (`OwnSlots`, `OwnLogins`); for a
key with two uses the code has nothing to promise. Addresses are taken to differ
from the keys of caches, locks and stored responses, and Redis to evict nothing.

**Pool and Lifecycle.** A request stands before one of its calls: `begin`
(BeginTxx or its only query), `select` (SELECT ... FOR UPDATE), `second` (GetRole
or IsMember, which ask the pool again while the transaction keeps its connection)
and `write` (up to Commit). A statement that waits for a row with its connection
in hand, such as the insert of a comment, which waits for its task's, goes
through `begin`, `select` and `write` as a transaction that asks for no second
connection. `main` follows Start and Wait, `serve` and `stop` are the two
goroutines of each server, `reader` is the goroutine that empties `errChan`. A
send on the channel without a buffer and its receipt are one step, `Receive`; a
goroutine that is sending waits until then. `caught` tells whether signals still
go to the context: the reader's `cancel` is main's `stop`, after which any
signal, the first one too, ends the process. `failed` and `drainCut` are history.

**Stats.** `TeamDoneStats` and `TopCreators` are the two SQL queries, with the
half-open window, the ranking by count and id, and the limit. Tasks are created,
updated in whatever field (which moves `updated_at`) and deleted, and members join
while requests run. Times are parts of a day,
`dayKey` keeps the day. An entry and an answer carry the database they were read
from (`seen`), which only properties look at.

## Runs

| Run | Instance | Shows |
|---|---|---|
| `idem_faults` | 3 requests (a retry and a reuse of the key), all faults | locks end only by holder or TTL, and do end; replays are faithful; an answered operation runs again only after a failure or an expiry for its key |
| `idem_race` | 2 requests, no fault | **violated**: two parallel requests both run |
| `idem_client_gone` | 2 requests, clients may leave | **violated**: a lost client's retry runs again |
| `idem_two_resources` | 2 requests for two tasks | **violated**: the second is answered as the first |
| `sessions` | 4 calls, 4 tokens, clock 0..4 with 4 units a second | exchange at most once; a rotated session outlives its token by a second at most; `RefinesRotation` |
| `tasks` | 2 callers, 2 users, 1 task, 1 comment, 2 history entries per field | complete history, authority, assignees, comments |
| `teams` | 3 users, 2 invitations, all faults | roles granted by right, never changed; no second mail under live locks |
| `login` | 2 workers, 3 requests of a login with its own keys, one without an address, one whose address is the key of another login's lock, and a refresh; limits 1, 2 attempts, commands sent at most twice, all faults | windows account for what passes; a lock needs its failures and stops later checks; a key without a TTL is about to get one |
| `cache` | 2 lists, 2 writes, all faults | outdated lists need an overlap, a failure, a lost commit answer or a crash since the last INCR, and end |
| `cache_race` | 2 lists, 1 write, no fault | **violated**: an answered write is not in a later list |
| `lifecycle` | 2 servers, 3 requests (two updates of one task, and a comment on it or a query), 2 connections | requests are served to the end, failures show in the exit status, the process ends; all wait only for a second connection, and not for ever |
| `stats_window` | 2 requests for parts of one day, 1 team, 2 users, 1 task | **violated**: one window is answered with another one's counts |

The five violations are findings in `PROJECT.json`: the look-up is not repeated
under the lock (idempotency.go:129), the response is stored with the request's
context (169), the hash holds the route's pattern instead of its path (96),
SetList reads the version after the list (task_cache.go:55), and the statistics
are queried by time but cached by day (stats_cache.go:97).

**Bounds.** The lock hazards need a holder whose lock ran out, its successor and
a third request for which the successor's lock could be lost: three requests. A
rotation race needs one login and two refreshes; the fourth call presents a spent
token or rotates again. The clock reaches past a session's expiry within the
leeway. Two history entries per field show a gap in a chain. Three users are an
owner, an admin and someone the admin invites. Two failures and one more
attempt, two at a time, show a lock that does not hold and a counter that outlives
a success; one login has keys of its own, and one a lock that is an address, too.
A command that is sent twice is one that is sent more than once. The windows of
both limits and of their fallbacks begin, fill and end. Two versions after the
first let a list be stored under the wrong one. Two connections let one update
hold the row and another one the last connection, so that each waits for the
other; the third request waits for the row as well, or for a connection only. Both
servers are there or only the public one. A day of three parts has two windows
that begin alike. A second of four units has a reading that the column rounds up
to the next second. Symmetry is used only where no liveness property is checked.

**Fairness.** `Idempotency` assumes that a request that has arrived goes on
(net/http runs it in a goroutine, Redis calls have timeouts) unless it crashes,
and that Redis enforces TTLs. `TaskCache` assumes the same; handlers have a limit
of 5 seconds. `Lifecycle` assumes that main and the goroutines run and that the
context of a request ends in the end, which is the 5 seconds of its handler; it
assumes no signal, no failure, no arrival and not even that `shutdownTimeout`
ends. Nothing assumes that clients send requests or that writes happen.
`Sessions`, `Tasks`, `Teams`, `Login` and `Stats` check safety only.

## Proofs

TLAPS proves, for any number of requests, calls, users and tokens and any times,
every invariant that a passing run checks, and the action property and the
refinement. TLC also finds the inductive invariants of `Tasks`, `Teams`,
`TaskCache` and `Login` to hold on the constants of their runs.

- `IdempotencyProofs`: `TypeCorrect`; `LockTheorem`; `ReplayTheorem`;
  `RetryTheorem`, under every combination of faults. Replays rest on two
  invariants: what is stored was answered by a handler to a request with that key
  and hash, and an answer is never taken back. Retries rest on a chain, for keys
  that are not in `disturbed`: an operation is executed only with a status that is
  stored, it is stored before its request is done, and from then on every request
  with the key that arrives stops at the look-up.
- `SessionsProofs`: `TypeCorrect`, `OneWinnerTheorem`, `OneLiveTheorem`,
  `WithinTheorem`, `NoLockTheorem` and `RotationTheorem` (the refinement). None of
  them is inductive alone. The invariant adds that a transaction past its checks
  holds its row and the row is still exchangeable (so the check is not stale), that
  a signed token not stored yet belongs to one call, that rows descend from a
  login, and that exchanged tokens are revoked. `WithinTheorem` adds up the two
  conversions: the claim loses less than a second, the column gains half a
  millisecond at most, and as a second is a whole number of milliseconds the
  difference is at most a second and can be one.
- `TasksProofs`: `TypeTheorem`, `ChainTheorem`, `AuthorityTheorem`,
  `AssigneeTheorem`, `OrphanTheorem` and `CommentTheorem`, for any callers, teams,
  tasks, comments and values. The five properties are one inductive invariant,
  `Safety`, with what lies between a check and its write: a transaction holds its
  row and the row is as it read it (`LockInv`, so the entries it computed continue
  the history); an id is used once (`CreatedInv`); the role and the assignee that
  were checked still are what they were (`CheckedInv`, since members only join);
  and whoever is about to change a comment may, or the comment is gone (`EditInv`).
- `TeamsProofs`: `TypeTheorem`, `RoleTheorem` (the action property),
  `GrantedTheorem`, `SuccessTheorem` and `MailTheorem`, for any teams, users and
  invitations and every fault. Roles rest on the primary key alone: a role once in
  the table stays (`RolesKept`), so an inviter still has the role that was checked
  (`InviterInv`) and a success has put its own role there (`ResultInv`). Only mails
  need the lock: an invitation that has not lost it to the TTL still has its key
  (`HolderInv`), and past the membership check it is alone with it (`AloneInv`).
- `TaskCacheProofs`: `TypeTheorem` and `FreshTheorem`, for any readers and writers
  and every fault. The bound on versions needs counting: the revision is the number
  of writers that committed, and the version at most one more than `Tries` for each
  that ended (`CountInv`). Freshness is inductive once it speaks of the lists in
  hand too. No version above the counter is in use (`VersionInv`), and as long as
  nothing has spoiled it, the first one is not used without a counter
  (`UnusedInv`), and a list of which a part is outdated, be it cached or about to
  be under the present version, has a write pending that will leave that version
  behind (`OutdatedInv`, `ReadyInv`, `CachedInv`).
- `LoginProofs`: `TypeTheorem`, `LimitTheorem`, `DueTheorem`, `LateTheorem` and
  `ReasonTheorem`, for any workers, addresses, users, logins and limits, with keys
  of two uses, failing and repeated commands and crashes. The last two count
  workers. Who was let through is accounted for by the windows that are over, the
  present counter up to the limit, and the fallback's (`LimitInv`). That a key
  without a TTL has a request to give it one (`TTLDue`) is inductive with the types
  and `ReqInv`, which says what kind of request stands where. While a login is
  locked, the checks that came late, those still to come and the worker that set
  the lock are at most all workers (`LateInv`); the failure counter and `Tries` for
  each failure not counted yet are at most `Tries` for each failure since the last
  success (`WrongInv`).
- `LifecycleProofs`: `ServedTheorem`, `ExitTheorem`, `TypeTheorem` and
  `StuckTheorem`, for any finite set of requests and any pool. The invariant says
  which goroutines there are at each point of Start and Wait; that no request is
  in flight once Shutdown has returned, unless it gave up; that `errwg` and `exit`
  are reached only with all goroutines done; and that a failure is being sent,
  being handled or in `appErr`. For the pool it adds that a locked row belongs to
  a transaction past its SELECT. So a request that waits for a row waits for one
  that waits for a connection, and if none is free one of them is held by such a
  transaction: that is `StuckTheorem`.
- `StatsProofs`: `SameDaysTheorem`: whatever shares the statistics cache, an
  answer was computed for the same endpoint, user, limit and days. With
  `stats_window` it tells exactly what the cache's keys mix up.

Assumptions on constants are named in the modules: special values differ from
ordinary ones, times are natural numbers, a second is not empty and an even number
of units, statuses are the four ways a handler can leave the database, limits are
positive, a command is sent at least once, requests, writers and workers are
finite, there is at least one worker, no request both lists and writes, a login
comes from an address and a refresh from a user, and a pool has at least one
connection. TLC evaluates all of them in the runs.

Model-checked only: liveness (`LockEventuallyFree`, `StaleEventuallyGone`,
`EndsInTheEnd`, `StuckEnds`), which is out of the prover's reach, and
the five runs that refute what a comment or a document says, each by one
behaviour.

## Not modelled

Response encoding, validation of strings, metrics, logging, configuration and
routing have no state that the properties tell apart. The variants of task
operations without a transaction are never reached, since the application always
passes a database. Access tokens and the JWT blacklist are not modelled: nothing
revokes a token, as the application never calls `Revoke`. The states of the
circuit breaker are those of a library; what an invitation sees of them, a mail
that is refused, is among the outcomes in `Teams`. The limit on users is the
limiter of `Login` under keys with a prefix of their own; the clock, the epoch in a
user's key and the time named to a refused caller are left out. Some things can go
wrong for which the code has no remedy, and so there is no property: a counter
whose EXPIRE fails or whose first INCR is sent twice stays until it is deleted, a
crash between a commit and the store of its response lets a retry run, a mail may
announce a membership whose insert fails, and requests are cut off when the metrics
server cannot listen. The models have these steps, and `PROJECT.json` lists them
among the hazards. A MaxOpenConns of
0, no limit at all, has no pool to run dry. Removing a member, a team or a user is
not an operation of the service.

## Plan

1. Theorems on what the code promises where a run refutes the stronger promise:
   under which faults an idempotent operation does run once, and which entries the
   statistics cache gives to another window.
2. Lemmas on the operators of `RedisLock`, which `IdempotencyProofs` and
   `TeamsProofs` now expand each for itself.
3. The clock in the rate limits, with the boundary between two windows and the
   user's key by epoch.
