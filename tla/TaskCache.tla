----------------------------- MODULE TaskCache -----------------------------
(***************************************************************************)
(* The cache of task lists: internal/infra/cache/task_cache.go as the list *)
(* and the write handlers of internal/api/tasks.go use it.                 *)
(*                                                                         *)
(* A list is cached under its team's version, a counter in Redis that      *)
(* every write increments after its commit.  The module follows one team   *)
(* and one set of filters, since neither shares a key with another.  What  *)
(* the database holds is its revision, the number of writes committed.  A  *)
(* list is a total and rows, which two queries read one after the other,   *)
(* each at a revision.  Every Redis command and query is a step.           *)
(*   "redis"   a Redis command fails, before or after Redis ran it, or the *)
(*             client library sends it again after Redis ran it            *)
(*   "commit"  the answer to a commit is lost, or comes too late           *)
(*   "crash"   the process dies and is started again                       *)
(***************************************************************************)
EXTENDS Naturals, FiniteSets

CONSTANTS
  Readers,   \* list requests
  Writers,   \* creates, updates and deletes
  Tries,     \* how often go-redis sends a command, at most
  Faults,    \* the faults that may happen
  None       \* a key that does not exist in Redis; no list

ASSUME CacheAssumption ==
  /\ Faults \subseteq {"redis", "commit", "crash"}
  /\ IsFiniteSet(Writers) /\ Readers \cap Writers = {}
  /\ Tries \in Nat \ {0}

MaxRev == Cardinality(Writers)
Revs == 0..MaxRev
Lists == [total : Revs, rows : Revs]
Versions == 1..(MaxRev * Tries + 1)

ASSUME CacheNoneAssumption == None \notin Nat \cup Lists

VARIABLES
  rev,      \* the database
  ver,      \* versionKey
  cache,    \* cacheKey of each version
  pc,       \* where each request is
  total, rows,  \* of each reader: the revisions its two queries have seen
  at,       \* of each reader: the version it has read
  made,     \* of each writer: the revision it has made
  answer,   \* the list each reader was sent
  since,    \* history: the newest write answered when each reader started
  acked,    \* history: the newest write answered
  spoiled   \* history: since a version was started, something outdated its lists

vars == <<rev, ver, cache, pc, total, rows, at, made, answer, since, acked, spoiled>>
redisVars == <<ver, cache>>
readerVars == <<total, rows, at, answer, since>>

Goto(c, from, to) == pc[c] = from /\ pc' = [pc EXCEPT ![c] = to]

-----------------------------------------------------------------------------
Init ==
  /\ rev = 0
  /\ ver = None
  /\ cache = [v \in Versions |-> None]
  /\ pc = [c \in Readers \cup Writers |-> IF c \in Readers THEN "start" ELSE "write"]
  /\ total = [c \in Readers |-> None]
  /\ rows = [c \in Readers |-> None]
  /\ at = [c \in Readers |-> None]
  /\ made = [w \in Writers |-> None]
  /\ answer = [c \in Readers |-> None]
  /\ since = [c \in Readers |-> 0]
  /\ acked = 0
  /\ spoiled = FALSE

\* The handler starts, and has checked that the caller is a member.
Start(c) ==
  /\ Goto(c, "start", "version")
  /\ since' = [since EXCEPT ![c] = acked]
  /\ UNCHANGED <<rev, redisVars, total, rows, at, made, answer, acked, spoiled>>

\* getVersion, in GetList ("version") and again in SetList ("set_version"):
\* the version, or 1 after a SETNX when there is none yet.
getVersion(c, from, setnx, to) ==
  /\ \/ /\ ver # None
        /\ Goto(c, from, to)
        /\ at' = [at EXCEPT ![c] = ver]
     \/ /\ ver = None
        /\ Goto(c, from, setnx)
        /\ UNCHANGED at
  /\ UNCHANGED <<rev, redisVars, total, rows, made, answer, since, acked, spoiled>>

\* Mutant: counting starts with 0.
VersionZero == 0

FirstVersion == 1

\* The SETNX of getVersion, whose outcome is ignored: if Redis did not run it,
\* version 1 is used without a counter.
SetNX(c, from, to) ==
  /\ Goto(c, from, to)
  /\ at' = [at EXCEPT ![c] = FirstVersion]
  /\ \/ ver' = (IF ver = None THEN FirstVersion ELSE ver) /\ UNCHANGED spoiled
     \/ "redis" \in Faults /\ ver = None /\ UNCHANGED ver /\ spoiled' = TRUE
  /\ UNCHANGED <<rev, cache, total, rows, made, answer, since, acked>>

\* getVersion fails: GetList reports an error, SetList gives up.
VersionFails(c) ==
  /\ "redis" \in Faults
  /\ Goto(c, "version", "count") \/ Goto(c, "set_version", "done")
  /\ UNCHANGED <<rev, redisVars, readerVars, made, acked, spoiled>>

\* The GET of GetList: a hit is the answer.
GetList(c) ==
  /\ pc[c] = "get"
  /\ \/ /\ cache[at[c]] # None
        /\ Goto(c, "get", "done")
        /\ answer' = [answer EXCEPT ![c] = cache[at[c]]]
     \/ /\ cache[at[c]] = None
        /\ Goto(c, "get", "count")
        /\ UNCHANGED answer
  /\ UNCHANGED <<rev, redisVars, total, rows, at, made, since, acked, spoiled>>

\* The GET of GetList fails: the list comes from the database.
GetListFails(c) ==
  /\ "redis" \in Faults
  /\ Goto(c, "get", "count")
  /\ UNCHANGED <<rev, redisVars, readerVars, made, acked, spoiled>>

\* tasks.ListTasks up to the COUNT.
CountTasks(c) ==
  /\ Goto(c, "count", "select")
  /\ total' = [total EXCEPT ![c] = rev]
  /\ UNCHANGED <<rev, redisVars, rows, at, made, answer, since, acked, spoiled>>

\* The SELECT, in no transaction with the COUNT.
SelectTasks(c) ==
  /\ Goto(c, "select", "set_version")
  /\ rows' = [rows EXCEPT ![c] = rev]
  /\ answer' = [answer EXCEPT ![c] = [total |-> total[c], rows |-> rev]]
  /\ UNCHANGED <<rev, redisVars, total, at, made, since, acked, spoiled>>

\* One of the two fails, and the request ends with an error.
ListTasksFails(c) ==
  /\ Goto(c, "count", "done") \/ Goto(c, "select", "done")
  /\ UNCHANGED <<rev, redisVars, readerVars, made, acked, spoiled>>

\* The SET of SetList; a failure is ignored, whether Redis ran it or not.
SetList(c) ==
  /\ Goto(c, "set", "done")
  /\ \/ cache' = [cache EXCEPT ![at[c]] = [total |-> total[c], rows |-> rows[c]]]
     \/ "redis" \in Faults /\ UNCHANGED cache
  /\ UNCHANGED <<rev, ver, readerVars, made, acked, spoiled>>

\* A create, update or delete commits.  A handler that is not told so answers
\* with an error, and does not come to InvalidateTeam.
Write(c) ==
  /\ \/ Goto(c, "write", "invalidate") /\ UNCHANGED spoiled
     \/ "commit" \in Faults /\ Goto(c, "write", "done") /\ spoiled' = TRUE
  /\ rev' = rev + 1
  /\ made' = [made EXCEPT ![c] = rev + 1]
  /\ UNCHANGED <<redisVars, readerVars, acked>>

\* It does not commit.
WriteFails(c) ==
  /\ Goto(c, "write", "done")
  /\ UNCHANGED <<rev, redisVars, readerVars, made, acked, spoiled>>

\* A list that is older than the database in either part has yet to learn the
\* version it is stored under.
Overlapped ==
  \E c \in Readers : pc[c] \in {"select", "set_version", "set_nx"} /\ total[c] < rev

\* Mutant: a counter that is there is not incremented.
KeptVersion(v, n) == IF v = None THEN n ELSE v

\* An INCR that Redis runs n times; it makes a missing counter 1.
Incr(v, n) == IF v = None THEN n ELSE v + n

\* InvalidateTeam, whose failure is ignored, and the handler's answer.  Redis
\* ran the INCR n times.  A new version has no lists, unless it is the first:
\* that one may be in use without a counter.
InvalidateTeam(c) ==
  /\ Goto(c, "invalidate", "done")
  /\ acked' = IF made[c] > acked THEN made[c] ELSE acked
  /\ \E n \in IF "redis" \in Faults THEN 0..Tries ELSE {1} :
       /\ ver' = IF n = 0 THEN ver ELSE Incr(ver, n)
       /\ spoiled' = (n = 0 \/ Overlapped \/ (spoiled /\ ver' = FirstVersion))
  /\ UNCHANGED <<rev, cache, readerVars, made>>

\* Mutant: entries without a TTL.
EntryNeverExpires(v) == FALSE /\ UNCHANGED vars

\* The TTL of a cached list runs out.
EntryExpires(v) ==
  /\ cache[v] # None
  /\ cache' = [cache EXCEPT ![v] = None]
  /\ UNCHANGED <<rev, ver, pc, readerVars, made, acked, spoiled>>

\* The process dies with the requests it serves.
Serving == {c \in Readers \cup Writers : pc[c] \notin {"start", "write", "done"}}
Crash ==
  /\ "crash" \in Faults /\ Serving # {}
  /\ pc' = [c \in Readers \cup Writers |-> IF c \in Serving THEN "done" ELSE pc[c]]
  /\ spoiled' = (spoiled \/ \E c \in Writers : pc[c] = "invalidate")
  /\ UNCHANGED <<rev, redisVars, readerVars, made, acked>>

ReaderStep(c) ==
  \/ getVersion(c, "version", "nx", "get") \/ SetNX(c, "nx", "get")
  \/ GetList(c) \/ GetListFails(c) \/ VersionFails(c)
  \/ CountTasks(c) \/ SelectTasks(c) \/ ListTasksFails(c)
  \/ getVersion(c, "set_version", "set_nx", "set") \/ SetNX(c, "set_nx", "set")
  \/ SetList(c)

\* No request is left.
Finished == (\A c \in Readers \cup Writers : pc[c] = "done") /\ UNCHANGED vars

Next ==
  \/ \E c \in Readers : Start(c) \/ ReaderStep(c)
  \/ \E c \in Writers : Write(c) \/ WriteFails(c) \/ InvalidateTeam(c)
  \/ \E v \in Versions : EntryExpires(v)
  \/ Crash
  \/ Finished

\* A request under way ends (its context has 5 seconds), and Redis enforces TTLs.
Fairness ==
  /\ \A c \in Readers : WF_vars(ReaderStep(c))
  /\ \A c \in Writers : WF_vars(InvalidateTeam(c))
  /\ \A v \in Versions : WF_vars(EntryExpires(v))

Spec == Init /\ [][Next]_vars /\ Fairness

-----------------------------------------------------------------------------
(* Properties *)

\* Types of the keys in Redis and of the requests.
TypeOK ==
  /\ rev \in Revs
  /\ ver \in Versions \cup {None}
  /\ cache \in [Versions -> Lists \cup {None}]
  /\ pc \in [Readers \cup Writers -> {"start", "version", "nx", "get", "count", "select",
               "set_version", "set_nx", "set", "write", "invalidate", "done"}]
  /\ total \in [Readers -> Revs \cup {None}]
  /\ rows \in [Readers -> Revs \cup {None}]
  /\ at \in [Readers -> Versions \cup {None}]
  /\ made \in [Writers -> Revs \cup {None}]
  /\ answer \in [Readers -> Lists \cup {None}]
  /\ since \in [Readers -> Revs]
  /\ acked \in Revs
  /\ spoiled \in BOOLEAN

\* The list that a request would be sent now, and the one it should be sent.
Cached == IF ver = None THEN cache[1] ELSE cache[ver]
Present == [total |-> rev, rows |-> rev]

\* An INCR that Redis runs mends the cache for good: unless a list was between
\* its first query and its read of the version at that moment, or since then
\* Redis has not run a SETNX or INCR, or a write has committed that came to no
\* INCR (a crash, a commit whose answer was lost), the cache holds the present
\* list or none as soon as the writes that committed have been answered.  A list
\* read before a write is then under a version that the write leaves behind.
FreshUnlessSpoiled ==
  \/ spoiled
  \/ \E c \in Writers : pc[c] = "invalidate"
  \/ Cached \in {None, Present}

\* An outdated list does not stay: whatever raced, failed or crashed, once there
\* are no more writes the cache ends with the present list or none.
StaleEventuallyGone ==
  []((\A c \in Writers : pc[c] = "done") => <>(Cached \in {None, Present}))

\* A list requested after a write was answered shows that write.
SeesAnsweredWrites ==
  \A c \in Readers :
    answer[c] # None => answer[c].total >= since[c] /\ answer[c].rows >= since[c]
=============================================================================
