------------------------------- MODULE Stats -------------------------------
(***************************************************************************)
(* The team statistics: the handlers (internal/api/stats.go), the service  *)
(* (internal/service/stats.go), the queries (internal/repository/          *)
(* analytics_repo.go) and the cache in front of them                       *)
(* (internal/infra/cache/stats_cache.go).                                  *)
(*                                                                         *)
(* Time is counted in parts of a day.  The database is a record of the     *)
(* tasks and of each team's members with their roles; it changes while     *)
(* requests run.                                                           *)
(***************************************************************************)
EXTENDS Integers, FiniteSets

CONSTANTS
  Requests,  \* the requests for statistics
  Req,       \* the endpoint (kind), user, from, to and limit of each
  Teams,     \* team ids
  Users,     \* user ids, which are numbers
  TaskIds,   \* task ids
  Day,       \* parts of a day
  MaxRange,  \* maxStatsRange
  Malformed, \* a parameter that is missing or cannot be read
  Horizon    \* bound on the clock

VARIABLES
  now,     \* the clock
  data,    \* the database: tasks and member roles
  cache,   \* stats:* in Redis
  pc,      \* where each request is
  answer   \* the rows each request is answered, and the database they are from

vars == <<now, data, cache, pc, answer>>

-----------------------------------------------------------------------------
(* The queries, on a database d *)

\* The teams that u owns or administers.
Managed(d, u) == {t \in Teams : d.role[t][u] \in {"owner", "admin"}}

Within(time, from, to) == from <= time /\ time < to

\* teamDoneStatsSQL.
TeamDoneStats(d, u, from, to) ==
  { [team |-> t,
     members |-> Cardinality({v \in Users : d.role[t][v] # "none"}),
     done |-> Cardinality({x \in d.tasks : /\ x.team = t /\ x.done
                                           /\ Within(x.updated, from, to)})]
    : t \in Managed(d, u) }

CreatedCount(d, t, v, from, to) ==
  Cardinality({x \in d.tasks : /\ x.team = t /\ x.creator = v
                               /\ Within(x.created, from, to)})

\* v comes before w in the ranking of team t: more tasks, or the smaller id.
RankedBefore(d, t, v, w, from, to) ==
  LET n(u) == CreatedCount(d, t, u, from, to)
  IN  n(v) > n(w) \/ (n(v) = n(w) /\ v < w)

\* topCreatorsSQL.
TopCreators(d, u, from, to, limit) ==
  { row \in { [team |-> t, user |-> v,
               count |-> CreatedCount(d, t, v, from, to),
               rank |-> 1 + Cardinality({w \in Users : RankedBefore(d, t, w, v, from, to)})]
              : t \in Managed(d, u), v \in Users }
    : row.count > 0 /\ row.rank <= limit }

\* What the database d answers to request r.
Rows(d, r) ==
  IF Req[r].kind = "done"
  THEN TeamDoneStats(d, Req[r].user, Req[r].from, Req[r].to)
  ELSE TopCreators(d, Req[r].user, Req[r].from, Req[r].to, Req[r].limit)

-----------------------------------------------------------------------------
(* The cache.  An entry has a key and rows; seen is the database they were  *)
(* read from, which the code does not keep.                                 *)

dayKey(time) == time \div Day

\* doneKey and topKey; the prefix of the key is the kind, and doneKey has no
\* limit.
Key(r) ==
  <<Req[r].kind, Req[r].user, dayKey(Req[r].from), dayKey(Req[r].to),
    IF Req[r].kind = "top" THEN Req[r].limit ELSE 0>>

\* parseFromToUTC and parseRequiredLimit.
Parsed(r) ==
  /\ Malformed \notin {Req[r].from, Req[r].to}
  /\ Req[r].kind = "top" => Req[r].limit # Malformed

\* validateStatsRange, and the limit of the top creators.
Valid(r) ==
  /\ Req[r].from < Req[r].to
  /\ Req[r].to - Req[r].from <= MaxRange
  /\ Req[r].kind = "top" => Req[r].limit \in 1..10

NoRows == [rows |-> {}, seen |-> {}]

Init ==
  /\ now = 0
  /\ data = [tasks |-> {}, role |-> [t \in Teams |-> [u \in Users |-> "none"]]]
  /\ cache = {}
  /\ pc = [r \in Requests |-> "new"]
  /\ answer = [r \in Requests |-> NoRows]

Goto(r, from, to) == pc[r] = from /\ pc' = [pc EXCEPT ![r] = to]

\* The handler parses the request and the service checks it.
Start(r) ==
  /\ Goto(r, "new", IF Parsed(r) /\ Valid(r) THEN "get" ELSE "refused")
  /\ UNCHANGED <<now, data, cache, answer>>

\* GetDone, GetTop: there is an entry, and it is the answer.
Hit(r) ==
  /\ Goto(r, "get", "answered")
  /\ \E e \in cache :
       /\ e.key = Key(r)
       /\ answer' = [answer EXCEPT ![r] = [rows |-> e.rows, seen |-> e.seen]]
  /\ UNCHANGED <<now, data, cache>>

\* GetDone, GetTop: there is none, or Redis fails; the service does not care.
Miss(r) ==
  /\ Goto(r, "get", "query")
  /\ UNCHANGED <<now, data, cache, answer>>

\* The query runs.
Query(r) ==
  /\ Goto(r, "query", "set")
  /\ answer' = [answer EXCEPT ![r] = [rows |-> Rows(data, r), seen |-> data]]
  /\ UNCHANGED <<now, data, cache>>

QueryFails(r) ==
  /\ Goto(r, "query", "failed")
  /\ UNCHANGED <<now, data, cache, answer>>

\* SetDone, SetTop, whose failure is ignored; then the handler answers.
Set(r) ==
  /\ Goto(r, "set", "answered")
  /\ \/ cache' = {e \in cache : e.key # Key(r)}
                  \cup {[key |-> Key(r), rows |-> answer[r].rows, seen |-> answer[r].seen]}
     \/ UNCHANGED cache
  /\ UNCHANGED <<now, data, answer>>

\* Redis drops an entry whose TTL ran out.
Expire ==
  /\ \E e \in cache : cache' = cache \ {e}
  /\ UNCHANGED <<now, data, pc, answer>>

-----------------------------------------------------------------------------
(* What the rest of the system does to the data *)

\* CreateTeam and InviteByEmail.
Join(t, u) ==
  /\ data.role[t][u] = "none"
  /\ \E role \in {"owner", "admin", "member"} : data' = [data EXCEPT !.role[t][u] = role]
  /\ UNCHANGED <<now, cache, pc, answer>>

\* CreateTask; created_at and updated_at are the time of the insert.
CreateTask(id, t, u) ==
  /\ data.role[t][u] # "none"
  /\ \A x \in data.tasks : x.id # id
  /\ data' = [data EXCEPT !.tasks = @ \cup
                {[id |-> id, team |-> t, creator |-> u, done |-> FALSE,
                  created |-> now, updated |-> now]}]
  /\ UNCHANGED <<now, cache, pc, answer>>

\* UpdateTask sets the status or other fields; updated_at is the time of the
\* update.
UpdateTask(x) ==
  /\ \E done \in BOOLEAN :
       data' = [data EXCEPT !.tasks = (@ \ {x}) \cup
                  {[x EXCEPT !.done = done, !.updated = now]}]
  /\ UNCHANGED <<now, cache, pc, answer>>

\* DeleteTask.
DeleteTask(x) ==
  /\ data' = [data EXCEPT !.tasks = @ \ {x}]
  /\ UNCHANGED <<now, cache, pc, answer>>

Tick ==
  /\ now < Horizon
  /\ now' = now + 1
  /\ UNCHANGED <<data, cache, pc, answer>>

Next ==
  \/ \E r \in Requests :
       Start(r) \/ Hit(r) \/ Miss(r) \/ Query(r) \/ QueryFails(r) \/ Set(r)
  \/ Expire \/ Tick
  \/ \E t \in Teams, u \in Users : Join(t, u) \/ \E id \in TaskIds : CreateTask(id, t, u)
  \/ \E x \in data.tasks : UpdateTask(x) \/ DeleteTask(x)

Spec == Init /\ [][Next]_vars

-----------------------------------------------------------------------------
(* Properties *)

\* What a request is answered may be as old as the cache's entry, but it is what
\* the database had for the window the request asks for: "tasks with status=done
\* and updated_at within the window".
AnswerOfWindow ==
  \A r \in Requests :
    pc[r] = "answered" => answer[r].rows = Rows(answer[r].seen, r)

\* However requests share the cache, an answer was computed for the same
\* endpoint, user and limit, and for a window of the same days.
AnswerOfSameDays ==
  \A r \in Requests :
    pc[r] = "answered" =>
      \E s \in Requests : /\ Key(s) = Key(r) /\ Valid(s)
                          /\ answer[r].rows = Rows(answer[r].seen, s)
=============================================================================
