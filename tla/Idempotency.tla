---------------------------- MODULE Idempotency ----------------------------
(***************************************************************************)
(* The idempotency middleware (internal/api/middleware/idempotency.go)     *)
(* with its response store (internal/infra/idempotency/store.go) and its   *)
(* lock (internal/infra/redislock/locker.go), as the concurrent HTTP       *)
(* requests that go through it see them.                                   *)
(*                                                                         *)
(* A request is a process.  Each call it makes to Redis, and the call to   *)
(* the wrapped handler, is one step; requests interleave between steps.    *)
(* Faults names what may go wrong besides the interleaving:                *)
(*   "redis"    a Redis command fails, before or after Redis ran it, or is *)
(*              sent again by the client library after Redis ran it        *)
(*   "client"   the client closes its connection, which cancels r.Context()*)
(*   "lock_ttl" a lock's TTL runs out while its holder is still working    *)
(*   "resp_ttl" a stored response's TTL runs out                           *)
(*   "crash"    the process that serves the request dies                   *)
(***************************************************************************)
EXTENDS Integers, FiniteSets

CONSTANTS
  Requests,    \* the HTTP requests, one for every time a client sends one
  Req,         \* what each request carries, see the fields below
  Statuses,    \* the statuses the wrapped handlers end with
  Faults,      \* the faults that may happen
  NoKey,       \* idemKey of a request without an Idempotency-Key header
  NoResponse,  \* a response key that does not exist in Redis
  Nobody       \* a lock key that does not exist in Redis

ASSUME NobodyAssumption == Nobody \notin Requests

\* One for each way the database and the middleware can be left: done, refused,
\* rate limited, internal error.
ASSUME StatusesAssumption == Statuses \subseteq {201, 403, 429, 500}

ASSUME FaultsAssumption ==
  Faults \subseteq {"redis", "client", "lock_ttl", "resp_ttl", "crash"}

INSTANCE RedisLock

VARIABLES
  pc,        \* where each request is in Handler
  answer,    \* what the client of each request is sent
  stored,    \* idem:resp:* in Redis
  lock,      \* lock:idem:* in Redis
  gone,      \* requests whose client has closed the connection
  executed,  \* history: requests whose operation took effect in the database
  expired,   \* history: requests whose lock ran out while they held it
  late,      \* history: requests that arrived when their key had been answered
  disturbed  \* history: keys for which a Redis call failed or a response ran out

vars == <<pc, answer, stored, lock, gone, executed, expired, late, disturbed>>

-----------------------------------------------------------------------------
(* Requests and the values derived from them.  A field "payload" stands    *)
(* for content type, query and body together, "path" for the concrete URL  *)
(* path whose chi pattern is "pattern".                                    *)

isMutatingMethod(method) == method \in {"POST", "PATCH", "PUT", "DELETE"}

\* The requests the middleware handles; the others go straight to the handler.
Guarded(r) == isMutatingMethod(Req[r].method) /\ Req[r].idemKey # NoKey

\* Mutant: a hash that leaves out the payload.
BuildRequestHashNoPayload(r) == <<Req[r].method, Req[r].pattern>>

\* SHA-256 is taken to be collision-free, so the hash is what it is computed from.
BuildRequestHash(r) == <<Req[r].method, Req[r].pattern, Req[r].payload>>

\* responseKey and lockKey differ only in their prefix.
Key(r) == <<Req[r].user, Req[r].pattern, Req[r].idemKey>>

Keys == {Key(r) : r \in Requests}

\* Mutant: only 200, which the create handlers never answer.
OnlyStatusOK(status) == status = 200

\* 2xx and the refusals that a retry would meet again.
IsCacheableStatus(status) ==
  status \in 200..299 \/ status \in {400, 403, 404, 409}

\* An answer: who wrote it (the wrapped handler, a replay, the failure to read the
\* body, or one of the two conflicts), with which status, and for a replay the
\* request first answered so.
Answers == [kind : {"none", "handler", "replay", "unread", "reused", "in_progress"},
            status : Statuses \cup {0, 400, 409},
            by : Requests]

Responses == [hash : {BuildRequestHash(r) : r \in Requests},
              status : Statuses,
              by : Requests]

ASSUME NoResponseAssumption == NoResponse \notin Responses

Answer(r, kind, status, by) ==
  answer' = [answer EXCEPT ![r] = [kind |-> kind, status |-> status, by |-> by]]

Goto(r, from, to) == pc[r] = from /\ pc' = [pc EXCEPT ![r] = to]

\* A Redis command issued with the request's context fails when Redis does,
\* and when the client has gone.
CallMayFail(r) == "redis" \in Faults \/ r \in gone
CallMaySucceed(r) == r \notin gone

-----------------------------------------------------------------------------
Init ==
  /\ pc = [r \in Requests |-> "new"]
  /\ answer = [r \in Requests |-> [kind |-> "none", status |-> 0, by |-> r]]
  /\ stored = [k \in Keys |-> NoResponse]
  /\ lock = [k \in Keys |-> Nobody]
  /\ gone = {}
  /\ executed = {}
  /\ expired = {}
  /\ late = {}
  /\ disturbed = {}

\* The handler did what s, with key k, asked for, and said so.
Settled(s, k) ==
  /\ pc[s] = "done" /\ Guarded(s) /\ Key(s) = k
  /\ s \in executed /\ answer[s].status = 201

\* The request reaches the middleware.
Arrive(r) ==
  /\ Goto(r, "new", IF Guarded(r) THEN "get" ELSE "bypass")
  /\ late' = IF \E s \in Requests : Settled(s, Key(r)) THEN late \cup {r} ELSE late
  /\ UNCHANGED <<answer, stored, lock, gone, executed, expired, disturbed>>

\* The connection breaks while the body is read; nothing has been looked up yet.
ReadFails(r) ==
  /\ "client" \in Faults
  /\ Guarded(r)
  /\ Goto(r, "new", "done")
  /\ Answer(r, "unread", 400, r)
  /\ UNCHANGED <<stored, lock, gone, executed, expired, late, disturbed>>

\* store.Get: the answer is a stored one, a conflict, or there is none yet.
Get(r) ==
  /\ CallMaySucceed(r)
  /\ LET cached == stored[Key(r)]
     IN  \/ /\ cached = NoResponse
            /\ Goto(r, "get", "acquire")
            /\ UNCHANGED answer
         \/ /\ cached # NoResponse
            /\ cached.hash # BuildRequestHash(r)
            /\ Goto(r, "get", "done")
            /\ Answer(r, "reused", 409, r)
         \/ /\ cached # NoResponse
            /\ cached.hash = BuildRequestHash(r)
            /\ Goto(r, "get", "done")
            /\ Answer(r, "replay", cached.status, cached.by)
  /\ UNCHANGED <<stored, lock, gone, executed, expired, late, disturbed>>

\* Where a request goes when Redis cannot protect it: to the handler, whose
\* context is already cancelled if the client has gone.
Unprotected(r) == IF r \in gone THEN "cancelled" ELSE "bypass"

\* store.Get fails: the request runs unprotected.
GetFails(r) ==
  /\ CallMayFail(r)
  /\ Goto(r, "get", Unprotected(r))
  /\ disturbed' = disturbed \cup {Key(r)}
  /\ UNCHANGED <<answer, stored, lock, gone, executed, expired, late>>

\* locker.Acquire answers; a SETNX that the client library sends again, because
\* the first answer was lost, finds its own key and says that somebody has it.
Acquire(r) ==
  /\ CallMaySucceed(r)
  /\ \/ /\ Acquirable(lock, Key(r))
        /\ lock' = Acquired(lock, Key(r), r)
        /\ Goto(r, "acquire", "exec")
        /\ UNCHANGED answer
     \/ /\ \/ ~Acquirable(lock, Key(r)) /\ UNCHANGED lock
           \/ /\ "redis" \in Faults /\ Acquirable(lock, Key(r))
              /\ lock' = Acquired(lock, Key(r), r)
        /\ Goto(r, "acquire", "done")
        /\ Answer(r, "in_progress", 409, r)
  /\ UNCHANGED <<stored, gone, executed, expired, late, disturbed>>

\* locker.Acquire fails, and Redis may have set the key before the failure:
\* the request runs unprotected, with a token nobody will release.
AcquireFails(r) ==
  /\ CallMayFail(r)
  /\ Goto(r, "acquire", Unprotected(r))
  /\ \/ UNCHANGED lock
     \/ Acquirable(lock, Key(r)) /\ lock' = Acquired(lock, Key(r), r)
  /\ disturbed' = disturbed \cup {Key(r)}
  /\ UNCHANGED <<answer, stored, gone, executed, expired, late>>

\* next.ServeHTTP: the operation takes effect with a 2xx, does not with a 403
\* or a 429, and may have with a 500 (a commit whose answer was lost, a panic).
Effect(r, status) ==
  \/ /\ status = 201 \/ status = 500
     /\ isMutatingMethod(Req[r].method)
     /\ executed' = executed \cup {r}
  \/ /\ status # 201 \/ ~isMutatingMethod(Req[r].method)
     /\ UNCHANGED executed

\* The protected call; only a cacheable response goes on to be stored.
Execute(r) ==
  \E status \in Statuses :
    /\ Goto(r, "exec", IF IsCacheableStatus(status) THEN "store" ELSE "release")
    /\ Answer(r, "handler", status, r)
    /\ Effect(r, status)
    /\ UNCHANGED <<stored, lock, gone, expired, late, disturbed>>

\* The unprotected call.
ExecuteBypass(r) ==
  \E status \in Statuses :
    /\ Goto(r, "bypass", "done")
    /\ Answer(r, "handler", status, r)
    /\ Effect(r, status)
    /\ UNCHANGED <<stored, lock, gone, expired, late, disturbed>>

\* The unprotected call with a cancelled context: whatever it answers, every
\* database call fails before it is sent.
ExecuteCancelled(r) ==
  \E status \in Statuses \ {201} :
    /\ Goto(r, "cancelled", "done")
    /\ Answer(r, "handler", status, r)
    /\ UNCHANGED <<stored, lock, gone, executed, expired, late, disturbed>>

\* The value store.Set writes.
StoredResponse(r) ==
  [hash |-> BuildRequestHash(r), status |-> answer[r].status, by |-> r]

\* store.Set, after the response has been sent.
Set(r) ==
  /\ CallMaySucceed(r)
  /\ Goto(r, "store", "release")
  /\ stored' = [stored EXCEPT ![Key(r)] = StoredResponse(r)]
  /\ UNCHANGED <<answer, lock, gone, executed, expired, late, disturbed>>

\* store.Set fails, and Redis may have run it; the middleware carries on.
SetFails(r) ==
  /\ CallMayFail(r)
  /\ Goto(r, "store", "release")
  /\ \/ UNCHANGED stored
     \/ stored' = [stored EXCEPT ![Key(r)] = StoredResponse(r)]
  /\ disturbed' = disturbed \cup {Key(r)}
  /\ UNCHANGED <<answer, lock, gone, executed, expired, late>>

\* The deferred Release, which uses context.Background().
Release(r) ==
  /\ Goto(r, "release", "done")
  /\ \/ lock' = Released(lock, Key(r), r)
     \/ "redis" \in Faults /\ UNCHANGED lock
  /\ UNCHANGED <<answer, stored, gone, executed, expired, late, disturbed>>

-----------------------------------------------------------------------------
\* The client closes the connection before a call with its context; one that
\* leaves during the wrapped handler is one that leaves before store.Set, as
\* Effect allows every outcome of the handler.
ClientLeaves(r) ==
  /\ "client" \in Faults
  /\ pc[r] \in {"get", "acquire", "store"} /\ r \notin gone
  /\ gone' = gone \cup {r}
  /\ UNCHANGED <<pc, answer, stored, lock, executed, expired, late, disturbed>>

\* The process that serves the request dies.
Crash(r) ==
  /\ "crash" \in Faults
  /\ pc[r] \notin {"new", "done", "dead"}
  /\ pc' = [pc EXCEPT ![r] = "dead"]
  /\ UNCHANGED <<answer, stored, lock, gone, executed, expired, late, disturbed>>

\* r runs, or has run, the handler under a lock it has not released yet.
Holding(r) == pc[r] \in {"exec", "store", "release"}

\* Mutant: a lock set without a TTL.
LockNeverExpires(k) == FALSE /\ UNCHANGED vars

\* Redis drops a lock whose TTL ran out; a TTL of 30 seconds outlives the
\* handlers' own time limit unless the process stalls.
LockExpires(k) ==
  /\ lock[k] # Nobody
  /\ "lock_ttl" \in Faults \/ pc[lock[k]] \in {"bypass", "cancelled", "done", "dead"}
  /\ expired' = IF Holding(lock[k]) THEN expired \cup {lock[k]} ELSE expired
  /\ lock' = Expired(lock, k)
  /\ UNCHANGED <<pc, answer, stored, gone, executed, late, disturbed>>

\* Redis drops a response whose TTL ran out.
ResponseExpires(k) ==
  /\ "resp_ttl" \in Faults
  /\ stored[k] # NoResponse
  /\ stored' = [stored EXCEPT ![k] = NoResponse]
  /\ disturbed' = disturbed \cup {k}
  /\ UNCHANGED <<pc, answer, lock, gone, executed, expired, late>>

Step(r) ==
  \/ Get(r) \/ GetFails(r)
  \/ Acquire(r) \/ AcquireFails(r)
  \/ Execute(r) \/ ExecuteBypass(r) \/ ExecuteCancelled(r)
  \/ Set(r) \/ SetFails(r)
  \/ Release(r)

\* All requests have been dealt with and nothing is left to expire.
Finished ==
  /\ \A r \in Requests : pc[r] \in {"done", "dead"}
  /\ UNCHANGED vars

Next ==
  \/ \E r \in Requests :
       Arrive(r) \/ ReadFails(r) \/ Step(r) \/ ClientLeaves(r) \/ Crash(r)
  \/ \E k \in Keys : LockExpires(k) \/ ResponseExpires(k)
  \/ Finished

\* A request that has arrived keeps running (a goroutine of net/http, and
\* Redis calls that time out), and Redis enforces TTLs.
Fairness ==
  /\ \A r \in Requests : WF_vars(Step(r))
  /\ \A k \in Keys : WF_vars(LockExpires(k))

Spec == Init /\ [][Next]_vars /\ Fairness
-----------------------------------------------------------------------------
(* Properties *)

\* Types: what Redis holds is a response of a handler, or a lock of a request.
TypeOK ==
  /\ pc \in [Requests -> {"new", "get", "acquire", "exec", "store", "release",
                          "bypass", "cancelled", "done", "dead"}]
  /\ answer \in [Requests -> Answers]
  /\ stored \in [Keys -> Responses \cup {NoResponse}]
  /\ lock \in [Keys -> Requests \cup {Nobody}]
  /\ gone \subseteq Requests
  /\ executed \subseteq Requests
  /\ expired \subseteq Requests
  /\ late \subseteq Requests
  /\ disturbed \subseteq Keys

\* A request that took the lock keeps it until it releases it itself or the
\* TTL runs out: neither a late release by a request that lost the lock nor
\* a failed acquisition takes it away (releaseScript compares tokens).  So no
\* two requests with the same key are inside the handler under live locks.
LockHeldUntilExpiry ==
  \A r \in Requests : Holding(r) /\ r \notin expired => lock[Key(r)] = r

\* A replayed response is the one the wrapped handler gave to a request of the
\* same user to the same route with the same method, key and payload, and it
\* was a cacheable one - whatever faults happened (idempotency.go, line 121).
ReplayFaithful ==
  \A r \in Requests :
    answer[r].kind = "replay" =>
      LET s == answer[r].by
      IN  /\ Req[s].user = Req[r].user
          /\ Req[s].pattern = Req[r].pattern
          /\ Req[s].method = Req[r].method
          /\ Req[s].payload = Req[r].payload
          /\ Req[s].idemKey = Req[r].idemKey
          /\ answer[s] = [kind |-> "handler", status |-> answer[r].status, by |-> s]
          /\ answer[r].status \in {201, 403}

\* A client that waits for the answer before it retries has its operation run
\* once: a request that arrives after a request with the same key was carried
\* out and answered has no effect of its own, because it finds the stored
\* response (idempotency.go, lines 107-126).  Under every fault, only a failed
\* Redis call for this very key, or its response running out, excuses one that
\* has; crashes and locks that ran out do not.
RetryProtected == \A r \in late \cap executed : Key(r) \in disturbed

\* The same without an excuse: what "safe retries" promises to clients.
RetryNotReexecuted == late \cap executed = {}

\* However requests interleave, an operation sent several times under one
\* idempotency key takes effect at most once.
AtMostOnce ==
  \A r, s \in executed :
    /\ Guarded(r) /\ Guarded(s) /\ Key(r) = Key(s)
    /\ BuildRequestHash(r) = BuildRequestHash(s)
    => r = s

\* A replayed response was given to a request for the same resource.
ReplaySameResource ==
  \A r \in Requests :
    answer[r].kind = "replay" => Req[answer[r].by].path = Req[r].path

\* A lock left behind by a dead process or a failed release is freed in the
\* end, so the key does not answer "request already in progress" for ever.
LockEventuallyFree ==
  \A k \in Keys : lock[k] # Nobody ~> lock[k] = Nobody
=============================================================================
