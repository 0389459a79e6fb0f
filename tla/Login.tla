------------------------------- MODULE Login -------------------------------
(***************************************************************************)
(* The login handler of internal/api/auth.go with the two guards in front  *)
(* of the password check: the rate limit of the caller's address           *)
(* (internal/infra/ratelimit) and the lockout of the login name            *)
(* (internal/infra/auth/lockout.go), and the refresh handler up to its     *)
(* rate limit, which is the same code with limits and windows of its own.  *)
(*                                                                         *)
(* All of them count in one Redis.  The limiters' keys are the bare        *)
(* addresses, as a header gives them, and the bare user ids, so a key may  *)
(* have two uses; only the keys of the lockout have prefixes.  Counting is *)
(* an INCR, and the one who starts a counter gives it its TTL with an      *)
(* EXPIRE of its own.  A worker serves one request after another; each     *)
(* Redis command and the password check is a step.  Keys that have a TTL   *)
(* end at some time, so the model has no clock.                            *)
(*   "redis"  a Redis command fails, before or after Redis ran it, because *)
(*            of Redis or because the request's context has ended, or the  *)
(*            client library sends it again after Redis ran it             *)
(*   "crash"  the process dies and is started again                        *)
(***************************************************************************)
EXTENDS Naturals, FiniteSets

CONSTANTS
  Ips, Users,     \* addresses, but for the empty one, and user ids
  Logins,         \* normalized login names
  Requests,       \* the requests there may be
  Workers,        \* requests served at the same time
  LoginPerMin, RefreshPerMin,  \* auth.login_per_min, auth.refresh_per_min
  MaxAttempts,    \* auth.lockout.max_attempts
  Tries,          \* how often go-redis sends a command, at most
  MaxRequests,    \* bound: requests a behaviour has
  Faults,         \* the faults that may happen
  None            \* the empty address; no login name; no request

ASSUME LoginAssumption ==
  /\ IsFiniteSet(Workers) /\ Workers # {}
  /\ LoginPerMin \in Nat \ {0} /\ RefreshPerMin \in Nat \ {0}
  /\ MaxAttempts \in Nat \ {0} /\ Tries \in Nat \ {0} /\ MaxRequests \in Nat
  /\ Faults \subseteq {"redis", "crash"}

\* A login comes from an address, a refresh from a user.
ASSUME RequestsAssumption ==
  Requests \subseteq [by : {"login"}, key : Ips \cup {None}, login : Logins]
                       \cup [by : {"refresh"}, key : Users, login : {None}]

\* failKey and lockKey.
Fail(l) == <<"auth:fail:", l>>
Lock(l) == <<"auth:lock:", l>>
LockoutKeys == {Fail(l) : l \in Logins} \cup {Lock(l) : l \in Logins}
Keys == Ips \cup Users \cup LockoutKeys

ASSUME LoginNoneAssumption == None \notin Requests /\ None \notin Keys /\ None \notin Logins

\* What each of the two limiters has a window for.
Slots == ({"login"} \X Ips) \cup ({"refresh"} \X Users)
Slot(r) == <<r.by, r.key>>
PerMin(by) == IF by = "login" THEN LoginPerMin ELSE RefreshPerMin

VARIABLES
  redis,    \* in Redis: the number at each key and whether there is a TTL
  memory,   \* the fallback limiters: requests counted in the present windows
  pc, req,  \* of each worker: step and request
  started,  \* requests received so far
  bypass,   \* history: workers that go on after their lockout check failed
  passed,   \* history: requests a limiter has let through
  windows,  \* history: windows of a limiter, in Redis or memory, that are over
  late,     \* history: password checks since the lock was set, by login
  wrong,    \* history: failures that may still count against a login
  lost      \* history: keys whose EXPIRE was never run

vars == <<redis, memory, pc, req, started, bypass, passed, windows, late, wrong, lost>>
lockoutVars == <<bypass, late, wrong>>
limitVars == <<memory, passed, windows>>

\* A worker's next step; when it is idle again it has no request.
Goto(w, from, to) ==
  /\ pc[w] = from
  /\ pc' = [pc EXCEPT ![w] = to]
  /\ req' = IF to = "idle" THEN [req EXCEPT ![w] = None] ELSE req

\* A key that does not exist, an INCR that Redis runs m times, and EXPIRE, which
\* leaves alone a key that does not exist.
Absent == [n |-> 0, ttl |-> FALSE]
Incr(k, m) == [redis EXCEPT ![k].n = @ + m]
Expire(k) == [redis EXCEPT ![k].ttl = redis[k].n > 0]

\* How often Redis may run a command that is answered.
Sent == IF "redis" \in Faults THEN 1..Tries ELSE {1}

\* Mutant: a count that INCR never returns.
StartedByZero(n) == n = 0

\* The one who started a counter gives it its TTL.
Starts(n) == n = 1

\* Mutant: the request over the limit passes.
OverLimitByOne(n, limit) == n > limit + 1

OverLimit(n, limit) == n > limit

\* Mutant: the limiter in memory compares as the one in Redis does, which
\* counts first.
MemoryFullLate(n, limit) == n > limit

MemoryFull(n, limit) == n >= limit

-----------------------------------------------------------------------------
Init ==
  /\ redis = [k \in Keys |-> Absent]
  /\ memory = [s \in Slots |-> 0]
  /\ pc = [w \in Workers |-> "idle"]
  /\ req = [w \in Workers |-> None]
  /\ started = 0
  /\ bypass = {}
  /\ passed = [s \in Slots |-> 0]
  /\ windows = [s \in Slots |-> 0]
  /\ late = [l \in Logins |-> 0]
  /\ wrong = [l \in Logins |-> 0]
  /\ lost = {}

\* A request comes in; without an address there is no limit.
Arrive(w, r) ==
  /\ started < MaxRequests
  /\ pc[w] = "idle"
  /\ pc' = [pc EXCEPT ![w] = IF r.key = None THEN "gate" ELSE "limit"]
  /\ req' = [req EXCEPT ![w] = r]
  /\ started' = started + 1
  /\ UNCHANGED <<redis, limitVars, lockoutVars, lost>>

(* The rate limits. *)

\* A login goes on to the lockout; what a refresh goes on to is not of interest.
Passed(r) == IF r.by = "login" THEN "gate" ELSE "idle"

\* redisLimiter.Allow up to the EXPIRE, and all of it when none is due.  What
\* is left out, the TTL, is only read for the header of a refusal.
Allow(w) ==
  LET r == req[w]
  IN  /\ pc[w] = "limit"
      /\ \E m \in Sent :
           LET n == redis[r.key].n + m
               over == OverLimit(n, PerMin(r.by))
           IN  /\ Goto(w, "limit", IF Starts(n) THEN "limit_expire"
                                   ELSE IF over THEN "idle" ELSE Passed(r))
               /\ redis' = Incr(r.key, m)
               /\ passed' = [passed EXCEPT ![Slot(r)] = IF over THEN @ ELSE @ + 1]
               /\ lost' = IF n = m /\ m > 1 THEN lost \cup {r.key} ELSE lost
      /\ UNCHANGED <<memory, windows, started, lockoutVars>>

\* The INCR fails, and the limiter in memory decides.
AllowFails(w) ==
  LET r == req[w]
      s == Slot(r)
  IN  /\ "redis" \in Faults /\ pc[w] = "limit"
      /\ \E m \in 0..Tries :
           /\ redis' = Incr(r.key, m)
           /\ lost' = IF redis[r.key].n = 0 /\ m > 0 THEN lost \cup {r.key} ELSE lost
      /\ \/ /\ ~MemoryFull(memory[s], PerMin(r.by))
            /\ Goto(w, "limit", Passed(r))
            /\ memory' = [memory EXCEPT ![s] = @ + 1]
            /\ passed' = [passed EXCEPT ![s] = @ + 1]
         \/ /\ MemoryFull(memory[s], PerMin(r.by))
            /\ Goto(w, "limit", "idle")
            /\ UNCHANGED <<memory, passed>>
      /\ UNCHANGED <<windows, started, lockoutVars>>

\* The workers that have yet to send an EXPIRE, and for which key.
Starting(w) == pc[w] \in {"limit_expire", "failure_expire"}
StartedKey(w) == IF pc[w] = "limit_expire" THEN req[w].key ELSE Fail(req[w].login)

\* The EXPIRE of a counter the worker has started; its failure is only logged.
SetTTL(w, from, to) ==
  LET k == StartedKey(w)
  IN  /\ Goto(w, from, to)
      /\ \/ redis' = Expire(k) /\ lost' = lost \ {k}
         \/ "redis" \in Faults /\ lost' = lost \cup {k} /\ UNCHANGED redis
      /\ UNCHANGED <<limitVars, started, lockoutVars>>

\* The first of a window: within the limit, which is at least 1.
AllowExpire(w) == pc[w] = "limit_expire" /\ SetTTL(w, "limit_expire", Passed(req[w]))

(* The login handler. *)

\* The body or the login name is refused.
BadRequest(w) ==
  /\ Goto(w, "gate", "idle")
  /\ UNCHANGED <<redis, limitVars, started, lockoutVars, lost>>

\* Mutant: the counter's key is read for the lock's.
LockedByCounter(l) == redis[Fail(l)].ttl

\* The lock's key has time left, whatever its value is.
Locked(l) == redis[Lock(l)].ttl

IsLocked(w) ==
  /\ pc[w] = "gate"
  /\ \/ Locked(req[w].login) /\ Goto(w, "gate", "idle")
     \/ ~Locked(req[w].login) /\ Goto(w, "gate", "auth")
  /\ UNCHANGED <<redis, limitVars, started, lockoutVars, lost>>

\* The check fails and is passed over.
IsLockedFails(w) ==
  /\ "redis" \in Faults
  /\ Goto(w, "gate", "auth")
  /\ bypass' = bypass \cup {w}
  /\ UNCHANGED <<redis, limitVars, started, late, wrong, lost>>

\* The service's Login checks the password: it succeeds; it finds no such user,
\* a wrong password or no database; or it cannot store the session.
Authenticate(w) ==
  LET l == req[w].login
  IN  /\ pc[w] = "auth"
      /\ \/ Goto(w, "auth", "success") /\ UNCHANGED wrong
         \/ Goto(w, "auth", "failure") /\ wrong' = [wrong EXCEPT ![l] = @ + 1]
         \/ Goto(w, "auth", "idle") /\ UNCHANGED wrong
      /\ late' = [late EXCEPT ![l] = IF redis[Lock(l)].ttl /\ w \notin bypass THEN @ + 1 ELSE @]
      /\ bypass' = bypass \ {w}
      /\ UNCHANGED <<redis, limitVars, started, lost>>

(* The lockout. *)

\* Where OnFailure goes once the counter has its TTL.
AfterCount(n) == IF n < MaxAttempts THEN "idle" ELSE "lock"

\* OnFailure up to the EXPIRE, or up to the SET.
OnFailure(w) ==
  LET k == Fail(req[w].login)
  IN  /\ pc[w] = "failure"
      /\ \E m \in Sent :
           LET n == redis[k].n + m
           IN  /\ Goto(w, "failure", IF Starts(n) THEN "failure_expire" ELSE AfterCount(n))
               /\ redis' = Incr(k, m)
               /\ lost' = IF n = m /\ m > 1 THEN lost \cup {k} ELSE lost
      /\ UNCHANGED <<limitVars, started, lockoutVars>>

\* The INCR fails, and the failure is answered as if there were no lockout.
OnFailureFails(w) ==
  LET k == Fail(req[w].login)
  IN  /\ "redis" \in Faults
      /\ Goto(w, "failure", "idle")
      /\ \E m \in 0..Tries :
           /\ redis' = Incr(k, m)
           /\ lost' = IF redis[k].n = 0 /\ m > 0 THEN lost \cup {k} ELSE lost
      /\ UNCHANGED <<limitVars, started, lockoutVars>>

OnFailureExpire(w) == SetTTL(w, "failure_expire", AfterCount(1))

\* The SET of the lock, or its failure.
SetLock(w) ==
  LET l == req[w].login
  IN  /\ Goto(w, "lock", "idle")
      /\ \/ /\ redis' = [redis EXCEPT ![Lock(l)] = [n |-> 1, ttl |-> TRUE]]
            /\ late' = [late EXCEPT ![l] = IF redis[Lock(l)].ttl THEN @ ELSE 0]
            /\ lost' = lost \ {Lock(l)}
         \/ "redis" \in Faults /\ UNCHANGED <<redis, late, lost>>
      /\ UNCHANGED <<limitVars, started, bypass, wrong>>

\* Mutant: only the counter is deleted.
OnlyCounterDeleted(l) == [redis EXCEPT ![Fail(l)] = Absent]

\* What the DEL of OnSuccess leaves.
Cleared(l) == [redis EXCEPT ![Fail(l)] = Absent, ![Lock(l)] = Absent]

\* No other request for l is between its password check and its answer.
Alone(w, l) ==
  \A v \in Workers \ {w} :
    pc[v] \in {"failure", "failure_expire", "lock"} => req[v].login # l

\* OnSuccess deletes counter and lock; its failure is ignored.
OnSuccess(w) ==
  LET l == req[w].login
  IN  /\ Goto(w, "success", "idle")
      /\ \/ /\ redis' = Cleared(l)
            /\ wrong' = IF Alone(w, l) THEN [wrong EXCEPT ![l] = 0] ELSE wrong
            /\ lost' = {k \in lost : redis'[k].n > 0}
         \/ "redis" \in Faults /\ UNCHANGED <<redis, wrong, lost>>
      /\ UNCHANGED <<limitVars, started, bypass, late>>

(* Time and crashes. *)

\* Redis drops a key whose TTL ran out; for a limiter a window is over.
KeyExpires(k) ==
  /\ redis[k].ttl
  /\ redis' = [redis EXCEPT ![k] = Absent]
  /\ windows' = [s \in Slots |-> IF s[2] = k THEN windows[s] + 1 ELSE windows[s]]
  /\ lost' = lost \ {k}
  /\ UNCHANGED <<memory, passed, pc, req, started, lockoutVars>>

\* The fixed window of a limiter in memory is over.
MemoryWindowEnds(s) ==
  /\ memory[s] > 0
  /\ memory' = [memory EXCEPT ![s] = 0]
  /\ windows' = [windows EXCEPT ![s] = @ + 1]
  /\ UNCHANGED <<redis, passed, pc, req, started, lockoutVars, lost>>

\* The process forgets its requests and the windows in memory.
Crash ==
  /\ "crash" \in Faults
  /\ \E w \in Workers : pc[w] # "idle"
  /\ pc' = [w \in Workers |-> "idle"]
  /\ req' = [w \in Workers |-> None]
  /\ bypass' = {}
  /\ memory' = [s \in Slots |-> 0]
  /\ windows' = [s \in Slots |-> IF memory[s] > 0 THEN windows[s] + 1 ELSE windows[s]]
  /\ lost' = lost \cup {StartedKey(w) : w \in {v \in Workers : Starting(v)}}
  /\ UNCHANGED <<redis, passed, started, late, wrong>>

\* A request goes on, whatever its calls answer.
Step(w) ==
  \/ Allow(w) \/ AllowFails(w) \/ AllowExpire(w)
  \/ BadRequest(w) \/ IsLocked(w) \/ IsLockedFails(w) \/ Authenticate(w)
  \/ OnFailure(w) \/ OnFailureFails(w) \/ OnFailureExpire(w)
  \/ SetLock(w) \/ OnSuccess(w)

\* All requests are answered.
Finished ==
  /\ started = MaxRequests
  /\ \A w \in Workers : pc[w] = "idle"
  /\ UNCHANGED vars

Next ==
  \/ \E w \in Workers : Step(w) \/ \E r \in Requests : Arrive(w, r)
  \/ \E k \in Keys : KeyExpires(k)
  \/ \E s \in Slots : MemoryWindowEnds(s)
  \/ Crash
  \/ Finished

Spec == Init /\ [][Next]_vars

-----------------------------------------------------------------------------
(* Properties *)

\* Types; a TTL belongs to a key that exists.
TypeOK ==
  /\ redis \in [Keys -> [n : Nat, ttl : BOOLEAN]]
  /\ \A k \in Keys : redis[k].ttl => redis[k].n > 0
  /\ memory \in [Slots -> Nat] /\ \A s \in Slots : memory[s] <= PerMin(s[1])
  /\ pc \in [Workers -> {"idle", "limit", "limit_expire", "gate", "auth", "success",
                         "failure", "failure_expire", "lock"}]
  /\ req \in [Workers -> Requests \cup {None}]
  /\ started \in 0..MaxRequests
  /\ bypass \subseteq Workers
  /\ passed \in [Slots -> Nat] /\ windows \in [Slots -> Nat]
  /\ late \in [Logins -> Nat]
  /\ wrong \in [Logins -> Nat]
  /\ lost \subseteq Keys

\* The limiters' windows, and the logins, whose keys have no other use: no other
\* limiter's, and no lockout's.
OwnSlots ==
  {s \in Slots : s[2] \notin LockoutKeys /\ \A t \in Slots : t[2] = s[2] => t = s}
OwnLogins ==
  {l \in Logins : Fail(l) \notin Ips \cup Users /\ Lock(l) \notin Ips \cup Users}

\* Redis failing at any command, and restarts, let no more requests through than
\* windows account for: as many as the limit for each window that is over, in
\* Redis or in memory (where a restart ends one), and as many for the present one
\* in each of the two (redis.go, lines 29-65, and memory.go, lines 36-63).
LimitPerWindow ==
  \A s \in OwnSlots : passed[s] <= PerMin(s[1]) * (windows[s] + 2)

\* While a login is locked, only requests whose lockout check ran before the
\* lock was set, or failed, still have their password checked: at most one for
\* each other request that was being served (auth.go, lines 127-135).
FewLateChecks == \A l \in OwnLogins : late[l] <= Cardinality(Workers) - 1

\* A login is locked only for failures, all of them later than the last success
\* that nobody's failure overlapped, and MaxAttempts of them if each is counted
\* as often as its INCR may be sent: a success makes a fresh start, and so does
\* no other login's failure (lockout.go, lines 66-105).
LockedForReason ==
  \A l \in OwnLogins : redis[Lock(l)].ttl => Tries * wrong[l] >= MaxAttempts

\* A counter or a lock does not stay for good: a key without a TTL has a request
\* that is about to give it one, whoever else has counted, succeeded or expired
\* in between, unless an EXPIRE failed, or an INCR was sent twice and so nobody
\* saw the count 1 (lockout.go, lines 76-80; redis.go, lines 42-46).
TTLDue ==
  \A k \in Keys :
    redis[k].n > 0 =>
      redis[k].ttl \/ k \in lost \/ \E w \in Workers : Starting(w) /\ StartedKey(w) = k
=============================================================================
