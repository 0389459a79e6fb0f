---------------------------- MODULE LoginProofs ----------------------------
(***************************************************************************)
(* The login's two guards and the limit on refreshes, for any addresses,   *)
(* user ids and login names, whatever keys they share, and any number of   *)
(* workers, requests and tries of a command.                               *)
(***************************************************************************)
EXTENDS Login, FiniteSetTheorems, TLAPS

Values == [n : Nat, ttl : BOOLEAN]
LoginSteps == {"gate", "auth", "success", "failure", "failure_expire", "lock"}
Steps == {"idle", "limit", "limit_expire"} \cup LoginSteps

\* Which worker has which kind of request.
ReqInv ==
  \A w \in Workers :
    /\ pc[w] # "idle" => req[w] \in Requests
    /\ pc[w] \in {"limit", "limit_expire"} => req[w].key # None
    /\ pc[w] \in LoginSteps => req[w].by = "login"
TypeInv == TypeOK /\ ReqInv

\* Who was let through was counted, by Redis or by the fallback, in a window
\* that is over or in a present one.
Counted(n, limit) == IF n < limit THEN n ELSE limit
LimitOK(s) ==
  passed[s] <= PerMin(s[1]) * windows[s] + Counted(redis[s[2]].n, PerMin(s[1])) + memory[s]
LimitInv == \A s \in OwnSlots : LimitOK(s)

\* The requests that will have a password checked after their lockout check.
Checking(l) == {w \in Workers : pc[w] = "auth" /\ req[w].login = l /\ w \notin bypass}

\* Those that do while the login is locked were there when the lock was set, and
\* the one that set it was not among them.
LateOK(l) ==
  /\ late[l] + 1 <= Cardinality(Workers)
  /\ redis[Lock(l)].ttl => late[l] + Cardinality(Checking(l)) + 1 <= Cardinality(Workers)
LateInv == \A l \in OwnLogins : LateOK(l)

\* The failures that are not counted yet.
Failing(l) == {w \in Workers : pc[w] = "failure" /\ req[w].login = l}

\* A success resets the count only when no failure is being counted, so whoever
\* is about to lock has seen enough failures since.
Enough(l) == Tries * wrong[l] >= MaxAttempts
At(w, step, l) == pc[w] = step /\ req[w].login = l
WrongOK(l) ==
  /\ redis[Fail(l)].n + Tries * Cardinality(Failing(l)) <= Tries * wrong[l]
  /\ redis[Lock(l)].ttl => Enough(l)
  /\ \A w \in Workers : At(w, "lock", l) => Enough(l)
  /\ \A w \in Workers : At(w, "failure_expire", l) => Tries * wrong[l] >= 1
WrongInv == \A l \in OwnLogins : WrongOK(l)

-----------------------------------------------------------------------------
(* Keys and values in Redis *)

\* The keys of the lockout differ from each other.
LEMMA LockoutKeysDiffer ==
  ASSUME NEW l, NEW m
  PROVE  /\ Fail(l) # Lock(m)
         /\ Fail(l) = Fail(m) => l = m
         /\ Lock(l) = Lock(m) => l = m
BY DEF Fail, Lock

\* What a request is about.
LEMMA RequestParts ==
  ASSUME NEW r \in Requests
  PROVE  /\ r.by = "login" => /\ r.login \in Logins
                              /\ Fail(r.login) \in Keys /\ Lock(r.login) \in Keys
         /\ r.key # None => r.key \in Keys /\ Slot(r) \in Slots /\ Slot(r)[1] = r.by /\ Slot(r)[2] = r.key
<1>1. \/ r \in [by : {"login"}, key : Ips \cup {None}, login : Logins]
      \/ r \in [by : {"refresh"}, key : Users, login : {None}]
  BY RequestsAssumption
<1>2. r.by = "login" => r.login \in Logins
  BY <1>1
<1>3. r.login \in Logins => Fail(r.login) \in Keys /\ Lock(r.login) \in Keys
  BY DEF Keys, LockoutKeys
<1>4. r.key # None => r.key \in Keys /\ Slot(r) \in Slots
  BY <1>1 DEF Keys, Slots, Slot
<1>5. Slot(r)[1] = r.by /\ Slot(r)[2] = r.key
  BY DEF Slot
<1>6. QED
  BY <1>2, <1>3, <1>4, <1>5

LEMMA LoginKeys ==
  ASSUME NEW l \in Logins
  PROVE  Fail(l) \in Keys /\ Lock(l) \in Keys /\ Fail(l) \in LockoutKeys /\ Lock(l) \in LockoutKeys
BY DEF Keys, LockoutKeys

LEMMA SlotParts ==
  ASSUME NEW s \in Slots
  PROVE  s[2] \in Keys /\ PerMin(s[1]) \in Nat \ {0}
<1>1. s[2] \in Keys
  BY DEF Slots, Keys
<1>2. QED
  BY <1>1, LoginAssumption DEF PerMin

\* A value that has a TTL exists.
ValuesOK(f) == f \in [Keys -> Values] /\ \A k \in Keys : f[k].ttl => f[k].n > 0

\* What the commands do to the values.
LEMMA IncrEffect ==
  ASSUME ValuesOK(redis), NEW k \in Keys, NEW m \in Nat
  PROVE  /\ ValuesOK(Incr(k, m))
         /\ Incr(k, m)[k].n = redis[k].n + m /\ Incr(k, m)[k].ttl = redis[k].ttl
         /\ \A j \in Keys : j # k => Incr(k, m)[j] = redis[j]
         /\ \A j \in Keys : Incr(k, m)[j].ttl = redis[j].ttl
BY DEF ValuesOK, Values, Incr

LEMMA ExpireEffect ==
  ASSUME ValuesOK(redis), NEW k \in Keys
  PROVE  /\ ValuesOK(Expire(k))
         /\ \A j \in Keys : Expire(k)[j].n = redis[j].n
         /\ \A j \in Keys : j # k => Expire(k)[j] = redis[j]
         /\ Expire(k)[k].ttl <=> redis[k].n > 0
<1>1. (redis[k].n > 0) \in BOOLEAN
  OBVIOUS
<1>2. \A j \in Keys : Expire(k)[j].n = redis[j].n
  BY DEF ValuesOK, Values, Expire
<1>3. Expire(k) \in [Keys -> Values]
  BY <1>1 DEF ValuesOK, Values, Expire
<1>4. \A j \in Keys : Expire(k)[j].ttl => Expire(k)[j].n > 0
  BY DEF ValuesOK, Values, Expire
<1>5. \A j \in Keys : j # k => Expire(k)[j] = redis[j]
  BY DEF ValuesOK, Values, Expire
<1>6. Expire(k)[k].ttl <=> redis[k].n > 0
  BY DEF ValuesOK, Values, Expire
<1>7. QED
  BY <1>2, <1>3, <1>4, <1>5, <1>6 DEF ValuesOK

LEMMA PutEffect ==
  ASSUME ValuesOK(redis), NEW k \in Keys, NEW v \in {Absent, [n |-> 1, ttl |-> TRUE]}
  PROVE  /\ ValuesOK([redis EXCEPT ![k] = v])
         /\ [redis EXCEPT ![k] = v][k] = v
         /\ \A j \in Keys : j # k => [redis EXCEPT ![k] = v][j] = redis[j]
<1>1. CASE v = Absent
  <2>1. v \in Values /\ ~v.ttl
    BY <1>1 DEF Values, Absent
  <2>2. QED
    BY <2>1 DEF ValuesOK
<1>2. CASE v = [n |-> 1, ttl |-> TRUE]
  <2>1. v \in Values /\ v.n > 0
    BY <1>2 DEF Values
  <2>2. QED
    BY <2>1 DEF ValuesOK
<1>3. QED
  BY <1>1, <1>2

LEMMA SetEffect ==
  ASSUME ValuesOK(redis), NEW k \in Keys,
         redis' = redis \/ redis' = [redis EXCEPT ![k] = [n |-> 1, ttl |-> TRUE]]
  PROVE  \A j \in Keys : j # k => redis'[j] = redis[j]
BY DEF ValuesOK

LEMMA ClearedEffect ==
  ASSUME ValuesOK(redis), NEW l \in Logins
  PROVE  /\ ValuesOK(Cleared(l))
         /\ Cleared(l)[Fail(l)] = Absent /\ Cleared(l)[Lock(l)] = Absent
         /\ \A j \in Keys : j # Fail(l) /\ j # Lock(l) => Cleared(l)[j] = redis[j]
<1>1. Fail(l) \in Keys /\ Lock(l) \in Keys
  BY LoginKeys
<1>2. Absent \in Values /\ ~Absent.ttl
  BY DEF Absent, Values
<1>3. QED
  BY <1>1, <1>2 DEF ValuesOK, Cleared

\* A command is run as often as it is sent.
LEMMA Runs == Sent \subseteq Nat \ {0} /\ (\A m \in Sent : m <= Tries) /\ Tries \in Nat \ {0}
BY LoginAssumption DEF Sent

-----------------------------------------------------------------------------
(* Types *)

\* The initial state.
LEMMA TypeInit == Init => TypeInv
<1> SUFFICES ASSUME Init PROVE TypeInv
  OBVIOUS
<1>1. redis \in [Keys -> Values] /\ \A k \in Keys : ~redis[k].ttl
  BY DEF Init, Absent, Values
<1>2. memory \in [Slots -> Nat] /\ \A s \in Slots : memory[s] <= PerMin(s[1])
  BY LoginAssumption DEF Init, PerMin
<1>3. TypeOK
  <2>1. pc \in [Workers -> {"idle", "limit", "limit_expire", "gate", "auth", "success",
                            "failure", "failure_expire", "lock"}]
    BY DEF Init
  <2>2. req \in [Workers -> Requests \cup {None}] /\ started \in 0..MaxRequests
    BY LoginAssumption DEF Init
  <2>3. bypass \subseteq Workers /\ lost \subseteq Keys
    BY DEF Init
  <2>4. /\ passed \in [Slots -> Nat] /\ windows \in [Slots -> Nat]
        /\ late \in [Logins -> Nat] /\ wrong \in [Logins -> Nat]
    BY DEF Init
  <2>5. QED
    BY <1>1, <1>2, <2>1, <2>2, <2>3, <2>4 DEF TypeOK, Values
<1>4. ReqInv
  BY DEF Init, ReqInv, LoginSteps
<1>5. QED
  BY <1>3, <1>4 DEF TypeInv

\* The values are in order, and what a worker's request is about.
LEMMA StepParts ==
  ASSUME TypeInv, NEW w \in Workers, pc[w] # "idle"
  PROVE  /\ ValuesOK(redis) /\ req[w] \in Requests /\ req[w] # None
         /\ pc[w] \in LoginSteps => /\ req[w].login \in Logins
                                    /\ Fail(req[w].login) \in Keys /\ Lock(req[w].login) \in Keys
         /\ pc[w] \in {"limit", "limit_expire"} =>
              /\ req[w].key \in Keys /\ Slot(req[w]) \in Slots
              /\ Slot(req[w])[1] = req[w].by /\ Slot(req[w])[2] = req[w].key
<1>1. ValuesOK(redis)
  BY DEF TypeInv, TypeOK, ValuesOK, Values
<1>2. req[w] \in Requests
  BY DEF TypeInv, ReqInv
<1>3. QED
  BY <1>1, <1>2, RequestParts, LoginNoneAssumption DEF TypeInv, ReqInv

\* A worker moves on.
LEMMA GotoParts ==
  ASSUME TypeInv, NEW w \in Workers, NEW from, NEW to \in Steps \ {"limit"}, Goto(w, from, to),
         from # "idle", to = "limit_expire" => from = "limit",
         to \in LoginSteps => from \in LoginSteps \/ req[w].by = "login"
  PROVE  /\ pc' \in [Workers -> Steps] /\ req' \in [Workers -> Requests \cup {None}] /\ ReqInv'
         /\ pc[w] = from /\ pc'[w] = to /\ (to # "idle" => req'[w] = req[w])
         /\ \A v \in Workers : v # w => pc'[v] = pc[v] /\ req'[v] = req[v]
<1>1. pc \in [Workers -> Steps] /\ req \in [Workers -> Requests \cup {None}]
  BY DEF TypeInv, TypeOK, Steps, LoginSteps
<1>2. /\ pc[w] = from /\ pc'[w] = to /\ pc' \in [Workers -> Steps]
      /\ \A v \in Workers : v # w => pc'[v] = pc[v]
  BY <1>1 DEF Goto
<1>3. /\ req' \in [Workers -> Requests \cup {None}] /\ (to # "idle" => req'[w] = req[w])
      /\ \A v \in Workers : v # w => req'[v] = req[v]
  BY <1>1 DEF Goto
<1>4. ReqInv'
  <2>1. ASSUME to # "idle"
        PROVE  /\ req[w] \in Requests
               /\ to = "limit_expire" => req[w].key # None
               /\ to \in LoginSteps => req[w].by = "login"
    BY <1>2 DEF TypeInv, ReqInv
  <2>2. to # "limit" /\ "idle" \notin LoginSteps
    BY DEF LoginSteps
  <2>3. QED
    BY <1>2, <1>3, <2>1, <2>2 DEF TypeInv, ReqInv
<1>5. QED
  BY <1>2, <1>3, <1>4

\* The parts of the types that a worker's step keeps.
LEMMA StepType ==
  ASSUME TypeInv, NEW w \in Workers, NEW from, NEW to \in Steps \ {"limit"}, Goto(w, from, to),
         from # "idle", to = "limit_expire" => from = "limit",
         to \in LoginSteps => from \in LoginSteps \/ req[w].by = "login",
         started' = started, ValuesOK(redis'), memory' \in [Slots -> Nat],
         \A s \in Slots : memory'[s] <= PerMin(s[1]), bypass' \subseteq Workers,
         passed' \in [Slots -> Nat], windows' \in [Slots -> Nat], late' \in [Logins -> Nat],
         wrong' \in [Logins -> Nat], lost' \subseteq Keys
  PROVE  TypeInv'
<1>1. pc' \in [Workers -> Steps] /\ req' \in [Workers -> Requests \cup {None}] /\ ReqInv'
  BY GotoParts
<1>2. pc' \in [Workers -> {"idle", "limit", "limit_expire", "gate", "auth", "success",
                           "failure", "failure_expire", "lock"}]
  BY <1>1 DEF Steps, LoginSteps
<1>3. redis' \in [Keys -> [n : Nat, ttl : BOOLEAN]] /\ \A k \in Keys : redis'[k].ttl => redis'[k].n > 0
  BY DEF ValuesOK, Values
<1>4. started' \in 0..MaxRequests
  BY DEF TypeInv, TypeOK
<1>5. QED
  BY <1>1, <1>2, <1>3, <1>4 DEF TypeInv, TypeOK

\* Each step of a rate limit keeps the types.
LEMMA LimitTypes ==
  ASSUME TypeInv, NEW w \in Workers, Allow(w) \/ AllowFails(w) \/ AllowExpire(w)
  PROVE  TypeInv'
<1> DEFINE r == req[w]
<1>1. pc[w] \in {"limit", "limit_expire"}
  BY DEF Allow, AllowFails, AllowExpire
<1>2. ValuesOK(redis) /\ r.key \in Keys /\ Slot(r) \in Slots /\ Slot(r)[1] = r.by
  BY <1>1, StepParts
<1>3. Passed(r) \in Steps \ {"limit", "limit_expire"} /\ (Passed(r) \in LoginSteps => r.by = "login")
  BY DEF Passed, Steps, LoginSteps
<1>4. CASE Allow(w)
  <2>1. PICK m \in Sent :
          /\ \/ Goto(w, "limit", "limit_expire") \/ Goto(w, "limit", "idle")
             \/ Goto(w, "limit", Passed(r))
          /\ redis' = Incr(r.key, m)
          /\ passed' \in {passed, [passed EXCEPT ![Slot(r)] = @ + 1]}
          /\ lost' \in {lost, lost \cup {r.key}}
    <3>1. passed \in [Slots -> Nat]
      BY DEF TypeInv, TypeOK
    <3>2. [passed EXCEPT ![Slot(r)] = @] = passed
      BY <1>2, <3>1
    <3>3. QED
      BY <1>4, <3>2 DEF Allow
  <2>2. m \in Nat
    BY Runs
  <2>3. ValuesOK(redis')
    BY <1>2, <2>1, <2>2, IncrEffect
  <2>4. passed' \in [Slots -> Nat] /\ lost' \subseteq Keys
    BY <1>2, <2>1 DEF TypeInv, TypeOK
  <2>5. UNCHANGED <<memory, windows, started, bypass, late, wrong>>
    BY <1>4 DEF Allow, lockoutVars
  <2>6. /\ "limit_expire" \in Steps \ {"limit"} /\ "idle" \in Steps \ {"limit"}
        /\ "limit_expire" \notin LoginSteps /\ "idle" \notin LoginSteps
    BY DEF Steps, LoginSteps
  <2>7. QED
    BY <1>3, <2>1, <2>3, <2>4, <2>5, <2>6, StepType DEF TypeInv, TypeOK
<1>5. CASE AllowFails(w)
  <2>1. PICK m \in 0..Tries : redis' = Incr(r.key, m) /\ lost' \in {lost, lost \cup {r.key}}
    BY <1>5 DEF AllowFails
  <2>2. ValuesOK(redis') /\ lost' \subseteq Keys
    <3>1. m \in Nat
      BY Runs
    <3>2. QED
      BY <1>2, <2>1, <3>1, IncrEffect DEF TypeInv, TypeOK
  <2>3. PerMin(r.by) \in Nat /\ memory[Slot(r)] \in Nat
    BY <1>2, SlotParts DEF TypeInv, TypeOK
  <2>4. /\ memory' \in [Slots -> Nat] /\ \A s \in Slots : memory'[s] <= PerMin(s[1])
        /\ passed' \in [Slots -> Nat]
    BY <1>2, <1>5, <2>3 DEF AllowFails, MemoryFull, TypeInv, TypeOK
  <2>5. Goto(w, "limit", Passed(r)) \/ Goto(w, "limit", "idle")
    BY <1>5 DEF AllowFails
  <2>6. UNCHANGED <<windows, started, bypass, late, wrong>>
    BY <1>5 DEF AllowFails, lockoutVars
  <2>7. "idle" \in Steps \ {"limit"} /\ "idle" \notin LoginSteps
    BY DEF Steps, LoginSteps
  <2>8. QED
    BY <1>3, <2>2, <2>4, <2>5, <2>6, <2>7, StepType DEF TypeInv, TypeOK
<1>6. CASE AllowExpire(w)
  <2>1. pc[w] = "limit_expire" /\ Goto(w, "limit_expire", Passed(r)) /\ StartedKey(w) = r.key
    BY <1>6 DEF AllowExpire, SetTTL, StartedKey
  <2>2. ValuesOK(redis') /\ lost' \subseteq Keys
    BY <1>2, <1>6, <2>1, ExpireEffect DEF AllowExpire, SetTTL, TypeInv, TypeOK
  <2>3. UNCHANGED <<memory, passed, windows, started, bypass, late, wrong>>
    BY <1>6 DEF AllowExpire, SetTTL, lockoutVars, limitVars
  <2>4. QED
    BY <1>3, <2>1, <2>2, <2>3, StepType DEF TypeInv, TypeOK
<1>7. QED
  BY <1>4, <1>5, <1>6

\* Each step of the handler does.
LEMMA HandlerTypes ==
  ASSUME TypeInv, NEW w \in Workers,
         BadRequest(w) \/ IsLocked(w) \/ IsLockedFails(w) \/ Authenticate(w)
  PROVE  TypeInv'
<1>1. PICK from \in {"gate", "auth"}, to \in {"idle", "auth", "success", "failure"} : Goto(w, from, to)
  BY DEF BadRequest, IsLocked, IsLockedFails, Authenticate
<1>2. from \in LoginSteps /\ to \in Steps \ {"limit"} /\ from # "idle" /\ to # "limit_expire"
  BY DEF Steps, LoginSteps
<1>3. ValuesOK(redis) /\ req[w].login \in Logins
  BY <1>1, <1>2, StepParts DEF Goto
<1>4. bypass' \subseteq Workers
  BY DEF BadRequest, IsLocked, IsLockedFails, Authenticate, lockoutVars, TypeInv, TypeOK
<1>5. late' \in [Logins -> Nat] /\ wrong' \in [Logins -> Nat]
  <2>1. CASE Authenticate(w)
    BY <1>3, <2>1 DEF Authenticate, TypeInv, TypeOK
  <2>2. CASE BadRequest(w) \/ IsLocked(w) \/ IsLockedFails(w)
    BY <2>2 DEF BadRequest, IsLocked, IsLockedFails, lockoutVars, TypeInv, TypeOK
  <2>3. QED
    BY <2>1, <2>2
<1>6. UNCHANGED <<redis, memory, passed, windows, started, lost>>
  BY DEF BadRequest, IsLocked, IsLockedFails, Authenticate, limitVars
<1>7. QED
  BY <1>1, <1>2, <1>3, <1>4, <1>5, <1>6, StepType DEF TypeInv, TypeOK

\* Each step of the lockout does.
LEMMA LockoutTypes ==
  ASSUME TypeInv, NEW w \in Workers,
         OnFailure(w) \/ OnFailureFails(w) \/ OnFailureExpire(w) \/ SetLock(w) \/ OnSuccess(w)
  PROVE  TypeInv'
<1> DEFINE l == req[w].login
<1>1. PICK from \in {"failure", "failure_expire", "lock", "success"},
           to \in {"idle", "failure_expire", "lock"} : Goto(w, from, to)
  BY DEF OnFailure, OnFailureFails, OnFailureExpire, SetTTL, SetLock, OnSuccess, AfterCount
<1>2. from \in LoginSteps /\ to \in Steps \ {"limit"} /\ from # "idle" /\ to # "limit_expire"
  BY DEF Steps, LoginSteps
<1>3. ValuesOK(redis) /\ l \in Logins /\ Fail(l) \in Keys /\ Lock(l) \in Keys
  BY <1>1, <1>2, StepParts DEF Goto
<1>4. ValuesOK(redis') /\ lost' \subseteq Keys /\ late' \in [Logins -> Nat] /\ wrong' \in [Logins -> Nat]
  <2>1. CASE OnFailure(w) \/ OnFailureFails(w)
    <3>1. PICK m \in Sent \cup 0..Tries :
            redis' = Incr(Fail(l), m) /\ lost' \in {lost, lost \cup {Fail(l)}}
      <4>1. CASE OnFailure(w)
        BY <4>1 DEF OnFailure
      <4>2. CASE OnFailureFails(w)
        BY <4>2 DEF OnFailureFails
      <4>3. QED
        BY <2>1, <4>1, <4>2
    <3>2. late' = late /\ wrong' = wrong
      BY <2>1 DEF OnFailure, OnFailureFails, lockoutVars
    <3>3. m \in Nat
      BY Runs
    <3>4. QED
      BY <1>3, <3>1, <3>2, <3>3, IncrEffect DEF TypeInv, TypeOK
  <2>2. CASE OnFailureExpire(w)
    <3>1. StartedKey(w) = Fail(l)
      BY <2>2 DEF OnFailureExpire, SetTTL, Goto, StartedKey
    <3>2. QED
      BY <1>3, <2>2, <3>1, ExpireEffect DEF OnFailureExpire, SetTTL, lockoutVars, TypeInv, TypeOK
  <2>3. CASE SetLock(w)
    <3>1. /\ redis' = [redis EXCEPT ![Lock(l)] = [n |-> 1, ttl |-> TRUE]] \/ redis' = redis
          /\ lost' \subseteq lost /\ wrong' = wrong
      BY <2>3 DEF SetLock
    <3>2. late' \in [Logins -> Nat]
      BY <1>3, <2>3 DEF SetLock, TypeInv, TypeOK
    <3>3. ValuesOK(redis')
      BY <1>3, <3>1, PutEffect
    <3>4. QED
      BY <3>1, <3>2, <3>3 DEF TypeInv, TypeOK
  <2>4. CASE OnSuccess(w)
    <3>1. ValuesOK(redis') /\ lost' \subseteq Keys /\ late' = late
      BY <1>3, <2>4, ClearedEffect DEF OnSuccess, TypeInv, TypeOK
    <3>2. wrong' \in [Logins -> Nat]
      BY <1>3, <2>4 DEF OnSuccess, TypeInv, TypeOK
    <3>3. QED
      BY <3>1, <3>2 DEF TypeInv, TypeOK
  <2>5. QED
    BY <2>1, <2>2, <2>3, <2>4
<1>5. UNCHANGED <<memory, passed, windows, started, bypass>>
  BY DEF OnFailure, OnFailureFails, OnFailureExpire, SetTTL, SetLock, OnSuccess, limitVars, lockoutVars
<1>6. QED
  BY <1>1, <1>2, <1>4, <1>5, StepType DEF TypeInv, TypeOK

\* The keys whose EXPIRE is due.
LEMMA StartedKeys ==
  ASSUME TypeInv, NEW w \in Workers, Starting(w)
  PROVE  StartedKey(w) \in Keys
<1>1. pc[w] # "idle" /\ (pc[w] = "limit_expire" \/ pc[w] \in LoginSteps)
  BY DEF Starting, LoginSteps
<1>2. QED
  BY <1>1, StepParts DEF StartedKey, Starting

\* So every step does.
LEMMA TypeStep == TypeInv /\ [Next]_vars => TypeInv'
<1> SUFFICES ASSUME TypeInv, [Next]_vars PROVE TypeInv'
  OBVIOUS
<1>1. ASSUME NEW w \in Workers, NEW r \in Requests, Arrive(w, r) PROVE TypeInv'
  <2>1. /\ pc' = [pc EXCEPT ![w] = IF r.key = None THEN "gate" ELSE "limit"]
        /\ req' = [req EXCEPT ![w] = r] /\ started' = started + 1 /\ started < MaxRequests
        /\ UNCHANGED <<redis, memory, passed, windows, bypass, late, wrong, lost>>
    BY <1>1 DEF Arrive, limitVars, lockoutVars
  <2>2. r.key = None => r.by = "login"
    <3>1. None \notin Users
      BY LoginNoneAssumption DEF Keys
    <3>2. r \in [by : {"login"}, key : Ips \cup {None}, login : Logins]
          \/ r \in [by : {"refresh"}, key : Users, login : {None}]
      BY RequestsAssumption
    <3>3. QED
      BY <3>1, <3>2
  <2>3. ReqInv'
    BY <2>1, <2>2 DEF TypeInv, TypeOK, ReqInv, LoginSteps
  <2>4. started' \in 0..MaxRequests
    BY <2>1, LoginAssumption DEF TypeInv, TypeOK
  <2>5. TypeOK'
    BY <2>1, <2>4 DEF TypeInv, TypeOK
  <2>6. QED
    BY <2>3, <2>5 DEF TypeInv
<1>2. ASSUME NEW k \in Keys, KeyExpires(k) PROVE TypeInv'
  <2>1. ValuesOK(redis')
    <3>1. ValuesOK(redis)
      BY DEF TypeInv, TypeOK, ValuesOK, Values
    <3>2. QED
      BY <1>2, <3>1, PutEffect DEF KeyExpires
  <2>2. windows' \in [Slots -> Nat] /\ lost' \subseteq Keys
    BY <1>2 DEF KeyExpires, TypeInv, TypeOK
  <2>3. UNCHANGED <<memory, passed, pc, req, started, bypass, late, wrong>>
    BY <1>2 DEF KeyExpires, lockoutVars
  <2>4. QED
    BY <2>1, <2>2, <2>3 DEF TypeInv, TypeOK, ReqInv, ValuesOK, Values
<1>3. ASSUME NEW s \in Slots, MemoryWindowEnds(s) PROVE TypeInv'
  <2>1. memory' \in [Slots -> Nat] /\ \A t \in Slots : memory'[t] <= PerMin(t[1])
    BY <1>3, SlotParts DEF MemoryWindowEnds, TypeInv, TypeOK
  <2>2. windows' \in [Slots -> Nat]
    BY <1>3 DEF MemoryWindowEnds, TypeInv, TypeOK
  <2>3. UNCHANGED <<redis, passed, pc, req, started, bypass, late, wrong, lost>>
    BY <1>3 DEF MemoryWindowEnds, lockoutVars
  <2>4. QED
    BY <2>1, <2>2, <2>3 DEF TypeInv, TypeOK, ReqInv
<1>4. CASE Crash
  <2>1. memory' \in [Slots -> Nat] /\ \A t \in Slots : memory'[t] <= PerMin(t[1])
    BY <1>4, SlotParts DEF Crash
  <2>2. windows' \in [Slots -> Nat]
    BY <1>4 DEF Crash, TypeInv, TypeOK
  <2>3. lost' \subseteq Keys
    BY <1>4, StartedKeys DEF Crash, TypeInv, TypeOK
  <2>4. /\ pc' = [v \in Workers |-> "idle"] /\ req' = [v \in Workers |-> None] /\ bypass' = {}
        /\ UNCHANGED <<redis, passed, started, late, wrong>>
    BY <1>4 DEF Crash
  <2>5. ReqInv'
    BY <2>4 DEF ReqInv, LoginSteps
  <2>6. TypeOK'
    BY <2>1, <2>2, <2>3, <2>4 DEF TypeInv, TypeOK
  <2>7. QED
    BY <2>5, <2>6 DEF TypeInv
<1>5. CASE UNCHANGED vars
  BY <1>5 DEF vars, limitVars, lockoutVars, TypeInv, TypeOK, ReqInv
<1>6. QED
  BY <1>1, <1>2, <1>3, <1>4, <1>5, LimitTypes, HandlerTypes, LockoutTypes
  DEF Next, Step, Finished

\* The types hold, and a TTL belongs to a key that exists, whatever keys the
\* limiters and the lockout share and however often a command is sent.
THEOREM TypeTheorem == Spec => []TypeOK
<1>1. TypeInv => TypeOK
  BY DEF TypeInv
<1>2. QED
  BY <1>1, TypeInit, TypeStep, PTL DEF Spec

-----------------------------------------------------------------------------
(* The keys a worker's step changes *)

\* What a step of a rate limit does to its key, and what it leaves alone.
LEMMA LimiterKeys ==
  ASSUME TypeInv, NEW w \in Workers, Allow(w) \/ AllowFails(w) \/ AllowExpire(w)
  PROVE  /\ pc[w] \in {"limit", "limit_expire"} /\ req[w].key \in Ips \cup Users
         /\ Slot(req[w]) \in Slots /\ Slot(req[w])[1] = req[w].by /\ Slot(req[w])[2] = req[w].key
         /\ \A k \in Keys : k # req[w].key => redis'[k] = redis[k]
         /\ redis'[req[w].key].n >= redis[req[w].key].n
         /\ UNCHANGED <<windows, bypass, late, wrong>>
<1> DEFINE r == req[w]
<1>1. pc[w] \in {"limit", "limit_expire"}
  BY DEF Allow, AllowFails, AllowExpire
<1>2. /\ ValuesOK(redis) /\ r.key \in Keys /\ Slot(r) \in Slots
      /\ Slot(r)[1] = r.by /\ Slot(r)[2] = r.key
  BY <1>1, StepParts
<1>3. r.key \in Ips \cup Users
  <2>1. r \in Requests /\ r.key # None
    BY <1>1 DEF TypeInv, ReqInv
  <2>2. QED
    BY <2>1, RequestsAssumption
<1>4. UNCHANGED <<windows, bypass, late, wrong>>
  BY DEF Allow, AllowFails, AllowExpire, SetTTL, limitVars, lockoutVars
<1>5. redis[r.key].n \in Nat
  BY <1>2 DEF ValuesOK, Values
<1>6. CASE Allow(w) \/ AllowFails(w)
  <2>1. PICK m \in Sent \cup 0..Tries : redis' = Incr(r.key, m)
    <3>1. CASE Allow(w)
      BY <3>1 DEF Allow
    <3>2. CASE AllowFails(w)
      BY <3>2 DEF AllowFails
    <3>3. QED
      BY <1>6, <3>1, <3>2
  <2>2. m \in Nat
    BY Runs
  <2>3. /\ redis'[r.key].n = redis[r.key].n + m
        /\ \A k \in Keys : k # r.key => redis'[k] = redis[k]
    BY <1>2, <2>1, <2>2, IncrEffect
  <2>4. redis'[r.key].n >= redis[r.key].n
    BY <1>5, <2>2, <2>3
  <2>5. QED
    BY <1>1, <1>2, <1>3, <1>4, <2>3, <2>4
<1>7. CASE AllowExpire(w)
  <2>1. redis' \in {redis, Expire(r.key)}
    BY <1>7 DEF AllowExpire, SetTTL, StartedKey
  <2>2. redis'[r.key].n = redis[r.key].n /\ \A k \in Keys : k # r.key => redis'[k] = redis[k]
    BY <1>2, <2>1, ExpireEffect
  <2>3. redis'[r.key].n >= redis[r.key].n
    BY <1>5, <2>2
  <2>4. QED
    BY <1>1, <1>2, <1>3, <1>4, <2>2, <2>3
<1>8. QED
  BY <1>6, <1>7

\* A step of the lockout changes the keys of its login only.
LEMMA LoginsKeys ==
  ASSUME TypeInv, NEW w \in Workers,
         OnFailure(w) \/ OnFailureFails(w) \/ OnFailureExpire(w) \/ SetLock(w) \/ OnSuccess(w)
  PROVE  /\ pc[w] \in {"failure", "failure_expire", "lock", "success"} /\ req[w].login \in Logins
         /\ \A k \in Keys : k # Fail(req[w].login) /\ k # Lock(req[w].login) => redis'[k] = redis[k]
         /\ UNCHANGED <<memory, passed, windows, bypass>>
<1> DEFINE l == req[w].login
<1>1. pc[w] \in {"failure", "failure_expire", "lock", "success"}
  BY DEF OnFailure, OnFailureFails, OnFailureExpire, SetTTL, SetLock, OnSuccess, Goto
<1>2. ValuesOK(redis) /\ l \in Logins /\ Fail(l) \in Keys /\ Lock(l) \in Keys
  BY <1>1, StepParts DEF LoginSteps
<1>3. UNCHANGED <<memory, passed, windows, bypass>>
  BY DEF OnFailure, OnFailureFails, OnFailureExpire, SetTTL, SetLock, OnSuccess, limitVars, lockoutVars
<1>4. CASE OnFailure(w) \/ OnFailureFails(w)
  <2>1. PICK m \in Sent \cup 0..Tries : redis' = Incr(Fail(l), m)
    <3>1. CASE OnFailure(w)
      BY <3>1 DEF OnFailure
    <3>2. CASE OnFailureFails(w)
      BY <3>2 DEF OnFailureFails
    <3>3. QED
      BY <1>4, <3>1, <3>2
  <2>2. m \in Nat
    BY Runs
  <2>3. QED
    BY <1>1, <1>2, <1>3, <2>1, <2>2, IncrEffect
<1>5. CASE OnFailureExpire(w)
  <2>1. redis' \in {redis, Expire(Fail(l))}
    BY <1>5 DEF OnFailureExpire, SetTTL, Goto, StartedKey
  <2>2. QED
    BY <1>1, <1>2, <1>3, <2>1, ExpireEffect
<1>6. CASE SetLock(w)
  <2>1. redis' = redis \/ redis' = [redis EXCEPT ![Lock(l)] = [n |-> 1, ttl |-> TRUE]]
    BY <1>6 DEF SetLock
  <2>2. QED
    BY <1>1, <1>2, <1>3, <2>1, SetEffect
<1>7. CASE OnSuccess(w)
  <2>1. redis' \in {redis, Cleared(l)}
    BY <1>7 DEF OnSuccess
  <2>2. QED
    BY <1>1, <1>2, <1>3, <2>1, ClearedEffect
<1>8. QED
  BY <1>4, <1>5, <1>6, <1>7

-----------------------------------------------------------------------------
(* The rate limits *)

LEMMA Product == \A a, b \in Nat : a * (b + 1) = a * b + a /\ a * b \in Nat
OBVIOUS

\* The numbers of a slot.
LEMMA SlotNumbers ==
  ASSUME TypeInv, NEW s \in Slots
  PROVE  /\ passed[s] \in Nat /\ windows[s] \in Nat /\ memory[s] \in Nat
         /\ redis[s[2]].n \in Nat /\ PerMin(s[1]) \in Nat /\ memory[s] <= PerMin(s[1])
         /\ PerMin(s[1]) * windows[s] \in Nat
<1>1. s[2] \in Keys /\ PerMin(s[1]) \in Nat
  BY SlotParts
<1>2. passed[s] \in Nat /\ windows[s] \in Nat /\ memory[s] \in Nat /\ memory[s] <= PerMin(s[1])
  BY DEF TypeInv, TypeOK
<1>3. redis[s[2]].n \in Nat
  BY <1>1 DEF TypeInv, TypeOK
<1>4. QED
  BY <1>1, <1>2, <1>3, Product

\* Nobody passes.
LEMMA LimitSame ==
  ASSUME TypeInv, TypeInv', NEW s \in Slots, LimitOK(s), passed'[s] = passed[s],
         windows'[s] = windows[s], redis'[s[2]].n >= redis[s[2]].n, memory'[s] = memory[s]
  PROVE  LimitOK(s)'
<1>1. redis'[s[2]].n \in Nat
  BY SlotParts DEF TypeInv, TypeOK
<1> DEFINE limit == PerMin(s[1])
           a == redis[s[2]].n
           b == redis'[s[2]].n
<1>2. a \in Nat /\ b \in Nat /\ limit \in Nat /\ b >= a
  BY <1>1, SlotNumbers
<1>3. Counted(a, limit) <= Counted(b, limit) /\ Counted(a, limit) \in Nat /\ Counted(b, limit) \in Nat
  BY <1>2 DEF Counted
<1> HIDE DEF a, b, limit
<1>4. passed[s] <= limit * windows[s] + Counted(a, limit) + memory[s]
  BY DEF LimitOK, a, limit
<1>5. passed'[s] <= limit * windows'[s] + Counted(b, limit) + memory'[s]
  <2>1. limit * windows[s] \in Nat /\ passed[s] \in Nat /\ memory[s] \in Nat
    BY SlotNumbers DEF limit
  <2>2. QED
    BY <1>3, <1>4, <2>1
<1>6. QED
  BY <1>5 DEF LimitOK, b, limit

\* A window ends, and what was counted in it counts for the window.
LEMMA LimitEnds ==
  ASSUME TypeInv, TypeInv', NEW s \in Slots, LimitOK(s), passed'[s] = passed[s],
         windows'[s] = windows[s] + 1,
         \/ redis'[s[2]].n = 0 /\ memory'[s] = memory[s]
         \/ redis'[s[2]].n = redis[s[2]].n /\ memory'[s] = 0
  PROVE  LimitOK(s)'
<1> DEFINE limit == PerMin(s[1])
           a == redis[s[2]].n
           b == redis'[s[2]].n
<1>1. /\ a \in Nat /\ limit \in Nat /\ memory[s] \in Nat /\ passed[s] \in Nat /\ windows[s] \in Nat
      /\ memory[s] <= limit /\ limit * windows[s] \in Nat
  BY SlotNumbers
<1>2. limit * windows'[s] = limit * windows[s] + limit
  BY <1>1, Product
<1>3. Counted(a, limit) \in Nat /\ Counted(a, limit) <= limit /\ Counted(0, limit) = 0
  BY <1>1 DEF Counted
<1>4. (b = 0 /\ memory'[s] = memory[s]) \/ (b = a /\ memory'[s] = 0)
  OBVIOUS
<1>5. passed[s] <= limit * windows[s] + Counted(a, limit) + memory[s]
  BY DEF LimitOK
<1> HIDE DEF a, b, limit
<1>6. passed'[s] <= limit * windows'[s] + Counted(b, limit) + memory'[s]
  <2>1. CASE b = 0 /\ memory'[s] = memory[s]
    BY <1>1, <1>2, <1>3, <1>5, <2>1
  <2>2. CASE b = a /\ memory'[s] = 0
    BY <1>1, <1>2, <1>3, <1>5, <2>2
  <2>3. QED
    BY <1>4, <2>1, <2>2
<1>7. QED
  BY <1>6 DEF LimitOK, b, limit

\* A request is counted in Redis or in memory, and let through or not.
LEMMA LimitAllow ==
  ASSUME TypeInv, TypeInv', NEW s \in OwnSlots, LimitOK(s), NEW w \in Workers,
         Allow(w) \/ AllowFails(w)
  PROVE  LimitOK(s)'
<1> DEFINE r == req[w]
<1>1. /\ s \in Slots /\ Slot(r) \in Slots /\ Slot(r)[1] = r.by /\ Slot(r)[2] = r.key
      /\ windows' = windows /\ \A k \in Keys : k # r.key => redis'[k] = redis[k]
      /\ redis'[r.key].n >= redis[r.key].n
  BY LimiterKeys DEF OwnSlots
<1>2. passed \in [Slots -> Nat] /\ memory \in [Slots -> Nat]
  BY DEF TypeInv, TypeOK
<1>3. CASE Slot(r) # s
  <2>1. r.key # s[2]
    BY <1>1, <1>3 DEF OwnSlots
  <2>2. redis'[s[2]] = redis[s[2]]
    BY <1>1, <2>1, SlotParts
  <2>3. passed'[s] = passed[s] /\ memory'[s] = memory[s]
    BY <1>1, <1>2, <1>3 DEF Allow, AllowFails
  <2>4. redis[s[2]].n \in Nat
    BY <1>1, SlotNumbers
  <2>5. redis'[s[2]].n >= redis[s[2]].n
    BY <2>2, <2>4
  <2>6. QED
    BY <1>1, <2>3, <2>5, LimitSame
<1>4. CASE Slot(r) = s
  <2> DEFINE limit == PerMin(s[1])
             a == redis[s[2]].n
             b == redis'[s[2]].n
  <2>1. s[1] = r.by /\ s[2] = r.key
    BY <1>1, <1>4
  <2>2. /\ a \in Nat /\ limit \in Nat /\ memory[s] \in Nat /\ passed[s] \in Nat
        /\ limit * windows[s] \in Nat
    BY <1>1, SlotNumbers
  <2>3. passed[s] <= limit * windows[s] + Counted(a, limit) + memory[s]
    BY DEF LimitOK
  <2>4. CASE Allow(w)
    <3>1. PICK m \in Sent :
            /\ redis' = Incr(r.key, m)
            /\ passed' = [passed EXCEPT ![s] = IF OverLimit(redis[r.key].n + m, PerMin(r.by)) THEN @ ELSE @ + 1]
      BY <1>4, <2>4 DEF Allow
    <3>2. m \in Nat \ {0} /\ memory' = memory
      BY <2>4, Runs DEF Allow
    <3>3. b = a + m
      <4>1. ValuesOK(redis) /\ r.key \in Keys
        BY <1>1, <2>1, SlotParts DEF TypeInv, TypeOK, ValuesOK, Values
      <4>2. QED
        BY <2>1, <3>1, <3>2, <4>1, IncrEffect
    <3>4. CASE OverLimit(redis[r.key].n + m, PerMin(r.by))
      <4>1. passed'[s] = passed[s]
        BY <1>1, <1>2, <3>1, <3>4
      <4>2. QED
        BY <1>1, <2>1, <3>2, <4>1, LimitSame
    <3>5. CASE ~OverLimit(redis[r.key].n + m, PerMin(r.by))
      <4>1. passed'[s] = passed[s] + 1
        BY <1>1, <1>2, <3>1, <3>5
      <4>2. b <= limit
        BY <2>1, <2>2, <3>2, <3>3, <3>5 DEF OverLimit
      <4> HIDE DEF a, b, limit
      <4>3. Counted(a, limit) + 1 <= Counted(b, limit) /\ Counted(a, limit) \in Nat /\ Counted(b, limit) \in Nat
        BY <2>2, <3>2, <3>3, <4>2 DEF Counted
      <4>4. passed'[s] <= limit * windows'[s] + Counted(b, limit) + memory'[s]
        BY <1>1, <2>2, <2>3, <3>2, <4>1, <4>3
      <4>5. QED
        BY <4>4 DEF LimitOK, b, limit
    <3>6. QED
      BY <3>4, <3>5
  <2>5. CASE AllowFails(w)
    <3>1. CASE UNCHANGED <<memory, passed>>
      BY <1>1, <2>1, <3>1, LimitSame
    <3>2. CASE memory' = [memory EXCEPT ![s] = @ + 1] /\ passed' = [passed EXCEPT ![s] = @ + 1]
      <4>1. memory'[s] = memory[s] + 1 /\ passed'[s] = passed[s] + 1
        BY <1>1, <1>2, <3>2
      <4>2. b \in Nat /\ b >= a
        BY <1>1, <2>1, SlotParts DEF TypeInv, TypeOK
      <4> HIDE DEF a, b, limit
      <4>3. Counted(a, limit) <= Counted(b, limit) /\ Counted(a, limit) \in Nat /\ Counted(b, limit) \in Nat
        BY <2>2, <4>2 DEF Counted
      <4>4. passed'[s] <= limit * windows'[s] + Counted(b, limit) + memory'[s]
        BY <1>1, <2>2, <2>3, <4>1, <4>3
      <4>5. QED
        BY <4>4 DEF LimitOK, b, limit
    <3>3. QED
      BY <1>4, <2>5, <3>1, <3>2 DEF AllowFails
  <2>6. QED
    BY <2>4, <2>5
<1>5. QED
  BY <1>3, <1>4

\* So every step keeps it.
LEMMA LimitStep ==
  ASSUME TypeInv, TypeInv', LimitInv, [Next]_vars
  PROVE  LimitInv'
<1> SUFFICES ASSUME NEW s \in OwnSlots PROVE LimitOK(s)'
  BY DEF LimitInv, OwnSlots
<1>1. LimitOK(s) /\ s \in Slots /\ s[2] \in Keys /\ s[2] \notin LockoutKeys
  BY SlotParts DEF LimitInv, OwnSlots
<1>2. ASSUME passed' = passed, windows' = windows, memory' = memory, redis'[s[2]].n = redis[s[2]].n
      PROVE  LimitOK(s)'
  BY <1>1, <1>2, SlotNumbers, LimitSame
<1>3. ASSUME NEW w \in Workers, Step(w) PROVE LimitOK(s)'
  <2>1. CASE Allow(w) \/ AllowFails(w)
    BY <1>1, <2>1, LimitAllow
  <2>2. CASE AllowExpire(w)
    <3>1. passed' = passed /\ memory' = memory
      BY <2>2 DEF AllowExpire, SetTTL, limitVars
    <3>2. windows' = windows /\ redis'[s[2]].n >= redis[s[2]].n
      <4>1. /\ windows' = windows /\ redis'[req[w].key].n >= redis[req[w].key].n
            /\ \A k \in Keys : k # req[w].key => redis'[k] = redis[k]
        BY <2>2, LimiterKeys
      <4>2. redis[s[2]].n \in Nat
        BY <1>1, SlotNumbers
      <4>3. CASE s[2] = req[w].key
        BY <4>1, <4>3
      <4>4. CASE s[2] # req[w].key
        BY <1>1, <4>1, <4>2, <4>4
      <4>5. QED
        BY <4>1, <4>3, <4>4
    <3>3. QED
      BY <1>1, <3>1, <3>2, LimitSame
  <2>3. CASE BadRequest(w) \/ IsLocked(w) \/ IsLockedFails(w) \/ Authenticate(w)
    BY <1>2, <2>3 DEF BadRequest, IsLocked, IsLockedFails, Authenticate, limitVars
  <2>4. CASE OnFailure(w) \/ OnFailureFails(w) \/ OnFailureExpire(w) \/ SetLock(w) \/ OnSuccess(w)
    <3>1. /\ req[w].login \in Logins /\ UNCHANGED <<memory, passed, windows>>
          /\ \A k \in Keys : k # Fail(req[w].login) /\ k # Lock(req[w].login) => redis'[k] = redis[k]
      BY <2>4, LoginsKeys
    <3>2. redis'[s[2]] = redis[s[2]]
      BY <1>1, <3>1, LoginKeys
    <3>3. QED
      BY <1>2, <3>1, <3>2
  <2>5. QED
    BY <1>3, <2>1, <2>2, <2>3, <2>4 DEF Step
<1>4. ASSUME NEW w \in Workers, NEW r \in Requests, Arrive(w, r) PROVE LimitOK(s)'
  BY <1>2, <1>4 DEF Arrive, limitVars
<1>5. ASSUME NEW k \in Keys, KeyExpires(k) PROVE LimitOK(s)'
  <2>1. /\ passed' = passed /\ memory' = memory /\ redis' = [redis EXCEPT ![k] = Absent]
        /\ windows'[s] = IF s[2] = k THEN windows[s] + 1 ELSE windows[s]
    BY <1>1, <1>5 DEF KeyExpires
  <2>2. ValuesOK(redis)
    BY DEF TypeInv, TypeOK, ValuesOK, Values
  <2>3. CASE s[2] = k
    <3>1. redis'[s[2]].n = 0
      BY <2>1, <2>2, <2>3, PutEffect DEF Absent
    <3>2. QED
      BY <1>1, <2>1, <2>3, <3>1, LimitEnds
  <2>4. CASE s[2] # k
    <3>1. redis'[s[2]] = redis[s[2]]
      BY <1>1, <2>1, <2>2, <2>4, PutEffect
    <3>2. redis[s[2]].n \in Nat
      BY <1>1, SlotNumbers
    <3>3. QED
      BY <1>1, <2>1, <2>4, <3>1, <3>2, LimitSame
  <2>5. QED
    BY <2>3, <2>4
<1>6. ASSUME NEW t \in Slots, MemoryWindowEnds(t) PROVE LimitOK(s)'
  <2>1. /\ passed' = passed /\ redis' = redis
        /\ memory'[s] = IF s = t THEN 0 ELSE memory[s]
        /\ windows'[s] = IF s = t THEN windows[s] + 1 ELSE windows[s]
    BY <1>1, <1>6 DEF MemoryWindowEnds, TypeInv, TypeOK
  <2>2. redis[s[2]].n \in Nat
    BY <1>1, SlotNumbers
  <2>3. QED
    BY <1>1, <2>1, <2>2, LimitEnds, LimitSame
<1>7. CASE Crash
  <2>1. /\ passed' = passed /\ redis' = redis /\ memory'[s] = 0
        /\ windows'[s] = IF memory[s] > 0 THEN windows[s] + 1 ELSE windows[s]
    BY <1>1, <1>7 DEF Crash
  <2>2. redis[s[2]].n \in Nat /\ memory[s] \in Nat
    BY <1>1, SlotNumbers
  <2>3. CASE memory[s] > 0
    BY <1>1, <2>1, <2>2, <2>3, LimitEnds
  <2>4. CASE ~(memory[s] > 0)
    BY <1>1, <2>1, <2>2, <2>4, LimitSame
  <2>5. QED
    BY <2>3, <2>4
<1>8. CASE UNCHANGED vars
  BY <1>2, <1>8 DEF vars, limitVars
<1>9. QED
  BY <1>3, <1>4, <1>5, <1>6, <1>7, <1>8 DEF Next, Finished

\* A limiter lets no more requests through than its limit for each window that
\* is over and for the two that are not, with Redis failing at any command, or
\* running one as often as it is sent, and with any number of restarts.
THEOREM LimitTheorem == Spec => []LimitPerWindow
<1>1. Init => LimitInv
  <2> SUFFICES ASSUME Init, NEW s \in OwnSlots PROVE LimitOK(s)
    BY DEF LimitInv
  <2>1. s \in Slots /\ s[2] \in Keys /\ PerMin(s[1]) \in Nat \ {0}
    BY SlotParts DEF OwnSlots
  <2>2. passed[s] = 0 /\ windows[s] = 0 /\ memory[s] = 0 /\ redis[s[2]].n = 0
    BY <2>1 DEF Init, Absent
  <2>3. QED
    BY <2>1, <2>2 DEF LimitOK, Counted
<1>2. TypeInv /\ LimitInv => LimitPerWindow
  <2> SUFFICES ASSUME TypeInv, LimitInv, NEW s \in OwnSlots
               PROVE  passed[s] <= PerMin(s[1]) * (windows[s] + 2)
    BY DEF LimitPerWindow
  <2> DEFINE limit == PerMin(s[1])
             a == redis[s[2]].n
  <2>1. s \in Slots /\ LimitOK(s)
    BY DEF OwnSlots, LimitInv
  <2>2. /\ passed[s] \in Nat /\ windows[s] \in Nat /\ memory[s] \in Nat /\ limit \in Nat
        /\ a \in Nat /\ memory[s] <= limit /\ limit * windows[s] \in Nat
    BY <2>1, SlotNumbers
  <2>3. passed[s] <= limit * windows[s] + Counted(a, limit) + memory[s]
    BY <2>1 DEF LimitOK
  <2> HIDE DEF limit, a
  <2>4. Counted(a, limit) \in Nat /\ Counted(a, limit) <= limit
    BY <2>2 DEF Counted
  <2>5. limit * (windows[s] + 2) = limit * windows[s] + limit + limit
    <3>1. limit * (windows[s] + 1) = limit * windows[s] + limit
      BY <2>2, Product
    <3>2. limit * ((windows[s] + 1) + 1) = limit * (windows[s] + 1) + limit
      BY <2>2, Product
    <3>3. (windows[s] + 1) + 1 = windows[s] + 2
      BY <2>2
    <3>4. QED
      BY <3>1, <3>2, <3>3
  <2>6. passed[s] <= limit * (windows[s] + 2)
    BY <2>2, <2>3, <2>4, <2>5
  <2>7. QED
    BY <2>6 DEF limit
<1>3. TypeInv /\ LimitInv /\ [Next]_vars => TypeInv' /\ LimitInv'
  BY TypeStep, LimitStep
<1>4. QED
  BY <1>1, <1>2, <1>3, TypeInit, PTL DEF Spec

-----------------------------------------------------------------------------
(* Every key gets its TTL *)

DueOK(k) ==
  redis[k].n > 0 =>
    redis[k].ttl \/ k \in lost \/ \E w \in Workers : Starting(w) /\ StartedKey(w) = k

\* A worker's step that neither starts the key's counter nor sends its EXPIRE.
LEMMA DueSame ==
  ASSUME NEW k \in Keys, DueOK(k), NEW w \in Workers,
         \A v \in Workers : v # w => pc'[v] = pc[v] /\ req'[v] = req[v],
         ~(Starting(w) /\ StartedKey(w) = k),
         redis'[k].n > 0 => redis[k].n > 0 /\ (redis[k].ttl => redis'[k].ttl) /\ (k \in lost => k \in lost')
  PROVE  DueOK(k)'
<1> SUFFICES ASSUME redis'[k].n > 0
             PROVE  redis'[k].ttl \/ k \in lost' \/ \E v \in Workers : Starting(v)' /\ StartedKey(v)' = k
  BY DEF DueOK
<1>1. CASE redis[k].ttl \/ k \in lost
  BY <1>1
<1>2. ASSUME NEW v \in Workers, Starting(v), StartedKey(v) = k
      PROVE  Starting(v)' /\ StartedKey(v)' = k
  <2>1. v # w
    BY <1>2
  <2>2. pc'[v] = pc[v] /\ req'[v] = req[v]
    BY <2>1
  <2>3. QED
    BY <1>2, <2>2 DEF Starting, StartedKey
<1>3. QED
  BY <1>1, <1>2 DEF DueOK

\* The steps that count: who starts a counter has its EXPIRE to send, unless the
\* INCR was sent twice or failed.
LEMMA DueCount ==
  ASSUME TypeInv, NEW k \in Keys, DueOK(k), NEW w \in Workers, NEW j \in Keys, NEW m \in Nat,
         NEW from \in {"limit", "failure"}, pc[w] = from,
         \A v \in Workers : v # w => pc'[v] = pc[v] /\ req'[v] = req[v],
         redis' = Incr(j, m), lost \subseteq lost',
         redis[j].n = 0 /\ m > 0 => j \in lost' \/ (Starting(w)' /\ StartedKey(w)' = j)
  PROVE  DueOK(k)'
<1>1. ValuesOK(redis) /\ ~Starting(w)
  BY DEF TypeInv, TypeOK, ValuesOK, Values, Starting
<1>2. /\ Incr(j, m)[j].n = redis[j].n + m
      /\ \A i \in Keys : i # j => Incr(j, m)[i] = redis[i]
      /\ \A i \in Keys : Incr(j, m)[i].ttl = redis[i].ttl
  BY <1>1, IncrEffect
<1>3. redis[j].n \in Nat
  BY <1>1 DEF ValuesOK, Values
<1>4. CASE k = j /\ redis[j].n = 0 /\ m > 0
  BY <1>4 DEF DueOK
<1>5. CASE ~(k = j /\ redis[j].n = 0 /\ m > 0)
  <2>1. redis'[k].n > 0 => redis[k].n > 0
    BY <1>2, <1>3, <1>5
  <2>2. redis'[k].ttl = redis[k].ttl
    BY <1>2
  <2>3. QED
    BY <1>1, <2>1, <2>2, DueSame
<1>6. QED
  BY <1>4, <1>5

\* The EXPIRE, and its failure.
LEMMA DueTTL ==
  ASSUME TypeInv, NEW k \in Keys, DueOK(k), NEW w \in Workers, NEW from, NEW to,
         SetTTL(w, from, to), Starting(w)
  PROVE  DueOK(k)'
<1> DEFINE j == StartedKey(w)
<1>1. ValuesOK(redis) /\ j \in Keys
  BY StartedKeys DEF TypeInv, TypeOK, ValuesOK, Values
<1>2. \A v \in Workers : v # w => pc'[v] = pc[v] /\ req'[v] = req[v]
  BY DEF SetTTL, Goto, TypeInv, TypeOK
<1>3. (redis' = Expire(j) /\ lost' = lost \ {j}) \/ (redis' = redis /\ lost' = lost \cup {j})
  BY DEF SetTTL
<1>4. CASE k = j
  <2>1. CASE redis' = Expire(j)
    <3>1. redis'[k].n = redis[k].n /\ (redis'[k].ttl <=> redis[k].n > 0)
      BY <1>1, <1>4, <2>1, ExpireEffect
    <3>2. QED
      BY <3>1 DEF DueOK
  <2>2. CASE lost' = lost \cup {j}
    BY <1>4, <2>2 DEF DueOK
  <2>3. QED
    BY <1>3, <2>1, <2>2
<1>5. CASE k # j
  <2>1. redis'[k] = redis[k]
    BY <1>1, <1>3, <1>5, ExpireEffect
  <2>2. k \in lost => k \in lost'
    BY <1>3, <1>5
  <2>3. QED
    BY <1>2, <1>5, <2>1, <2>2, DueSame
<1>6. QED
  BY <1>4, <1>5

\* So every step of a worker keeps it.
LEMMA DueWorker ==
  ASSUME TypeInv, NEW k \in Keys, DueOK(k), NEW w \in Workers, Step(w)
  PROVE  DueOK(k)'
<1>1. pc[w] # "idle" /\ \A v \in Workers : v # w => pc'[v] = pc[v] /\ req'[v] = req[v]
  <2>1. PICK from, to : Goto(w, from, to) /\ from # "idle"
    <3>1. CASE Allow(w) \/ AllowFails(w) \/ AllowExpire(w) \/ BadRequest(w)
      BY <3>1 DEF Allow, AllowFails, AllowExpire, SetTTL, BadRequest
    <3>2. CASE IsLocked(w) \/ IsLockedFails(w) \/ Authenticate(w) \/ SetLock(w) \/ OnSuccess(w)
      BY <3>2 DEF IsLocked, IsLockedFails, Authenticate, SetLock, OnSuccess
    <3>3. CASE OnFailure(w) \/ OnFailureFails(w) \/ OnFailureExpire(w)
      BY <3>3 DEF OnFailure, OnFailureFails, OnFailureExpire, SetTTL
    <3>4. QED
      BY <3>1, <3>2, <3>3 DEF Step
  <2>2. QED
    BY <2>1 DEF Goto, TypeInv, TypeOK
<1>2. ValuesOK(redis)
  BY DEF TypeInv, TypeOK, ValuesOK, Values
<1>3. CASE Allow(w)
  <2>1. PICK m \in Sent :
          /\ redis[req[w].key].n + m = 1 => Goto(w, "limit", "limit_expire")
          /\ redis' = Incr(req[w].key, m)
          /\ lost' = IF redis[req[w].key].n + m = m /\ m > 1 THEN lost \cup {req[w].key} ELSE lost
    BY <1>3 DEF Allow, Starts
  <2>2. m \in Nat \ {0} /\ pc[w] = "limit" /\ req[w].key \in Keys
    BY <1>3, Runs, StepParts DEF Allow
  <2>3. ASSUME redis[req[w].key].n = 0
        PROVE  req[w].key \in lost' \/ (Starting(w)' /\ StartedKey(w)' = req[w].key)
    <3>1. CASE m > 1
      BY <2>1, <2>2, <2>3, <3>1
    <3>2. CASE m = 1
      <4>1. Goto(w, "limit", "limit_expire")
        BY <2>1, <2>3, <3>2
      <4>2. pc'[w] = "limit_expire" /\ req' = req
        BY <4>1 DEF Goto, TypeInv, TypeOK
      <4>3. QED
        BY <4>2 DEF Starting, StartedKey
    <3>3. QED
      BY <2>2, <3>1, <3>2
  <2>4. QED
    BY <1>1, <2>1, <2>2, <2>3, DueCount
<1>4. CASE AllowFails(w)
  <2>1. PICK m \in 0..Tries :
          /\ redis' = Incr(req[w].key, m)
          /\ lost' = IF redis[req[w].key].n = 0 /\ m > 0 THEN lost \cup {req[w].key} ELSE lost
    BY <1>4 DEF AllowFails
  <2>2. m \in Nat /\ pc[w] = "limit" /\ req[w].key \in Keys
    BY <1>4, Runs, StepParts DEF AllowFails
  <2>3. QED
    BY <1>1, <2>1, <2>2, DueCount
<1>5. CASE OnFailure(w)
  <2> DEFINE j == Fail(req[w].login)
  <2>1. PICK m \in Sent :
          /\ redis[j].n + m = 1 => Goto(w, "failure", "failure_expire")
          /\ redis' = Incr(j, m)
          /\ lost' = IF redis[j].n + m = m /\ m > 1 THEN lost \cup {j} ELSE lost
    BY <1>5 DEF OnFailure, Starts
  <2>2. m \in Nat \ {0} /\ pc[w] = "failure" /\ j \in Keys
    BY <1>5, Runs, StepParts DEF OnFailure, LoginSteps
  <2>3. ASSUME redis[j].n = 0
        PROVE  j \in lost' \/ (Starting(w)' /\ StartedKey(w)' = j)
    <3>1. CASE m > 1
      BY <2>1, <2>2, <2>3, <3>1
    <3>2. CASE m = 1
      <4>1. Goto(w, "failure", "failure_expire")
        BY <2>1, <2>3, <3>2
      <4>2. pc'[w] = "failure_expire" /\ req' = req
        BY <4>1 DEF Goto, TypeInv, TypeOK
      <4>3. QED
        BY <4>2 DEF Starting, StartedKey
    <3>3. QED
      BY <2>2, <3>1, <3>2
  <2> HIDE DEF j
  <2>4. QED
    BY <1>1, <2>1, <2>2, <2>3, DueCount
<1>6. CASE OnFailureFails(w)
  <2> DEFINE j == Fail(req[w].login)
  <2>1. PICK m \in 0..Tries :
          /\ redis' = Incr(j, m)
          /\ lost' = IF redis[j].n = 0 /\ m > 0 THEN lost \cup {j} ELSE lost
    BY <1>6 DEF OnFailureFails
  <2>2. pc[w] = "failure"
    BY <1>6 DEF OnFailureFails, Goto
  <2>3. m \in Nat /\ j \in Keys
    BY <2>2, Runs, StepParts DEF LoginSteps
  <2> HIDE DEF j
  <2>4. QED
    BY <1>1, <2>1, <2>2, <2>3, DueCount
<1>7. CASE AllowExpire(w) \/ OnFailureExpire(w)
  BY <1>7, DueTTL DEF AllowExpire, OnFailureExpire, SetTTL, Goto, Starting
<1>8. CASE BadRequest(w) \/ IsLocked(w) \/ IsLockedFails(w) \/ Authenticate(w)
  <2>1. redis' = redis /\ lost' = lost /\ ~Starting(w)
    BY <1>8 DEF BadRequest, IsLocked, IsLockedFails, Authenticate, Goto, Starting
  <2>2. QED
    BY <1>1, <2>1, DueSame
<1>9. CASE SetLock(w)
  <2> DEFINE j == Lock(req[w].login)
  <2>1. pc[w] = "lock" /\ ~Starting(w)
    BY <1>9 DEF SetLock, Goto, Starting
  <2>2. j \in Keys
    BY <2>1, StepParts DEF LoginSteps
  <2>3. \/ redis' = [redis EXCEPT ![j] = [n |-> 1, ttl |-> TRUE]] /\ lost' = lost \ {j}
        \/ redis' = redis /\ lost' = lost
    BY <1>9 DEF SetLock
  <2> HIDE DEF j
  <2>4. CASE redis' = redis /\ lost' = lost
    BY <1>1, <2>1, <2>4, DueSame
  <2>5. CASE redis' = [redis EXCEPT ![j] = [n |-> 1, ttl |-> TRUE]] /\ lost' = lost \ {j}
    <3>1. /\ redis'[j] = [n |-> 1, ttl |-> TRUE]
          /\ \A i \in Keys : i # j => redis'[i] = redis[i]
      BY <1>2, <2>2, <2>5, PutEffect
    <3>2. CASE k = j
      BY <3>1, <3>2 DEF DueOK
    <3>3. CASE k # j
      BY <1>1, <2>1, <2>5, <3>1, <3>3, DueSame
    <3>4. QED
      BY <3>2, <3>3
  <2>6. QED
    BY <2>3, <2>4, <2>5
<1>10. CASE OnSuccess(w)
  <2> DEFINE l == req[w].login
  <2>1. pc[w] = "success" /\ ~Starting(w)
    BY <1>10 DEF OnSuccess, Goto, Starting
  <2>2. l \in Logins
    BY <2>1, StepParts DEF LoginSteps
  <2>3. \/ redis' = Cleared(l) /\ lost' = {i \in lost : redis'[i].n > 0}
        \/ redis' = redis /\ lost' = lost
    BY <1>10 DEF OnSuccess
  <2>4. CASE redis' = redis /\ lost' = lost
    BY <1>1, <2>1, <2>4, DueSame
  <2>5. CASE redis' = Cleared(l) /\ lost' = {i \in lost : redis'[i].n > 0}
    <3>1. redis'[k] = redis[k] \/ redis'[k] = Absent
      BY <1>2, <2>2, <2>5, ClearedEffect
    <3>2. redis'[k].n > 0 => redis'[k] = redis[k]
      BY <3>1 DEF Absent
    <3>3. redis'[k].n > 0 /\ k \in lost => k \in lost'
      BY <2>5
    <3>4. QED
      BY <1>1, <2>1, <3>2, <3>3, DueSame
  <2>6. QED
    BY <2>3, <2>4, <2>5
<1>11. QED
  BY <1>3, <1>4, <1>5, <1>6, <1>7, <1>8, <1>9, <1>10 DEF Step

\* And so does every other step.
LEMMA DueStep ==
  ASSUME TypeInv, TTLDue, [Next]_vars
  PROVE  TTLDue'
<1> SUFFICES ASSUME NEW k \in Keys PROVE DueOK(k)'
  BY DEF TTLDue, DueOK
<1>1. DueOK(k) /\ ValuesOK(redis)
  BY DEF TTLDue, DueOK, TypeInv, TypeOK, ValuesOK, Values
<1>2. ASSUME NEW w \in Workers, Step(w) PROVE DueOK(k)'
  BY <1>1, <1>2, DueWorker
<1>3. ASSUME NEW w \in Workers, NEW r \in Requests, Arrive(w, r) PROVE DueOK(k)'
  <2>1. /\ redis' = redis /\ lost' = lost /\ ~Starting(w)
        /\ \A v \in Workers : v # w => pc'[v] = pc[v] /\ req'[v] = req[v]
    BY <1>3 DEF Arrive, Starting, TypeInv, TypeOK
  <2>2. QED
    BY <1>1, <2>1, DueSame
<1>4. ASSUME NEW j \in Keys, KeyExpires(j) PROVE DueOK(k)'
  <2>1. redis' = [redis EXCEPT ![j] = Absent] /\ lost' = lost \ {j} /\ pc' = pc /\ req' = req
    BY <1>4 DEF KeyExpires
  <2>2. CASE k = j
    <3>1. redis'[k].n = 0
      BY <1>1, <2>1, <2>2, PutEffect DEF Absent
    <3>2. QED
      BY <3>1 DEF DueOK
  <2>3. CASE k # j
    <3>1. redis'[k] = redis[k]
      BY <1>1, <2>1, <2>3, PutEffect
    <3>2. QED
      BY <1>1, <2>1, <2>3, <3>1 DEF DueOK, Starting, StartedKey
  <2>4. QED
    BY <2>2, <2>3
<1>5. ASSUME redis' = redis, lost' = lost, pc' = pc, req' = req PROVE DueOK(k)'
  BY <1>1, <1>5 DEF DueOK, Starting, StartedKey
<1>6. ASSUME NEW s \in Slots, MemoryWindowEnds(s) PROVE DueOK(k)'
  BY <1>5, <1>6 DEF MemoryWindowEnds
<1>7. CASE Crash
  <2>1. /\ redis' = redis
        /\ lost' = lost \cup {StartedKey(w) : w \in {v \in Workers : Starting(v)}}
    BY <1>7 DEF Crash
  <2>2. QED
    BY <1>1, <2>1 DEF DueOK
<1>8. CASE UNCHANGED vars
  BY <1>5, <1>8 DEF vars
<1>9. QED
  BY <1>2, <1>3, <1>4, <1>6, <1>7, <1>8 DEF Next, Finished

\* No counter and no lock stays for good unless an EXPIRE failed or an INCR ran
\* more than once or without an answer: a request is still to give it its TTL.
THEOREM DueTheorem == Spec => []TTLDue
<1>1. Init => TTLDue
  BY DEF Init, TTLDue, Absent
<1>2. TypeInv /\ TTLDue /\ [Next]_vars => TypeInv' /\ TTLDue'
  BY TypeStep, DueStep
<1>3. QED
  BY <1>1, <1>2, TypeInit, PTL DEF Spec

-----------------------------------------------------------------------------
(* Counting workers *)

\* Sets of workers can be counted.
LEMMA Sizes ==
  /\ Cardinality(Workers) \in Nat /\ Cardinality(Workers) >= 1
  /\ \A S \in SUBSET Workers : IsFiniteSet(S) /\ Cardinality(S) \in Nat
  /\ \A S \in SUBSET Workers : \A T \in SUBSET S : Cardinality(T) <= Cardinality(S)
<1>1. IsFiniteSet(Workers) /\ Workers # {}
  BY LoginAssumption
<1>2. Cardinality(Workers) \in Nat /\ Cardinality(Workers) # 0
  BY <1>1, FS_CardinalityType, FS_EmptySet
<1>3. ASSUME NEW S \in SUBSET Workers PROVE IsFiniteSet(S) /\ Cardinality(S) \in Nat
  BY <1>1, FS_Subset, FS_CardinalityType
<1>4. ASSUME NEW S \in SUBSET Workers, NEW T \in SUBSET S PROVE Cardinality(T) <= Cardinality(S)
  BY <1>3, FS_Subset
<1>5. QED
  BY <1>2, <1>3, <1>4

\* A worker less, and at most one more.
LEMMA OneLess ==
  ASSUME NEW S \in SUBSET Workers, NEW w \in S, NEW T \in SUBSET (S \ {w})
  PROVE  Cardinality(T) + 1 <= Cardinality(S)
<1>1. Cardinality(S \ {w}) = Cardinality(S) - 1
  BY Sizes, FS_RemoveElement
<1>2. Cardinality(T) <= Cardinality(S \ {w})
  BY Sizes
<1>3. Cardinality(T) \in Nat /\ Cardinality(S) \in Nat
  BY Sizes
<1>4. QED
  BY <1>1, <1>2, <1>3

LEMMA OneMore ==
  ASSUME NEW S \in SUBSET Workers, NEW w \in Workers, NEW T \in SUBSET (S \cup {w})
  PROVE  Cardinality(T) <= Cardinality(S) + 1
<1>1. Cardinality(S \cup {w}) <= Cardinality(S) + 1
  BY Sizes, FS_AddElement
<1>2. Cardinality(T) <= Cardinality(S \cup {w})
  BY Sizes
<1>3. Cardinality(T) \in Nat /\ Cardinality(S) \in Nat /\ Cardinality(S \cup {w}) \in Nat
  BY Sizes
<1>4. QED
  BY <1>1, <1>2, <1>3

\* The limiters leave a login's own keys alone.
LEMMA LimiterLeavesLogins ==
  ASSUME TypeInv, NEW w \in Workers, Allow(w) \/ AllowFails(w) \/ AllowExpire(w), NEW l \in OwnLogins
  PROVE  redis'[Fail(l)] = redis[Fail(l)] /\ redis'[Lock(l)] = redis[Lock(l)]
<1>1. req[w].key \in Ips \cup Users /\ \A k \in Keys : k # req[w].key => redis'[k] = redis[k]
  BY LimiterKeys
<1>2. l \in Logins /\ Fail(l) \notin Ips \cup Users /\ Lock(l) \notin Ips \cup Users
  BY DEF OwnLogins
<1>3. QED
  BY <1>1, <1>2, LoginKeys

\* Only the SET of the lockout locks a login that has keys of its own.
LEMMA FailuresLeaveLocks ==
  ASSUME TypeInv, NEW w \in Workers, NEW l \in Logins,
         OnFailure(w) \/ OnFailureFails(w) \/ OnFailureExpire(w)
  PROVE  redis'[Lock(l)] = redis[Lock(l)]
<1> DEFINE j == Fail(req[w].login)
<1>1. pc[w] \in {"failure", "failure_expire"}
  BY DEF OnFailure, OnFailureFails, OnFailureExpire, SetTTL, Goto
<1>2. ValuesOK(redis) /\ j \in Keys /\ Lock(l) \in Keys /\ Lock(l) # j
  BY <1>1, StepParts, LoginKeys, LockoutKeysDiffer DEF LoginSteps
<1>3. CASE OnFailure(w) \/ OnFailureFails(w)
  <2>1. PICK m \in Sent \cup 0..Tries : redis' = Incr(j, m)
    <3>1. CASE OnFailure(w)
      BY <3>1 DEF OnFailure
    <3>2. CASE OnFailureFails(w)
      BY <3>2 DEF OnFailureFails
    <3>3. QED
      BY <1>3, <3>1, <3>2
  <2>2. m \in Nat
    BY Runs
  <2>3. QED
    BY <1>2, <2>1, <2>2, IncrEffect
<1>4. CASE OnFailureExpire(w)
  <2>1. redis' \in {redis, Expire(j)}
    BY <1>4 DEF OnFailureExpire, SetTTL, Goto, StartedKey
  <2>2. QED
    BY <1>2, <2>1, ExpireEffect
<1>5. QED
  BY <1>3, <1>4

-----------------------------------------------------------------------------
(* Late password checks *)

\* Sets of workers about to check a password.
LEMMA CheckingType ==
  \A l \in Logins : Checking(l) \in SUBSET Workers /\ Cardinality(Checking(l)) \in Nat
<1>1. \A l \in Logins : Checking(l) \in SUBSET Workers
  BY DEF Checking
<1>2. QED
  BY <1>1, Sizes

\* Nobody checks late, and nobody new will while the login stays locked.
LEMMA LateSame ==
  ASSUME TypeInv, NEW l \in Logins, LateOK(l), late'[l] = late[l],
         redis'[Lock(l)].ttl => redis[Lock(l)].ttl /\ Checking(l)' \in SUBSET Checking(l)
  PROVE  LateOK(l)'
<1>1. late[l] \in Nat /\ Cardinality(Checking(l)) \in Nat /\ Cardinality(Workers) \in Nat
  BY CheckingType, Sizes DEF TypeInv, TypeOK
<1>2. ASSUME redis'[Lock(l)].ttl
      PROVE  late'[l] + Cardinality(Checking(l)') + 1 <= Cardinality(Workers)
  <2>1. Cardinality(Checking(l)') <= Cardinality(Checking(l))
    BY <1>2, CheckingType, Sizes
  <2>2. Cardinality(Checking(l)') \in Nat
    BY <1>2, CheckingType, Sizes
  <2>3. QED
    BY <1>1, <1>2, <2>1, <2>2 DEF LateOK
<1>3. QED
  BY <1>2 DEF LateOK

\* A worker moves on; the others stay.
LEMMA GotoOthers ==
  ASSUME TypeInv, NEW w \in Workers, NEW from, NEW to, Goto(w, from, to)
  PROVE  /\ pc[w] = from /\ pc'[w] = to /\ (to # "idle" => req' = req)
         /\ \A v \in Workers : v # w => pc'[v] = pc[v] /\ req'[v] = req[v]
BY DEF Goto, TypeInv, TypeOK

\* A worker that moves on, but not to the check.
LEMMA CheckingShrinks ==
  ASSUME TypeInv, NEW w \in Workers, NEW from, NEW to, Goto(w, from, to),
         to # "auth" \/ w \in bypass', \A v \in Workers : v # w /\ v \in bypass => v \in bypass',
         NEW l \in Logins
  PROVE  Checking(l)' \in SUBSET Checking(l) /\ w \notin Checking(l)'
<1>1. pc'[w] = to /\ \A v \in Workers : v # w => pc'[v] = pc[v] /\ req'[v] = req[v]
  BY GotoOthers
<1>2. QED
  BY <1>1 DEF Checking

\* Who passes the lockout check while a login is locked was before the lock.
LEMMA LateStep ==
  ASSUME TypeInv, LateInv, [Next]_vars
  PROVE  LateInv'
<1> SUFFICES ASSUME NEW l \in OwnLogins PROVE LateOK(l)'
  BY DEF LateInv, OwnLogins
<1>1. /\ late[l] \in Nat /\ Cardinality(Checking(l)) \in Nat /\ Cardinality(Workers) \in Nat
      /\ Cardinality(Workers) >= 1 /\ LateOK(l) /\ Checking(l) \in SUBSET Workers
      /\ l \in Logins /\ Lock(l) \in Keys /\ ValuesOK(redis)
  BY CheckingType, Sizes, LoginKeys DEF TypeInv, TypeOK, LateInv, OwnLogins, ValuesOK, Values
<1>2. ASSUME NEW w \in Workers,
             Allow(w) \/ AllowFails(w) \/ AllowExpire(w) \/ BadRequest(w)
      PROVE  LateOK(l)'
  <2>1. PICK from, to : Goto(w, from, to) /\ to # "auth"
    BY <1>2 DEF Allow, AllowFails, AllowExpire, SetTTL, BadRequest, Passed
  <2>2. bypass' = bypass /\ late' = late
    BY <1>2 DEF Allow, AllowFails, AllowExpire, SetTTL, BadRequest, lockoutVars
  <2>3. redis'[Lock(l)] = redis[Lock(l)]
    BY <1>2, LimiterLeavesLogins DEF BadRequest
  <2>4. QED
    BY <1>1, <2>1, <2>2, <2>3, CheckingShrinks, LateSame
<1>3. ASSUME NEW w \in Workers,
             OnFailure(w) \/ OnFailureFails(w) \/ OnFailureExpire(w) \/ OnSuccess(w)
      PROVE  LateOK(l)'
  <2>1. PICK from, to : Goto(w, from, to) /\ to # "auth"
    BY <1>3 DEF OnFailure, OnFailureFails, OnFailureExpire, SetTTL, OnSuccess, AfterCount
  <2>2. bypass' = bypass /\ late' = late
    BY <1>3 DEF OnFailure, OnFailureFails, OnFailureExpire, SetTTL, OnSuccess, lockoutVars
  <2>3. redis'[Lock(l)].ttl => redis[Lock(l)].ttl
    <3>1. CASE OnSuccess(w)
      <4>1. pc[w] = "success" /\ redis' \in {redis, Cleared(req[w].login)}
        BY <3>1 DEF OnSuccess, Goto
      <4>2. req[w].login \in Logins
        BY <4>1, StepParts DEF LoginSteps
      <4>3. CASE redis' = redis
        BY <4>3
      <4>4. CASE redis' = Cleared(req[w].login)
        <5>1. redis'[Lock(l)] = redis[Lock(l)] \/ redis'[Lock(l)] = Absent
          BY <1>1, <4>2, <4>4, ClearedEffect
        <5>2. ~Absent.ttl
          BY DEF Absent
        <5>3. QED
          BY <5>1, <5>2
      <4>5. QED
        BY <4>1, <4>3, <4>4
    <3>2. CASE OnFailure(w) \/ OnFailureFails(w) \/ OnFailureExpire(w)
      BY <1>1, <3>2, FailuresLeaveLocks
    <3>3. QED
      BY <1>3, <3>1, <3>2
  <2>4. QED
    BY <1>1, <2>1, <2>2, <2>3, CheckingShrinks, LateSame
<1>4. ASSUME NEW w \in Workers, IsLocked(w) PROVE LateOK(l)'
  <2>1. bypass' = bypass /\ late' = late /\ redis' = redis
    BY <1>4 DEF IsLocked, lockoutVars
  <2>2. CASE Goto(w, "gate", "idle")
    BY <1>1, <2>1, <2>2, CheckingShrinks, LateSame
  <2>3. CASE ~redis[Lock(req[w].login)].ttl /\ Goto(w, "gate", "auth")
    <3>1. pc'[w] = "auth" /\ req' = req /\ \A v \in Workers : v # w => pc'[v] = pc[v]
      BY <2>3, GotoOthers
    <3>2. redis[Lock(l)].ttl => Checking(l)' \in SUBSET Checking(l)
      BY <2>1, <2>3, <3>1 DEF Checking
    <3>3. QED
      BY <1>1, <2>1, <3>2, LateSame
  <2>4. QED
    BY <1>4, <2>2, <2>3 DEF IsLocked, Locked
<1>5. ASSUME NEW w \in Workers, IsLockedFails(w) PROVE LateOK(l)'
  <2>1. Goto(w, "gate", "auth") /\ bypass' = bypass \cup {w} /\ late' = late /\ redis' = redis
    BY <1>5 DEF IsLockedFails
  <2>2. QED
    BY <1>1, <2>1, CheckingShrinks, LateSame
<1>6. ASSUME NEW w \in Workers, Authenticate(w) PROVE LateOK(l)'
  <2>1. PICK to \in {"success", "failure", "idle"} : Goto(w, "auth", to)
    BY <1>6 DEF Authenticate
  <2>2. /\ bypass' = bypass \ {w} /\ redis' = redis
        /\ late'[l] = IF req[w].login = l /\ redis[Lock(l)].ttl /\ w \notin bypass
                      THEN late[l] + 1 ELSE late[l]
    BY <1>1, <1>6 DEF Authenticate, TypeInv, TypeOK
  <2>3. Checking(l)' \in SUBSET Checking(l) /\ w \notin Checking(l)'
    BY <1>1, <2>1, <2>2, CheckingShrinks
  <2>4. CASE req[w].login = l /\ redis[Lock(l)].ttl /\ w \notin bypass
    <3>1. w \in Checking(l)
      BY <2>1, <2>4 DEF Checking, Goto
    <3>2. Checking(l)' \in SUBSET (Checking(l) \ {w})
      BY <2>3
    <3>3. Cardinality(Checking(l)') + 1 <= Cardinality(Checking(l))
      BY <1>1, <3>1, <3>2, OneLess
    <3>4. Cardinality(Checking(l)') \in Nat
      BY <1>1, <2>3, Sizes
    <3>5. late'[l] + Cardinality(Checking(l)') + 1 <= Cardinality(Workers)
      BY <1>1, <2>2, <2>4, <3>3, <3>4 DEF LateOK
    <3>6. late'[l] + 1 <= Cardinality(Workers)
      BY <1>1, <2>2, <2>4, <3>4, <3>5
    <3>7. QED
      BY <3>5, <3>6 DEF LateOK
  <2>5. CASE ~(req[w].login = l /\ redis[Lock(l)].ttl /\ w \notin bypass)
    BY <1>1, <2>2, <2>3, <2>5, LateSame
  <2>6. QED
    BY <2>4, <2>5
<1>7. ASSUME NEW w \in Workers, SetLock(w) PROVE LateOK(l)'
  <2>1. Goto(w, "lock", "idle") /\ bypass' = bypass
    BY <1>7 DEF SetLock
  <2>2. Checking(l)' \in SUBSET Checking(l) /\ w \notin Checking(l)'
    BY <1>1, <2>1, CheckingShrinks
  <2>3. CASE redis' = redis /\ late' = late
    BY <1>1, <2>2, <2>3, LateSame
  <2>4. CASE /\ redis' = [redis EXCEPT ![Lock(req[w].login)] = [n |-> 1, ttl |-> TRUE]]
             /\ late' = [late EXCEPT ![req[w].login] =
                           IF redis[Lock(req[w].login)].ttl THEN @ ELSE 0]
    <3>1. CASE req[w].login = l /\ ~redis[Lock(l)].ttl
      <4>1. late'[l] = 0
        BY <1>1, <2>4, <3>1 DEF TypeInv, TypeOK
      <4>2. Checking(l)' \in SUBSET (Workers \ {w})
        BY <1>1, <2>2
      <4>3. Cardinality(Checking(l)') + 1 <= Cardinality(Workers)
        BY <4>2, OneLess
      <4>4. Cardinality(Checking(l)') \in Nat
        BY <4>2, Sizes
      <4>5. QED
        BY <1>1, <4>1, <4>3, <4>4 DEF LateOK
    <3>2. CASE ~(req[w].login = l /\ ~redis[Lock(l)].ttl)
      <4>1. late'[l] = late[l]
        BY <1>1, <2>4, <3>2 DEF TypeInv, TypeOK
      <4>2. redis'[Lock(l)].ttl => redis[Lock(l)].ttl
        <5>1. CASE req[w].login = l
          BY <3>2, <5>1
        <5>2. CASE req[w].login # l
          <6>1. Lock(req[w].login) # Lock(l)
            BY <5>2, LockoutKeysDiffer
          <6>2. redis'[Lock(l)] = redis[Lock(l)]
            BY <1>1, <2>4, <6>1 DEF ValuesOK
          <6>3. QED
            BY <6>2
        <5>3. QED
          BY <5>1, <5>2
      <4>3. QED
        BY <1>1, <2>2, <4>1, <4>2, LateSame
    <3>3. QED
      BY <3>1, <3>2
  <2>5. QED
    BY <1>7, <2>3, <2>4 DEF SetLock
<1>8. ASSUME NEW w \in Workers, NEW r \in Requests, Arrive(w, r) PROVE LateOK(l)'
  <2>1. /\ pc'[w] # "auth" /\ \A v \in Workers : v # w => pc'[v] = pc[v] /\ req'[v] = req[v]
        /\ late' = late /\ redis' = redis /\ bypass' = bypass
    BY <1>8 DEF Arrive, lockoutVars, TypeInv, TypeOK
  <2>2. Checking(l)' \in SUBSET Checking(l)
    BY <2>1 DEF Checking
  <2>3. QED
    BY <1>1, <2>1, <2>2, LateSame
<1>9. CASE Crash
  <2>1. late' = late /\ redis' = redis /\ \A w \in Workers : pc'[w] = "idle"
    BY <1>9 DEF Crash
  <2>2. Checking(l)' \in SUBSET Checking(l)
    BY <2>1 DEF Checking
  <2>3. QED
    BY <1>1, <2>1, <2>2, LateSame
<1>10. ASSUME pc' = pc, req' = req, bypass' = bypass, late' = late,
              redis'[Lock(l)].ttl => redis[Lock(l)].ttl
       PROVE  LateOK(l)'
  <2>1. Checking(l)' = Checking(l)
    BY <1>10 DEF Checking
  <2>2. QED
    BY <1>1, <1>10, <2>1, LateSame
<1>11. ASSUME NEW k \in Keys, KeyExpires(k) PROVE LateOK(l)'
  <2>1. redis'[Lock(l)] = redis[Lock(l)] \/ redis'[Lock(l)] = Absent
    BY <1>1, <1>11, PutEffect DEF KeyExpires
  <2>2. ~Absent.ttl
    BY DEF Absent
  <2>3. redis'[Lock(l)].ttl => redis[Lock(l)].ttl
    BY <2>1, <2>2
  <2>4. QED
    BY <1>10, <1>11, <2>3 DEF KeyExpires, lockoutVars
<1>12. ASSUME NEW s \in Slots, MemoryWindowEnds(s) PROVE LateOK(l)'
  BY <1>10, <1>12 DEF MemoryWindowEnds, lockoutVars
<1>13. CASE UNCHANGED vars
  BY <1>10, <1>13 DEF vars, lockoutVars
<1>14. QED
  BY <1>2, <1>3, <1>4, <1>5, <1>6, <1>7, <1>8, <1>9, <1>11, <1>12, <1>13 DEF Next, Step, Finished

\* While a login is locked, at most one request for each other worker still has
\* a password checked, unless its lockout check failed.
THEOREM LateTheorem == Spec => []FewLateChecks
<1>1. Init => LateInv
  <2> SUFFICES ASSUME Init, NEW l \in OwnLogins PROVE LateOK(l)
    BY DEF LateInv
  <2>1. late[l] = 0 /\ ~redis[Lock(l)].ttl
    BY LoginKeys DEF Init, Absent, OwnLogins
  <2>2. QED
    BY <2>1, Sizes DEF LateOK
<1>2. TypeInv /\ LateInv => FewLateChecks
  <2> SUFFICES ASSUME TypeInv, LateInv, NEW l \in OwnLogins PROVE late[l] <= Cardinality(Workers) - 1
    BY DEF FewLateChecks
  <2>1. late[l] \in Nat /\ late[l] + 1 <= Cardinality(Workers) /\ Cardinality(Workers) \in Nat
    BY Sizes DEF TypeInv, TypeOK, LateInv, LateOK, OwnLogins
  <2>2. QED
    BY <2>1
<1>3. QED
  BY <1>1, <1>2, TypeInit, TypeStep, LateStep, PTL DEF Spec

-----------------------------------------------------------------------------
(* Locks *)

LEMMA Monotone == \A a, b, c \in Nat : b <= c => a * b <= a * c
OBVIOUS

\* The numbers of a login.
LEMMA LoginNumbers ==
  ASSUME TypeInv, NEW l \in Logins
  PROVE  /\ Failing(l) \in SUBSET Workers /\ Cardinality(Failing(l)) \in Nat
         /\ redis[Fail(l)].n \in Nat /\ wrong[l] \in Nat /\ Tries \in Nat \ {0} /\ MaxAttempts \in Nat
         /\ Tries * wrong[l] \in Nat /\ Tries * Cardinality(Failing(l)) \in Nat
         /\ Fail(l) \in Keys /\ Lock(l) \in Keys /\ ValuesOK(redis)
<1>1. Failing(l) \in SUBSET Workers
  BY DEF Failing
<1>2. Cardinality(Failing(l)) \in Nat
  BY <1>1, Sizes
<1>3. Fail(l) \in Keys /\ Lock(l) \in Keys /\ ValuesOK(redis)
  BY LoginKeys DEF TypeInv, TypeOK, ValuesOK, Values
<1>4. redis[Fail(l)].n \in Nat
  BY <1>3 DEF ValuesOK, Values
<1>5. wrong[l] \in Nat /\ Tries \in Nat \ {0} /\ MaxAttempts \in Nat
  BY LoginAssumption DEF TypeInv, TypeOK
<1>6. QED
  BY <1>1, <1>2, <1>3, <1>4, <1>5, Product

\* Nothing more counts, and nobody new is about to lock without a reason.
LEMMA WrongSame ==
  ASSUME TypeInv, TypeInv', NEW l \in Logins, WrongOK(l), wrong'[l] = wrong[l],
         redis'[Fail(l)].n <= redis[Fail(l)].n, Failing(l)' \in SUBSET Failing(l),
         redis'[Lock(l)].ttl => redis[Lock(l)].ttl \/ Enough(l),
         \A w \in Workers : At(w, "lock", l)' => At(w, "lock", l) \/ Enough(l),
         \A w \in Workers : At(w, "failure_expire", l)' => At(w, "failure_expire", l)
  PROVE  WrongOK(l)'
<1>1. /\ redis[Fail(l)].n \in Nat /\ wrong[l] \in Nat /\ Tries \in Nat \ {0}
      /\ Cardinality(Failing(l)) \in Nat /\ Failing(l) \in SUBSET Workers
      /\ Tries * wrong[l] \in Nat /\ Tries * Cardinality(Failing(l)) \in Nat
  BY LoginNumbers
<1>2. redis'[Fail(l)].n \in Nat
  BY LoginKeys DEF TypeInv, TypeOK
<1>3. Cardinality(Failing(l)') <= Cardinality(Failing(l)) /\ Cardinality(Failing(l)') \in Nat
  BY <1>1, Sizes
<1>4. /\ Tries * Cardinality(Failing(l)') <= Tries * Cardinality(Failing(l))
      /\ Tries * Cardinality(Failing(l)') \in Nat
  BY <1>1, <1>3, Monotone, Product
<1>5. redis[Fail(l)].n + Tries * Cardinality(Failing(l)) <= Tries * wrong[l]
  BY DEF WrongOK
<1>6. redis'[Fail(l)].n + Tries * Cardinality(Failing(l)') <= Tries * wrong'[l]
  BY <1>1, <1>2, <1>4, <1>5
<1>7. Enough(l)' <=> Enough(l)
  BY DEF Enough
<1>8. QED
  BY <1>6, <1>7 DEF WrongOK

\* A worker that moves on, and does not have to count or lock for it.
LEMMA WrongGoto ==
  ASSUME TypeInv, TypeInv', NEW l \in Logins, WrongOK(l), wrong'[l] = wrong[l],
         redis'[Fail(l)].n <= redis[Fail(l)].n, redis'[Lock(l)].ttl => redis[Lock(l)].ttl,
         NEW w \in Workers, NEW from, NEW to \in {"idle", "limit_expire", "gate", "auth", "success"},
         Goto(w, from, to)
  PROVE  WrongOK(l)'
<1>1. pc'[w] = to /\ \A v \in Workers : v # w => pc'[v] = pc[v] /\ req'[v] = req[v]
  BY GotoOthers
<1>2. Failing(l)' \in SUBSET Failing(l)
  BY <1>1 DEF Failing
<1>3. \A v \in Workers : /\ At(v, "lock", l)' => At(v, "lock", l)
                         /\ At(v, "failure_expire", l)' => At(v, "failure_expire", l)
  BY <1>1 DEF At
<1>4. QED
  BY <1>2, <1>3, WrongSame

\* The steps of the rate limits and of the handler up to the password check.
LEMMA WrongBefore ==
  ASSUME TypeInv, TypeInv', NEW l \in OwnLogins, WrongOK(l), NEW w \in Workers,
         \/ Allow(w) \/ AllowFails(w) \/ AllowExpire(w)
         \/ BadRequest(w) \/ IsLocked(w) \/ IsLockedFails(w)
  PROVE  WrongOK(l)'
<1>1. PICK from \in {"limit", "limit_expire", "gate"}, to \in {"idle", "limit_expire", "gate", "auth"} :
        Goto(w, from, to)
  BY DEF Allow, AllowFails, AllowExpire, SetTTL, BadRequest, IsLocked, IsLockedFails, Passed
<1>2. wrong' = wrong
  BY DEF Allow, AllowFails, AllowExpire, SetTTL, BadRequest, IsLocked, IsLockedFails, lockoutVars
<1>3. redis'[Fail(l)] = redis[Fail(l)] /\ redis'[Lock(l)] = redis[Lock(l)]
  BY LimiterLeavesLogins DEF BadRequest, IsLocked, IsLockedFails
<1>4. l \in Logins
  BY DEF OwnLogins
<1>5. redis[Fail(l)].n \in Nat
  BY <1>4, LoginNumbers
<1>6. QED
  BY <1>1, <1>2, <1>3, <1>4, <1>5, WrongGoto

\* Failures are counted after they happened, and each at most Tries times.
LEMMA WrongFailure ==
  ASSUME TypeInv, TypeInv', NEW l \in Logins, WrongOK(l), NEW w \in Workers,
         OnFailure(w) \/ OnFailureFails(w)
  PROVE  WrongOK(l)'
<1> DEFINE x == req[w].login
<1>1. wrong' = wrong /\ pc[w] = "failure"
  BY DEF OnFailure, OnFailureFails, Goto, lockoutVars
<1>2. /\ x \in Logins /\ Fail(x) \in Keys /\ Fail(l) \in Keys /\ ValuesOK(redis)
      /\ redis[Fail(l)].n \in Nat /\ redis[Fail(x)].n \in Nat
  BY <1>1, StepParts, LoginNumbers DEF LoginSteps
<1>3. redis'[Lock(l)] = redis[Lock(l)]
  BY FailuresLeaveLocks
<1>4. PICK m \in Sent \cup 0..Tries, to \in {"idle", "failure_expire", "lock"} :
        /\ redis' = Incr(Fail(x), m) /\ Goto(w, "failure", to)
        /\ to = "failure_expire" => redis[Fail(x)].n + m = 1
        /\ to = "lock" => ~(redis[Fail(x)].n + m < MaxAttempts)
  <2>1. CASE OnFailure(w)
    BY <2>1 DEF OnFailure, Starts, AfterCount
  <2>2. CASE OnFailureFails(w)
    BY <2>2 DEF OnFailureFails
  <2>3. QED
    BY <2>1, <2>2
<1>5. m \in Nat /\ m <= Tries
  BY Runs
<1>6. pc'[w] = to /\ \A v \in Workers : v # w => pc'[v] = pc[v] /\ req'[v] = req[v]
  BY <1>4, GotoOthers
<1>7. Failing(l)' \in SUBSET Failing(l) /\ w \notin Failing(l)'
  BY <1>1, <1>6 DEF Failing
<1>8. to # "idle" => req'[w] = req[w]
  BY <1>4, GotoOthers
<1>9. CASE x # l
  <2>1. redis'[Fail(l)].n = redis[Fail(l)].n
    <3>1. Fail(l) # Fail(x)
      BY <1>9, LockoutKeysDiffer
    <3>2. QED
      BY <1>2, <1>4, <1>5, <3>1, IncrEffect
  <2>2. redis'[Fail(l)].n <= redis[Fail(l)].n
    BY <1>2, <2>1
  <2>3. \A v \in Workers : /\ At(v, "lock", l)' => At(v, "lock", l)
                           /\ At(v, "failure_expire", l)' => At(v, "failure_expire", l)
    BY <1>6, <1>8, <1>9 DEF At
  <2>4. QED
    BY <1>1, <1>3, <1>7, <2>2, <2>3, WrongSame
<1>10. CASE x = l
  <2> DEFINE a == redis[Fail(l)].n
             c == Cardinality(Failing(l))
             d == Cardinality(Failing(l)')
  <2>1. w \in Failing(l) /\ Failing(l) \in SUBSET Workers /\ c \in Nat
    BY <1>1, <1>10, LoginNumbers DEF Failing
  <2>2. d + 1 <= c
    <3>1. Failing(l)' \in SUBSET (Failing(l) \ {w})
      BY <1>7
    <3>2. QED
      BY <2>1, <3>1, OneLess
  <2>3. d \in Nat
    BY <1>7, <2>1, Sizes
  <2>4. /\ redis'[Fail(l)].n = a + m /\ a \in Nat
        /\ a + Tries * c <= Tries * wrong[l] /\ Tries * wrong[l] \in Nat /\ Tries * c \in Nat
        /\ Tries \in Nat \ {0} /\ MaxAttempts \in Nat
    BY <1>2, <1>4, <1>5, <1>10, IncrEffect, LoginNumbers DEF WrongOK
  <2> HIDE DEF a, c, d
  <2>5. Tries * d + Tries <= Tries * c /\ Tries * d \in Nat
    <3>1. Tries * (d + 1) <= Tries * c
      BY <2>1, <2>2, <2>3, <2>4, Monotone
    <3>2. Tries * (d + 1) = Tries * d + Tries /\ Tries * d \in Nat
      BY <2>3, <2>4, Product
    <3>3. QED
      BY <3>1, <3>2
  <2>6. a + m + Tries * d <= Tries * wrong[l] /\ a + m <= Tries * wrong[l]
    BY <1>5, <2>4, <2>5
  <2>7. redis'[Fail(l)].n + Tries * Cardinality(Failing(l)') <= Tries * wrong'[l]
    BY <1>1, <2>4, <2>6 DEF d
  <2>8. Enough(l)' <=> Enough(l)
    BY <1>1 DEF Enough
  <2>9. to = "lock" => Enough(l)
    BY <1>4, <1>5, <1>10, <2>4, <2>6 DEF Enough, a
  <2>10. to = "failure_expire" => Tries * wrong'[l] >= 1
    BY <1>1, <1>4, <1>10, <2>4, <2>6 DEF a
  <2>11. \A v \in Workers : At(v, "lock", l)' => Enough(l)'
    <3>1. ASSUME NEW v \in Workers, v # w, At(v, "lock", l)' PROVE At(v, "lock", l)
      BY <1>6, <3>1 DEF At
    <3>2. At(w, "lock", l)' => to = "lock"
      BY <1>6 DEF At
    <3>3. QED
      BY <2>8, <2>9, <3>1, <3>2 DEF WrongOK
  <2>12. \A v \in Workers : At(v, "failure_expire", l)' => Tries * wrong'[l] >= 1
    <3>1. ASSUME NEW v \in Workers, v # w, At(v, "failure_expire", l)' PROVE At(v, "failure_expire", l)
      BY <1>6, <3>1 DEF At
    <3>2. At(w, "failure_expire", l)' => to = "failure_expire"
      BY <1>6 DEF At
    <3>3. QED
      BY <1>1, <2>10, <3>1, <3>2 DEF WrongOK
  <2>13. redis'[Lock(l)].ttl => Enough(l)'
    BY <1>3, <2>8 DEF WrongOK
  <2>14. QED
    BY <2>7, <2>11, <2>12, <2>13 DEF WrongOK
<1>11. QED
  BY <1>9, <1>10

\* A success makes a fresh start when no failure is being counted.
LEMMA WrongSuccess ==
  ASSUME TypeInv, TypeInv', NEW l \in Logins, WrongOK(l), NEW w \in Workers, OnSuccess(w)
  PROVE  WrongOK(l)'
<1> DEFINE x == req[w].login
<1>1. Goto(w, "success", "idle") /\ pc[w] = "success"
  BY DEF OnSuccess, Goto
<1>2. /\ x \in Logins /\ Fail(l) \in Keys /\ Lock(l) \in Keys /\ ValuesOK(redis)
      /\ redis[Fail(l)].n \in Nat /\ wrong[l] \in Nat
  BY <1>1, StepParts, LoginNumbers DEF LoginSteps
<1>3. CASE redis' = redis /\ wrong' = wrong
  BY <1>1, <1>2, <1>3, WrongGoto
<1>4. CASE redis' = Cleared(x) /\ wrong' = IF Alone(w, x) THEN [wrong EXCEPT ![x] = 0] ELSE wrong
  <2>1. Absent.n = 0 /\ ~Absent.ttl
    BY DEF Absent
  <2>2. CASE ~(x = l /\ Alone(w, x))
    <3>1. wrong'[l] = wrong[l]
      BY <1>2, <1>4, <2>2 DEF TypeInv, TypeOK
    <3>2. redis'[Fail(l)] = redis[Fail(l)] \/ redis'[Fail(l)] = Absent
      BY <1>2, <1>4, ClearedEffect
    <3>3. redis'[Lock(l)] = redis[Lock(l)] \/ redis'[Lock(l)] = Absent
      BY <1>2, <1>4, ClearedEffect
    <3>4. redis'[Fail(l)].n <= redis[Fail(l)].n
      BY <1>2, <2>1, <3>2
    <3>5. redis'[Lock(l)].ttl => redis[Lock(l)].ttl
      BY <2>1, <3>3
    <3>6. QED
      BY <1>1, <3>1, <3>4, <3>5, WrongGoto
  <2>3. CASE x = l /\ Alone(w, x)
    <3>1. redis'[Fail(l)].n = 0 /\ ~redis'[Lock(l)].ttl
      BY <1>2, <1>4, <2>1, <2>3, ClearedEffect
    <3>2. wrong'[l] = 0
      BY <1>2, <1>4, <2>3 DEF TypeInv, TypeOK
    <3>3. pc'[w] = "idle" /\ \A v \in Workers : v # w => pc'[v] = pc[v] /\ req'[v] = req[v]
      BY <1>1, GotoOthers
    <3>4. \A v \in Workers : v # w /\ pc[v] \in {"failure", "failure_expire", "lock"} => req[v].login # l
      BY <2>3 DEF Alone
    <3>5. Failing(l)' = {}
      BY <3>3, <3>4 DEF Failing
    <3>6. Cardinality(Failing(l)') = 0
      BY <3>5, FS_EmptySet
    <3>7. \A v \in Workers : ~At(v, "lock", l)' /\ ~At(v, "failure_expire", l)'
      BY <3>3, <3>4 DEF At
    <3>8. Tries * 0 = 0 /\ Tries \in Nat
      BY Runs
    <3>9. redis'[Fail(l)].n + Tries * Cardinality(Failing(l)') <= Tries * wrong'[l]
      BY <3>1, <3>2, <3>6, <3>8
    <3>10. QED
      BY <3>1, <3>7, <3>9 DEF WrongOK
  <2>4. QED
    BY <2>2, <2>3
<1>5. QED
  BY <1>3, <1>4 DEF OnSuccess

\* A failure that is not counted yet.
LEMMA WrongAuthenticate ==
  ASSUME TypeInv, TypeInv', NEW l \in Logins, WrongOK(l), NEW w \in Workers, Authenticate(w)
  PROVE  WrongOK(l)'
<1> DEFINE x == req[w].login
<1>1. pc[w] = "auth" /\ redis' = redis
  BY DEF Authenticate
<1>2. /\ x \in Logins /\ redis[Fail(l)].n \in Nat /\ wrong[l] \in Nat
      /\ Failing(l) \in SUBSET Workers /\ Cardinality(Failing(l)) \in Nat
      /\ Tries \in Nat \ {0} /\ MaxAttempts \in Nat
      /\ Tries * wrong[l] \in Nat /\ Tries * Cardinality(Failing(l)) \in Nat
  BY <1>1, StepParts, LoginNumbers DEF LoginSteps
<1>3. CASE (Goto(w, "auth", "success") \/ Goto(w, "auth", "idle")) /\ wrong' = wrong
  BY <1>1, <1>2, <1>3, WrongGoto
<1>4. CASE Goto(w, "auth", "failure") /\ wrong' = [wrong EXCEPT ![x] = @ + 1]
  <2>1. pc'[w] = "failure" /\ req' = req /\ \A v \in Workers : v # w => pc'[v] = pc[v]
    BY <1>4, GotoOthers
  <2>2. \A v \in Workers : /\ At(v, "lock", l)' => At(v, "lock", l)
                           /\ At(v, "failure_expire", l)' => At(v, "failure_expire", l)
    BY <2>1 DEF At
  <2>3. CASE x # l
    <3>1. Failing(l)' \in SUBSET Failing(l)
      BY <2>1, <2>3 DEF Failing
    <3>2. wrong'[l] = wrong[l]
      BY <1>2, <1>4, <2>3 DEF TypeInv, TypeOK
    <3>3. QED
      BY <1>1, <1>2, <2>2, <3>1, <3>2, WrongSame
  <2>4. CASE x = l
    <3> DEFINE c == Cardinality(Failing(l))
               d == Cardinality(Failing(l)')
    <3>1. wrong'[l] = wrong[l] + 1
      BY <1>2, <1>4, <2>4 DEF TypeInv, TypeOK
    <3>2. Failing(l)' \in SUBSET (Failing(l) \cup {w}) /\ Failing(l)' \in SUBSET Workers
      BY <2>1 DEF Failing
    <3>3. d <= c + 1 /\ d \in Nat
      BY <1>2, <3>2, OneMore, Sizes
    <3>4. redis[Fail(l)].n + Tries * c <= Tries * wrong[l] /\ c \in Nat /\ Tries * c \in Nat
      BY <1>2 DEF WrongOK
    <3> HIDE DEF c, d
    <3>5. Tries * d <= Tries * c + Tries /\ Tries * d \in Nat
      <4>1. Tries * d <= Tries * (c + 1)
        BY <1>2, <3>3, <3>4, Monotone
      <4>2. Tries * (c + 1) = Tries * c + Tries /\ Tries * d \in Nat
        BY <1>2, <3>3, <3>4, Product
      <4>3. QED
        BY <4>1, <4>2
    <3>6. Tries * wrong'[l] = Tries * wrong[l] + Tries
      BY <1>2, <3>1, Product
    <3>7. redis'[Fail(l)].n + Tries * d <= Tries * wrong'[l]
      BY <1>1, <1>2, <3>4, <3>5, <3>6
    <3>8. (Enough(l) => Enough(l)') /\ (Tries * wrong[l] >= 1 => Tries * wrong'[l] >= 1)
      BY <1>2, <3>6 DEF Enough
    <3>9. QED
      BY <1>1, <2>2, <3>7, <3>8 DEF WrongOK, d
  <2>5. QED
    BY <2>3, <2>4
<1>5. QED
  BY <1>3, <1>4 DEF Authenticate

\* The EXPIRE of a counter, and the lock.
LEMMA WrongLock ==
  ASSUME TypeInv, TypeInv', NEW l \in Logins, WrongOK(l), NEW w \in Workers,
         OnFailureExpire(w) \/ SetLock(w)
  PROVE  WrongOK(l)'
<1> DEFINE x == req[w].login
<1>1. pc[w] \in {"failure_expire", "lock"} /\ wrong' = wrong
  BY DEF OnFailureExpire, SetTTL, SetLock, Goto, lockoutVars
<1>2. /\ x \in Logins /\ Fail(x) \in Keys /\ Lock(x) \in Keys /\ Fail(l) \in Keys /\ Lock(l) \in Keys
      /\ ValuesOK(redis) /\ redis[Fail(l)].n \in Nat /\ Tries * wrong[l] \in Nat /\ MaxAttempts \in Nat
  BY <1>1, StepParts, LoginNumbers DEF LoginSteps
<1>3. CASE OnFailureExpire(w)
  <2>1. Goto(w, "failure_expire", AfterCount(1)) /\ redis' \in {redis, Expire(Fail(x))}
    BY <1>3 DEF OnFailureExpire, SetTTL, Goto, StartedKey
  <2>2. redis'[Fail(l)].n = redis[Fail(l)].n
    BY <1>2, <2>1, ExpireEffect
  <2>3. redis'[Fail(l)].n <= redis[Fail(l)].n /\ redis'[Lock(l)] = redis[Lock(l)]
    BY <1>2, <1>3, <2>2, FailuresLeaveLocks
  <2>4. CASE 1 < MaxAttempts
    <3>1. AfterCount(1) = "idle"
      BY <2>4 DEF AfterCount
    <3>2. QED
      BY <1>1, <2>1, <2>3, <3>1, WrongGoto
  <2>5. CASE ~(1 < MaxAttempts)
    <3>1. AfterCount(1) = "lock"
      BY <2>5 DEF AfterCount
    <3>2. /\ pc[w] = "failure_expire" /\ pc'[w] = "lock" /\ req' = req
          /\ \A v \in Workers : v # w => pc'[v] = pc[v]
      BY <2>1, <3>1, GotoOthers
    <3>3. Failing(l)' \in SUBSET Failing(l)
      BY <3>2 DEF Failing
    <3>4. At(w, "lock", l)' => Enough(l)
      <4>1. ASSUME At(w, "lock", l)' PROVE Enough(l)
        <5>1. At(w, "failure_expire", l)
          BY <3>2, <4>1 DEF At
        <5>2. Tries * wrong[l] >= 1
          BY <5>1 DEF WrongOK
        <5>3. QED
          BY <1>2, <2>5, <5>2 DEF Enough
      <4>2. QED
        BY <4>1
    <3>5. \A v \in Workers : At(v, "lock", l)' => At(v, "lock", l) \/ Enough(l)
      <4>1. ASSUME NEW v \in Workers, v # w, At(v, "lock", l)' PROVE At(v, "lock", l)
        BY <3>2, <4>1 DEF At
      <4>2. QED
        BY <3>4, <4>1
    <3>6. \A v \in Workers : At(v, "failure_expire", l)' => At(v, "failure_expire", l)
      BY <3>2 DEF At
    <3>7. QED
      BY <1>1, <2>3, <3>3, <3>5, <3>6, WrongSame
  <2>6. QED
    BY <2>4, <2>5
<1>4. CASE SetLock(w)
  <2>1. /\ Goto(w, "lock", "idle")
        /\ redis' = redis \/ redis' = [redis EXCEPT ![Lock(x)] = [n |-> 1, ttl |-> TRUE]]
    BY <1>4 DEF SetLock
  <2>2. /\ pc[w] = "lock" /\ pc'[w] = "idle"
        /\ \A v \in Workers : v # w => pc'[v] = pc[v] /\ req'[v] = req[v]
    BY <2>1, GotoOthers
  <2>3. redis'[Fail(l)] = redis[Fail(l)] /\ (Lock(l) # Lock(x) => redis'[Lock(l)] = redis[Lock(l)])
    <3>1. \A j \in Keys : j # Lock(x) => redis'[j] = redis[j]
      BY <1>2, <2>1, SetEffect
    <3>2. Fail(l) # Lock(x)
      BY LockoutKeysDiffer
    <3>3. QED
      BY <1>2, <3>1, <3>2
  <2>4. redis'[Lock(l)].ttl => redis[Lock(l)].ttl \/ Enough(l)
    <3>1. CASE x = l
      BY <2>2, <3>1 DEF WrongOK, At
    <3>2. CASE x # l
      BY <2>3, <3>2, LockoutKeysDiffer
    <3>3. QED
      BY <3>1, <3>2
  <2>5. redis'[Fail(l)].n <= redis[Fail(l)].n
    BY <1>2, <2>3
  <2>6. Failing(l)' \in SUBSET Failing(l)
    BY <2>2 DEF Failing
  <2>7. \A v \in Workers : /\ At(v, "lock", l)' => At(v, "lock", l)
                           /\ At(v, "failure_expire", l)' => At(v, "failure_expire", l)
    BY <2>2 DEF At
  <2>8. QED
    BY <1>1, <2>4, <2>5, <2>6, <2>7, WrongSame
<1>5. QED
  BY <1>3, <1>4

\* So every step keeps it.
LEMMA WrongStep ==
  ASSUME TypeInv, TypeInv', WrongInv, [Next]_vars
  PROVE  WrongInv'
<1> SUFFICES ASSUME NEW l \in OwnLogins PROVE WrongOK(l)'
  BY DEF WrongInv, OwnLogins
<1>1. /\ WrongOK(l) /\ l \in Logins /\ redis[Fail(l)].n \in Nat
      /\ Fail(l) \in Keys /\ Lock(l) \in Keys /\ ValuesOK(redis)
  BY LoginNumbers DEF WrongInv, OwnLogins
<1>2. ASSUME NEW w \in Workers, NEW r \in Requests, Arrive(w, r) PROVE WrongOK(l)'
  <2>1. /\ pc'[w] \in {"gate", "limit"} /\ redis' = redis /\ wrong' = wrong
        /\ \A v \in Workers : v # w => pc'[v] = pc[v] /\ req'[v] = req[v]
    BY <1>2 DEF Arrive, lockoutVars, TypeInv, TypeOK
  <2>2. Failing(l)' \in SUBSET Failing(l)
    BY <2>1 DEF Failing
  <2>3. \A v \in Workers : /\ At(v, "lock", l)' => At(v, "lock", l)
                           /\ At(v, "failure_expire", l)' => At(v, "failure_expire", l)
    BY <2>1 DEF At
  <2>4. QED
    BY <1>1, <2>1, <2>2, <2>3, WrongSame
<1>3. CASE Crash
  <2>1. redis' = redis /\ wrong' = wrong /\ \A v \in Workers : pc'[v] = "idle"
    BY <1>3 DEF Crash
  <2>2. Failing(l)' \in SUBSET Failing(l)
    BY <2>1 DEF Failing
  <2>3. \A v \in Workers : ~At(v, "lock", l)' /\ ~At(v, "failure_expire", l)'
    BY <2>1 DEF At
  <2>4. QED
    BY <1>1, <2>1, <2>2, <2>3, WrongSame
<1>4. ASSUME pc' = pc, req' = req, wrong' = wrong, redis'[Fail(l)].n <= redis[Fail(l)].n,
             redis'[Lock(l)].ttl => redis[Lock(l)].ttl
      PROVE  WrongOK(l)'
  <2>1. Failing(l)' = Failing(l)
    BY <1>4 DEF Failing
  <2>2. \A v \in Workers : /\ At(v, "lock", l)' <=> At(v, "lock", l)
                           /\ At(v, "failure_expire", l)' <=> At(v, "failure_expire", l)
    BY <1>4 DEF At
  <2>3. QED
    BY <1>1, <1>4, <2>1, <2>2, WrongSame
<1>5. ASSUME NEW k \in Keys, KeyExpires(k) PROVE WrongOK(l)'
  <2>1. /\ redis'[Fail(l)] = redis[Fail(l)] \/ redis'[Fail(l)] = Absent
        /\ redis'[Lock(l)] = redis[Lock(l)] \/ redis'[Lock(l)] = Absent
    <3>1. redis' = [redis EXCEPT ![k] = Absent]
      BY <1>5 DEF KeyExpires
    <3>2. \A j \in Keys : redis'[j] = redis[j] \/ redis'[j] = Absent
      BY <1>1, <3>1, PutEffect
    <3>3. QED
      BY <1>1, <3>2
  <2>2. Absent.n = 0 /\ ~Absent.ttl
    BY DEF Absent
  <2>3. redis'[Fail(l)].n <= redis[Fail(l)].n
    BY <1>1, <2>1, <2>2
  <2>4. redis'[Lock(l)].ttl => redis[Lock(l)].ttl
    BY <2>1, <2>2
  <2>5. QED
    BY <1>4, <1>5, <2>3, <2>4 DEF KeyExpires, lockoutVars
<1>6. ASSUME NEW s \in Slots, MemoryWindowEnds(s) PROVE WrongOK(l)'
  BY <1>1, <1>4, <1>6 DEF MemoryWindowEnds, lockoutVars
<1>7. CASE UNCHANGED vars
  BY <1>1, <1>4, <1>7 DEF vars, lockoutVars
<1>8. ASSUME NEW w \in Workers, Step(w) PROVE WrongOK(l)'
  BY <1>1, <1>8, WrongBefore, WrongFailure, WrongSuccess, WrongAuthenticate, WrongLock DEF Step
<1>9. QED
  BY <1>2, <1>3, <1>5, <1>6, <1>7, <1>8 DEF Next, Finished

\* A login whose keys have no other use is locked only for failures that are
\* later than its last success that none of them overlapped, and as many as
\* MaxAttempts takes when each is counted as often as its INCR may be sent.
THEOREM ReasonTheorem == Spec => []LockedForReason
<1>1. Init => WrongInv
  <2> SUFFICES ASSUME Init, NEW l \in OwnLogins PROVE WrongOK(l)
    BY DEF WrongInv
  <2>1. /\ redis[Fail(l)].n = 0 /\ wrong[l] = 0 /\ ~redis[Lock(l)].ttl
        /\ \A w \in Workers : pc[w] = "idle"
    BY LoginKeys DEF Init, Absent, OwnLogins
  <2>2. Failing(l) = {}
    BY <2>1 DEF Failing
  <2>3. Cardinality(Failing(l)) = 0 /\ Tries * 0 = 0
    BY <2>2, FS_EmptySet, Runs
  <2>4. \A w \in Workers : ~At(w, "lock", l) /\ ~At(w, "failure_expire", l)
    BY <2>1 DEF At
  <2>5. QED
    BY <2>1, <2>3, <2>4 DEF WrongOK
<1>2. WrongInv => LockedForReason
  BY DEF WrongInv, WrongOK, Enough, LockedForReason
<1>3. TypeInv /\ WrongInv /\ [Next]_vars => TypeInv' /\ WrongInv'
  BY TypeStep, WrongStep
<1>4. QED
  BY <1>1, <1>2, <1>3, TypeInit, PTL DEF Spec
=============================================================================
