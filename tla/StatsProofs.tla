---------------------------- MODULE StatsProofs ----------------------------
(***************************************************************************)
(* What sharing the statistics cache can do at worst, for all requests and *)
(* all changes of the database: nothing crosses endpoints, users, limits   *)
(* or days.                                                                *)
(***************************************************************************)
EXTENDS Stats, TLAPS

\* rows were computed from the database seen, for a request with key k.
ComputedFor(k, rows, seen) ==
  \E s \in Requests : Key(s) = k /\ Valid(s) /\ rows = Rows(seen, s)

CacheInv == \A e \in cache : ComputedFor(e.key, e.rows, e.seen)

\* Only a valid request gets as far as the cache.
ValidInv == \A r \in Requests : pc[r] \in {"get", "query", "set"} => Valid(r)

AnswerInv ==
  \A r \in Requests : pc[r] \in {"set", "answered"} =>
    ComputedFor(Key(r), answer[r].rows, answer[r].seen)

StatsInv ==
  /\ pc \in [Requests -> {"new", "refused", "get", "query", "set", "failed", "answered"}]
  /\ DOMAIN answer = Requests
  /\ answer = [r \in Requests |-> answer[r]]
  /\ CacheInv /\ ValidInv /\ AnswerInv

\* Each step answers and stores only what was computed for the key at hand.
LEMMA StatsStep == StatsInv /\ [Next]_vars => StatsInv'
<1> SUFFICES ASSUME StatsInv, [Next]_vars PROVE StatsInv'
  OBVIOUS
<1> USE DEF StatsInv, ValidInv, Goto
<1>1. ASSUME NEW r \in Requests, Start(r) PROVE StatsInv'
  BY <1>1 DEF Start, CacheInv, AnswerInv
<1>2. ASSUME NEW r \in Requests, Hit(r) PROVE StatsInv'
  <2>1. PICK e \in cache :
          /\ e.key = Key(r)
          /\ answer' = [answer EXCEPT ![r] = [rows |-> e.rows, seen |-> e.seen]]
    BY <1>2 DEF Hit
  <2>2. ComputedFor(Key(r), e.rows, e.seen)
    BY <2>1 DEF CacheInv
  <2>3. AnswerInv'
    BY <1>2, <2>1, <2>2 DEF Hit, AnswerInv
  <2>4. QED
    BY <1>2, <2>1, <2>3 DEF Hit, CacheInv
<1>3. ASSUME NEW r \in Requests, Miss(r) \/ QueryFails(r) PROVE StatsInv'
  BY <1>3 DEF Miss, QueryFails, CacheInv, AnswerInv
<1>4. ASSUME NEW r \in Requests, Query(r) PROVE StatsInv'
  <2>1. ComputedFor(Key(r), Rows(data, r), data)
    BY <1>4 DEF Query, ComputedFor
  <2>2. AnswerInv'
    BY <1>4, <2>1 DEF Query, AnswerInv
  <2>3. QED
    BY <1>4, <2>2 DEF Query, CacheInv
<1>5. ASSUME NEW r \in Requests, Set(r) PROVE StatsInv'
  <2>1. ComputedFor(Key(r), answer[r].rows, answer[r].seen)
    BY <1>5 DEF Set, AnswerInv
  <2>2. CacheInv'
    BY <1>5, <2>1 DEF Set, CacheInv
  <2>3. QED
    BY <1>5, <2>2 DEF Set, AnswerInv
<1>6. CASE Expire
  BY <1>6 DEF Expire, CacheInv, AnswerInv
<1>7. CASE UNCHANGED <<cache, pc, answer>>
  BY <1>7 DEF CacheInv, AnswerInv
<1>8. QED
  BY <1>1, <1>2, <1>3, <1>4, <1>5, <1>6, <1>7
     DEF Next, Join, CreateTask, UpdateTask, DeleteTask, Tick, vars

\* Whatever requests share the cache and however the data change meanwhile, an
\* answer was computed for the same endpoint, user and limit and for a window of
\* the same days: the cache's keys (stats_cache.go, lines 96-106) mix up nothing
\* but the times within a day.
THEOREM SameDaysTheorem == Spec => []AnswerOfSameDays
<1>1. Init => StatsInv
  BY DEF Init, StatsInv, CacheInv, ValidInv, AnswerInv
<1>2. StatsInv => AnswerOfSameDays
  BY DEF StatsInv, AnswerInv, ComputedFor, AnswerOfSameDays
<1>3. QED
  BY <1>1, <1>2, StatsStep, PTL DEF Spec
=============================================================================
