------------------------- MODULE IdempotencyProofs -------------------------
(***************************************************************************)
(* What the idempotency middleware guarantees for every set of requests,   *)
(* whatever they carry, and for every combination of faults.               *)
(***************************************************************************)
EXTENDS Idempotency, TLAPS

USE DEF Acquirable, Acquired, Released, Expired

\* A request about to store its response was answered by the handler, with a
\* status that IsCacheableStatus accepts.
StoreReady ==
  \A r \in Requests : pc[r] = "store" =>
    /\ answer[r].kind = "handler" /\ answer[r].by = r
    /\ answer[r].status \in Statuses \cap {201, 403}

\* TypeOK alone is not inductive: Set stores the status of the answer.
TypeInv == TypeOK /\ StoreReady

\* Every request's key is one of Keys.
LEMMA KeyInKeys == \A r \in Requests : Key(r) \in Keys
  BY DEF Keys

\* Of the statuses the handlers end with, IsCacheableStatus accepts two.
LEMMA Cacheable ==
  \A status \in Statuses : IsCacheableStatus(status) <=> status \in {201, 403}
  BY StatusesAssumption DEF IsCacheableStatus

\* The initial state is well formed.
LEMMA TypeInit == Init => TypeInv
  BY KeyInKeys, StatusesAssumption DEF Init, TypeInv, TypeOK, StoreReady, Answers

\* Each step keeps the state well formed.
LEMMA TypeStep == TypeInv /\ [Next]_vars => TypeInv'
<1> SUFFICES ASSUME TypeInv, [Next]_vars PROVE TypeInv'
  OBVIOUS
<1> USE KeyInKeys DEF TypeInv, TypeOK, StoreReady, Goto, Answer, Answers
<1>1. ASSUME NEW r \in Requests, Arrive(r) \/ ReadFails(r) PROVE TypeInv'
  <2>1. CASE Arrive(r)
    BY <2>1 DEF Arrive
  <2>2. CASE ReadFails(r)
    <3>1. [kind |-> "unread", status |-> 400, by |-> r] \in Answers
      OBVIOUS
    <3>2. QED
      BY <2>2, <3>1 DEF ReadFails
  <2>3. QED
    BY <1>1, <2>1, <2>2
<1>2. ASSUME NEW r \in Requests, Get(r) PROVE TypeInv'
  <2>1. CASE stored[Key(r)] = NoResponse
    BY <1>2, <2>1 DEF Get
  <2>2. CASE stored[Key(r)] # NoResponse
    <3>1. stored[Key(r)].status \in Statuses /\ stored[Key(r)].by \in Requests
      BY <2>2 DEF Responses
    <3>2. QED
      BY <1>2, <2>2, <3>1 DEF Get
  <2>3. QED
    BY <2>1, <2>2
<1>3. ASSUME NEW r \in Requests, GetFails(r) PROVE TypeInv'
  BY <1>3 DEF GetFails, Unprotected
<1>4. ASSUME NEW r \in Requests, Acquire(r) PROVE TypeInv'
  <2>1. lock' \in [Keys -> Requests \cup {Nobody}]
    BY <1>4 DEF Acquire
  <2>2. [kind |-> "in_progress", status |-> 409, by |-> r] \in Answers
    OBVIOUS
  <2>3. \/ /\ pc' = [pc EXCEPT ![r] = "exec"]
           /\ answer' = answer
        \/ /\ pc' = [pc EXCEPT ![r] = "done"]
           /\ answer' = [answer EXCEPT ![r] = [kind |-> "in_progress", status |-> 409, by |-> r]]
    BY <1>4 DEF Acquire
  <2>4. pc[r] = "acquire" /\ UNCHANGED <<stored, gone, executed, expired, late, disturbed>>
    BY <1>4 DEF Acquire
  <2>5. QED
    BY <2>1, <2>2, <2>3, <2>4
<1>5. ASSUME NEW r \in Requests, AcquireFails(r) PROVE TypeInv'
  BY <1>5 DEF AcquireFails, Unprotected
<1>6. ASSUME NEW r \in Requests, Execute(r) PROVE TypeInv'
  BY <1>6, Cacheable DEF Execute, Effect
<1>7. ASSUME NEW r \in Requests, ExecuteBypass(r) PROVE TypeInv'
  BY <1>7 DEF ExecuteBypass, Effect
<1>8. ASSUME NEW r \in Requests, ExecuteCancelled(r) PROVE TypeInv'
  BY <1>8 DEF ExecuteCancelled
<1>9. ASSUME NEW r \in Requests, Set(r) \/ SetFails(r) PROVE TypeInv'
  BY <1>9 DEF Set, SetFails, StoredResponse, Responses
<1>10. ASSUME NEW r \in Requests, Release(r) PROVE TypeInv'
  BY <1>10 DEF Release
<1>11. ASSUME NEW r \in Requests, ClientLeaves(r) \/ Crash(r) PROVE TypeInv'
  BY <1>11 DEF ClientLeaves, Crash
<1>12. ASSUME NEW k \in Keys, LockExpires(k) \/ ResponseExpires(k) PROVE TypeInv'
  BY <1>12 DEF LockExpires, ResponseExpires
<1>13. CASE UNCHANGED vars
  BY <1>13 DEF vars
<1>14. QED
  BY <1>1, <1>2, <1>3, <1>4, <1>5, <1>6, <1>7, <1>8, <1>9, <1>10, <1>11, <1>12,
     <1>13 DEF Next, Step, Finished

\* The middleware keeps its state well formed: what is stored in Redis is a
\* response of a handler, and what holds a lock is a request.
THEOREM TypeCorrect == Spec => []TypeOK
<1>1. Spec => []TypeInv
  BY TypeInit, TypeStep, PTL DEF Spec
<1>2. TypeInv => TypeOK
  BY DEF TypeInv
<1>3. QED
  BY <1>1, <1>2, PTL

-----------------------------------------------------------------------------
(* The lock *)

\* Each step leaves a live lock with its holder.
LEMMA LockStep ==
  TypeOK /\ LockHeldUntilExpiry /\ [Next]_vars => LockHeldUntilExpiry'
<1> SUFFICES ASSUME TypeOK, LockHeldUntilExpiry, [Next]_vars,
                    NEW s \in Requests, Holding(s)', (s \notin expired)'
             PROVE  lock'[Key(s)] = s
  BY DEF LockHeldUntilExpiry
<1> USE KeyInKeys, NobodyAssumption
    DEF TypeOK, LockHeldUntilExpiry, Holding, Goto
<1>1. ASSUME NEW r \in Requests, Acquire(r) PROVE lock'[Key(s)] = s
  <2>1. CASE s = r
    BY <1>1, <2>1 DEF Acquire
  <2>2. CASE s # r
    BY <1>1, <2>2 DEF Acquire
  <2>3. QED
    BY <2>1, <2>2
<1>2. ASSUME NEW r \in Requests, AcquireFails(r) PROVE lock'[Key(s)] = s
  BY <1>2 DEF AcquireFails, Unprotected
<1>3. ASSUME NEW r \in Requests, Release(r) PROVE lock'[Key(s)] = s
  BY <1>3 DEF Release
<1>4. ASSUME NEW k \in Keys, LockExpires(k) PROVE lock'[Key(s)] = s
  BY <1>4 DEF LockExpires
<1>5. ASSUME UNCHANGED <<lock, expired>>, Holding(s) PROVE lock'[Key(s)] = s
  BY <1>5
<1>6. ASSUME NEW r \in Requests,
             \/ Arrive(r) \/ ReadFails(r) \/ Get(r) \/ GetFails(r)
             \/ ExecuteBypass(r) \/ ExecuteCancelled(r)
      PROVE  UNCHANGED <<lock, expired>> /\ Holding(s)
  BY <1>6 DEF Arrive, ReadFails, Get, GetFails, Unprotected, ExecuteBypass, ExecuteCancelled
<1>7. ASSUME NEW r \in Requests,
             Execute(r) \/ Set(r) \/ SetFails(r) \/ ClientLeaves(r) \/ Crash(r)
      PROVE  UNCHANGED <<lock, expired>> /\ Holding(s)
  BY <1>7 DEF Execute, Set, SetFails, ClientLeaves, Crash
<1>8. ASSUME NEW k \in Keys, ResponseExpires(k)
      PROVE  UNCHANGED <<lock, expired>> /\ Holding(s)
  BY <1>8 DEF ResponseExpires
<1>9. CASE UNCHANGED vars
  BY <1>9 DEF vars
<1>10. QED
  BY <1>1, <1>2, <1>3, <1>4, <1>5, <1>6, <1>7, <1>8, <1>9 DEF Next, Step, Finished

\* Whatever fails and however often a lock runs out, only the TTL or the holder
\* itself ends a lock (locker.go: the token comparison in releaseScript).
THEOREM LockTheorem == Spec => []LockHeldUntilExpiry
<1>1. Init => LockHeldUntilExpiry
  BY DEF Init, LockHeldUntilExpiry, Holding
<1>2. QED
  BY <1>1, TypeCorrect, LockStep, PTL DEF Spec

-----------------------------------------------------------------------------
(* Replays.  A stored response is one that a handler gave to the request it *)
(* names, and that request will not be answered again; so a replay of it    *)
(* stays true after the entry is overwritten or runs out.                   *)

\* With program counters p and answers a, s is past its answer, which the
\* handler gave with this status.
AnsweredBy(p, a, s, status) ==
  /\ p[s] \in {"release", "done", "dead"}
  /\ a[s] = [kind |-> "handler", status |-> status, by |-> s]
  /\ status \in {201, 403}

StoredOK(p, a, k, entry) ==
  entry # NoResponse =>
    /\ Key(entry.by) = k
    /\ entry.hash = BuildRequestHash(entry.by)
    /\ AnsweredBy(p, a, entry.by, entry.status)

StoredInv == \A k \in Keys : StoredOK(pc, answer, k, stored[k])

ReplayOK(p, a, r) ==
  a[r].kind = "replay" =>
    /\ Key(a[r].by) = Key(r)
    /\ BuildRequestHash(a[r].by) = BuildRequestHash(r)
    /\ AnsweredBy(p, a, a[r].by, a[r].status)

ReplayInv == \A r \in Requests : ReplayOK(pc, answer, r)

\* What a handler has answered it does not take back.
LEMMA AnswerFrozen ==
  ASSUME TypeInv, [Next]_vars
  PROVE  \A s \in Requests :
           pc[s] \in {"release", "done", "dead"} =>
             pc'[s] \in {"release", "done", "dead"} /\ answer'[s] = answer[s]
<1> DEFINE past == {"release", "done", "dead"}
<1> SUFFICES ASSUME NEW s \in Requests, pc[s] \in past
             PROVE  pc'[s] \in past /\ answer'[s] = answer[s]
  OBVIOUS
<1> USE DEF TypeInv, TypeOK, Goto, Answer
<1>1. ASSUME NEW r \in Requests, Arrive(r) \/ ReadFails(r) \/ Get(r) \/ GetFails(r)
      PROVE  pc'[s] \in past /\ answer'[s] = answer[s]
  BY <1>1 DEF Arrive, ReadFails, Get, GetFails
<1>2. ASSUME NEW r \in Requests, Acquire(r) \/ AcquireFails(r) \/ Release(r)
      PROVE  pc'[s] \in past /\ answer'[s] = answer[s]
  BY <1>2 DEF Acquire, AcquireFails, Release
<1>3. ASSUME NEW r \in Requests, Execute(r) \/ ExecuteBypass(r) \/ ExecuteCancelled(r)
      PROVE  pc'[s] \in past /\ answer'[s] = answer[s]
  BY <1>3 DEF Execute, ExecuteBypass, ExecuteCancelled
<1>4. ASSUME NEW r \in Requests, Set(r) \/ SetFails(r) \/ ClientLeaves(r) \/ Crash(r)
      PROVE  pc'[s] \in past /\ answer'[s] = answer[s]
  BY <1>4 DEF Set, SetFails, ClientLeaves, Crash
<1>5. ASSUME NEW k \in Keys, LockExpires(k) \/ ResponseExpires(k)
      PROVE  pc'[s] \in past /\ answer'[s] = answer[s]
  BY <1>5 DEF LockExpires, ResponseExpires
<1>6. CASE UNCHANGED vars
  BY <1>6 DEF vars
<1>7. QED
  BY <1>1, <1>2, <1>3, <1>4, <1>5, <1>6 DEF Next, Step, Finished

\* Each step stores only what a handler has answered.
LEMMA StoredStep == TypeInv /\ StoredInv /\ [Next]_vars => StoredInv'
<1> SUFFICES ASSUME TypeInv, StoredInv, [Next]_vars, NEW k \in Keys
             PROVE  StoredOK(pc', answer', k, stored'[k])
  BY DEF StoredInv
<1>1. CASE stored'[k] = stored[k]
  <2>1. CASE stored[k] = NoResponse
    BY <1>1, <2>1 DEF StoredOK
  <2>2. CASE stored[k] # NoResponse
    <3>1. stored[k].by \in Requests
      BY <2>2 DEF TypeInv, TypeOK, Responses
    <3>2. QED
      BY <1>1, <3>1, AnswerFrozen DEF StoredInv, StoredOK, AnsweredBy
  <2>3. QED
    BY <2>1, <2>2
<1>2. ASSUME NEW r \in Requests, Set(r) \/ SetFails(r), stored'[k] # stored[k]
      PROVE  StoredOK(pc', answer', k, stored'[k])
  <2> USE KeyInKeys DEF TypeInv, TypeOK
  <2>1. k = Key(r) /\ stored'[k] = StoredResponse(r)
    BY <1>2 DEF Set, SetFails
  <2>2. pc[r] = "store" /\ pc'[r] = "release" /\ answer' = answer
    BY <1>2 DEF Set, SetFails, Goto
  <2>3. answer[r] = [kind |-> "handler", status |-> answer[r].status, by |-> r]
    BY <2>2 DEF StoreReady, Answers
  <2>4. answer[r].status \in {201, 403}
    BY <2>2 DEF StoreReady
  <2>5. QED
    BY <2>1, <2>2, <2>3, <2>4 DEF StoredResponse, StoredOK, AnsweredBy
<1>3. ASSUME NEW l \in Keys, ResponseExpires(l)
      PROVE  stored'[k] = stored[k] \/ stored'[k] = NoResponse
  BY <1>3 DEF ResponseExpires, TypeInv, TypeOK
<1>4. CASE stored'[k] = NoResponse
  BY <1>4 DEF StoredOK
<1>5. QED
  BY <1>1, <1>2, <1>3, <1>4 DEF Next, Step, Finished, Arrive, ReadFails, Get, GetFails,
     Acquire, AcquireFails, Execute, ExecuteBypass, ExecuteCancelled, Release, ClientLeaves,
     Crash, LockExpires, vars

\* Each step replays only what is stored.
LEMMA ReplayStep == TypeInv /\ StoredInv /\ ReplayInv /\ [Next]_vars => ReplayInv'
<1> SUFFICES ASSUME TypeInv, StoredInv, ReplayInv, [Next]_vars,
                    NEW q \in Requests, answer'[q].kind = "replay"
             PROVE  ReplayOK(pc', answer', q)
  BY DEF ReplayInv, ReplayOK
<1>1. CASE answer'[q] = answer[q]
  <2>1. answer[q].by \in Requests
    BY DEF TypeInv, TypeOK, Answers
  <2>2. QED
    BY <1>1, <2>1, AnswerFrozen DEF ReplayInv, ReplayOK, AnsweredBy
<1>2. ASSUME Get(q), answer'[q] # answer[q] PROVE ReplayOK(pc', answer', q)
  <2> DEFINE cached == stored[Key(q)]
  <2>1. /\ cached # NoResponse
        /\ cached.hash = BuildRequestHash(q)
        /\ answer'[q] = [kind |-> "replay", status |-> cached.status, by |-> cached.by]
    BY <1>2 DEF Get, Answer, TypeInv, TypeOK
  <2>2. cached.by \in Requests
    BY <2>1, KeyInKeys DEF TypeInv, TypeOK, Responses
  <2>3. StoredOK(pc, answer, Key(q), cached)
    BY KeyInKeys DEF StoredInv
  <2> HIDE DEF cached
  <2>4. QED
    BY <2>1, <2>2, <2>3, AnswerFrozen DEF StoredOK, ReplayOK, AnsweredBy
<1>3. ASSUME NEW r \in Requests,
             ReadFails(r) \/ Acquire(r) \/ Execute(r) \/ ExecuteBypass(r) \/ ExecuteCancelled(r)
      PROVE  answer'[q] = answer[q]
  BY <1>3 DEF ReadFails, Acquire, Execute, ExecuteBypass, ExecuteCancelled, Answer, TypeInv, TypeOK
<1>4. ASSUME NEW r \in Requests, r # q, Get(r) PROVE answer'[q] = answer[q]
  BY <1>4 DEF Get, Answer, TypeInv, TypeOK
<1>5. QED
  BY <1>1, <1>2, <1>3, <1>4 DEF Next, Step, Finished, Arrive, GetFails, AcquireFails,
     Set, SetFails, Release, ClientLeaves, Crash, LockExpires, ResponseExpires, vars

\* Under every combination of faults a replayed response is the one a handler
\* gave, with a cacheable status, to the same user's request with the same
\* method, route, key and payload.
THEOREM ReplayTheorem == Spec => []ReplayFaithful
<1> DEFINE Inv == TypeInv /\ StoredInv /\ ReplayInv
<1>1. Init => Inv
  <2>1. Init => StoredInv /\ ReplayInv
    BY DEF Init, StoredInv, StoredOK, ReplayInv, ReplayOK
  <2>2. QED
    BY <2>1, TypeInit
<1>2. Inv /\ [Next]_vars => Inv'
  BY TypeStep, StoredStep, ReplayStep
<1>3. Inv => ReplayFaithful
  BY DEF ReplayInv, ReplayOK, ReplayFaithful, AnsweredBy, Key, BuildRequestHash
<1>4. QED
  BY <1>1, <1>2, <1>3, PTL DEF Spec

-----------------------------------------------------------------------------
(* Retries.  Unless a Redis call failed for the key or its response ran out, *)
(* a request that was carried out and answered has left a response behind,  *)
(* and a request that arrives later finds it, whatever locks, clients and   *)
(* processes do.                                                            *)

\* A client that leaves makes calls fail only from then on: with an undisturbed
\* key, only requests without protection run outside the lock.
BypassUnguarded ==
  \A r \in Requests :
    pc[r] \in {"bypass", "cancelled"} /\ Key(r) \notin disturbed => ~Guarded(r)

\* Nothing has been done for a request that has not reached the handler.
NotYetExecuted ==
  \A r \in Requests : pc[r] \in {"new", "get", "acquire"} => r \notin executed

\* A protected request that succeeded and is past Set has left a response.
SettledStored ==
  \A r \in Requests :
    Guarded(r) /\ pc[r] \in {"release", "done"} /\ answer[r].kind = "handler"
      /\ answer[r].status = 201 /\ Key(r) \notin disturbed
    => stored[Key(r)] # NoResponse

\* A late request either does not write at all or never gets past Get.
LateStopped ==
  \A r \in late : Key(r) \notin disturbed =>
    /\ r \notin executed
    /\ \/ ~isMutatingMethod(Req[r].method)
       \/ pc[r] \in {"get", "done", "dead"} /\ stored[Key(r)] # NoResponse

\* What was executed was answered by the handler.
ExecutedAnswered ==
  \A r \in executed : answer[r].kind = "handler" /\ pc[r] \notin {"get", "acquire"}

RetryInv ==
  /\ TypeInv /\ BypassUnguarded /\ NotYetExecuted /\ SettledStored
  /\ LateStopped /\ ExecutedAnswered

\* A settled key that nothing disturbs stays stored and stops late requests.
LEMMA RetryStep == RetryInv /\ [Next]_vars => RetryInv'
<1> SUFFICES ASSUME RetryInv, [Next]_vars PROVE RetryInv'
  OBVIOUS
<1>0. TypeInv'
  BY TypeStep DEF RetryInv
<1> USE KeyInKeys DEF RetryInv, TypeInv, TypeOK, BypassUnguarded, NotYetExecuted,
        SettledStored, LateStopped, ExecutedAnswered, Goto, Answer
<1>1. ASSUME NEW r \in Requests, Arrive(r) PROVE RetryInv'
  <2>1. ASSUME NEW q \in late', q \notin late
        PROVE  q = r /\ \E s \in Requests : Settled(s, Key(r))
    BY <1>1, <2>1 DEF Arrive
  <2>2. ASSUME NEW s \in Requests, Settled(s, Key(r)), Key(r) \notin disturbed
        PROVE  stored[Key(r)] # NoResponse /\ Req[r].idemKey # NoKey
    <3>1. Guarded(s) /\ Key(s) = Key(r) /\ stored[Key(s)] # NoResponse
      BY <2>2 DEF Settled
    <3>2. Req[s].idemKey # NoKey /\ Req[s].idemKey = Req[r].idemKey
      BY <3>1 DEF Guarded, Key
    <3>3. QED
      BY <3>1, <3>2
  <2>3. LateStopped'
    BY <1>1, <2>1, <2>2 DEF Arrive, Guarded
  <2>4. QED
    BY <1>0, <1>1, <2>3 DEF Arrive
<1>2. ASSUME NEW r \in Requests, Get(r) \/ ReadFails(r) PROVE RetryInv'
  BY <1>0, <1>2 DEF Get, ReadFails
<1>3. ASSUME NEW r \in Requests, GetFails(r) PROVE RetryInv'
  BY <1>0, <1>3 DEF GetFails, Unprotected
<1>4. ASSUME NEW r \in Requests, Acquire(r) PROVE RetryInv'
  BY <1>0, <1>4 DEF Acquire, Guarded
<1>5. ASSUME NEW r \in Requests, AcquireFails(r) PROVE RetryInv'
  BY <1>0, <1>5 DEF AcquireFails, Unprotected
<1>6. ASSUME NEW r \in Requests, Execute(r) PROVE RetryInv'
  BY <1>0, <1>6, Cacheable DEF Execute, Effect
<1>7. ASSUME NEW r \in Requests, ExecuteBypass(r) PROVE RetryInv'
  BY <1>0, <1>7 DEF ExecuteBypass, Effect
<1>8. ASSUME NEW r \in Requests, ExecuteCancelled(r) PROVE RetryInv'
  BY <1>0, <1>8 DEF ExecuteCancelled
<1>9. ASSUME NEW r \in Requests, Set(r) PROVE RetryInv'
  <2>1. StoredResponse(r) # NoResponse
    BY <1>9, NoResponseAssumption DEF Set, StoredResponse, Responses, StoreReady
  <2>2. QED
    BY <1>0, <1>9, <2>1 DEF Set
<1>10. ASSUME NEW r \in Requests, SetFails(r) PROVE RetryInv'
  BY <1>0, <1>10 DEF SetFails
<1>11. ASSUME NEW r \in Requests, Release(r) PROVE RetryInv'
  BY <1>0, <1>11 DEF Release
<1>12. ASSUME NEW r \in Requests, Crash(r) \/ ClientLeaves(r) PROVE RetryInv'
  BY <1>0, <1>12 DEF Crash, ClientLeaves
<1>13. ASSUME NEW k \in Keys, LockExpires(k) PROVE RetryInv'
  BY <1>0, <1>13 DEF LockExpires
<1>14. ASSUME NEW k \in Keys, ResponseExpires(k) PROVE RetryInv'
  BY <1>0, <1>14 DEF ResponseExpires
<1>15. CASE UNCHANGED vars
  BY <1>0, <1>15 DEF vars
<1>16. QED
  BY <1>1, <1>2, <1>3, <1>4, <1>5, <1>6, <1>7, <1>8, <1>9, <1>10, <1>11, <1>12,
     <1>13, <1>14, <1>15 DEF Next, Step, Finished

\* Under every combination of faults, a request that arrives after one with the
\* same key was carried out and answered writes nothing, unless a Redis call
\* failed for this very key or its stored response ran out.
THEOREM RetryTheorem == Spec => []RetryProtected
<1>1. Init => RetryInv
  BY TypeInit DEF Init, RetryInv, BypassUnguarded, NotYetExecuted, SettledStored,
     LateStopped, ExecutedAnswered
<1>2. RetryInv => RetryProtected
  BY DEF RetryInv, LateStopped, RetryProtected
<1>3. QED
  BY <1>1, <1>2, RetryStep, PTL DEF Spec
=============================================================================
