-------------------------- MODULE LifecycleProofs --------------------------
(***************************************************************************)
(* Shutdown, for any number of requests and connections: what was accepted *)
(* is served to the end, and failures show in the exit status.             *)
(***************************************************************************)
EXTENDS Lifecycle, FiniteSetTheorems, TLAPS

\* The shapes the proofs need.
Shapes ==
  /\ at \in [Requests -> {"idle", "begin", "select", "second", "write", "ended", "cut"}]
  /\ serve \in [Servers -> {"off", "start", "serving", "send", "done"}]
  /\ stop \in [Servers -> {"off", "wait", "drain", "send", "done"}]

\* The goroutines exist once Start, or Wait, is past the point that starts them,
\* and a request is in flight only once the public server's do.
Begun ==
  /\ main \in {"init", "api"} <=> stop["api"] = "off"
  /\ stop["api"] = "off" => serve["api"] = "off" /\ Active = {}
  /\ main \in {"init", "api", "metrics"} => serve["metrics"] = "off" /\ stop["metrics"] = "off"
  /\ main \in {"init", "api", "metrics", "ready"} => reader = "off"

\* Once its Shutdown has returned, no request is in flight, or it gave up.
DrainedOrCut ==
  /\ stop["api"] = "send" => drainCut
  /\ stop["api"] = "done" /\ ~drainCut => Active = {}

\* What the steps of Wait leave behind them.
Past ==
  /\ main \in {"errwg", "exit"} => WgZero
  /\ main = "exit" => reader = "done"
  /\ db = "closed" => main = "exit"

\* An error is on its way to appErr until it is there.
FailureReported ==
  failed => \/ appErr \/ reader = "handle"
            \/ \E s \in Servers : serve[s] = "send" \/ stop[s] = "send"

\* How the process ends.
Ending ==
  /\ status = "running" => \A r \in Requests : at[r] # "cut"
  /\ ServedToTheEnd
  /\ ExitTellsFailure

Inv == Shapes /\ Begun /\ DrainedOrCut /\ Past /\ FailureReported /\ Ending

\* A request's step leaves it in flight or ends it, and starts no other.
LEMMA RequestFrame ==
  ASSUME Shapes, NEW r \in Requests, RequestStep(r)
  PROVE  /\ at' \in [Requests -> {"idle", "begin", "select", "second", "write", "ended", "cut"}]
         /\ Active' \subseteq Active
         /\ \A q \in Requests : at'[q] = "cut" => at[q] = "cut"
<1> USE DEF Shapes, Active, End
<1>1. ASSUME Query(r) \/ Begin(r) \/ Select(r) PROVE /\ r \in Active
        /\ \E x \in {"select", "second", "write", "ended"} : at' = [at EXCEPT ![r] = x]
  BY <1>1 DEF Query, Begin, Select
<1>2. ASSUME GetRole(r) \/ Commit(r) \/ DatabaseClosed(r) \/ TimesOut(r)
      PROVE  r \in Active /\ \E x \in {"write", "ended"} : at' = [at EXCEPT ![r] = x]
  BY <1>2 DEF GetRole, Commit, DatabaseClosed, TimesOut
<1>3. QED
  BY <1>1, <1>2 DEF RequestStep

\* At the end of the process what was in flight is cut, and nothing else.
LEMMA ExitFrame ==
  ASSUME Shapes, NEW st, Exit(st)
  PROVE  /\ at' \in [Requests -> {"idle", "begin", "select", "second", "write", "ended", "cut"}]
         /\ Active' = {}
         /\ \A q \in Requests : at'[q] = "cut" => at[q] = "cut" \/ q \in Active
  BY DEF Shapes, Active, Exit

\* The initial state.
LEMMA InvInit == Init => Inv
  BY DEF Init, PoolInit, Inv, Shapes, Begun, DrainedOrCut, Past, FailureReported, Ending,
     ServedToTheEnd, ExitTellsFailure, Active, Servers

\* Each step of main.
LEMMA MainInv ==
  ASSUME Inv, status = "running", MainStep
  PROVE  Inv'
<1> USE DEF Inv, Begun, DrainedOrCut, Past, FailureReported, WgZero, Servers,
        goroutines, context, history, pool
<1>1. CASE InitCoreComponents \/ Wait \/ WaitCtx \/ CloseErrChan
  <2>1. UNCHANGED <<serve, stop, at, failed, drainCut, appErr, status>>
    BY <1>1 DEF InitCoreComponents, Wait, WaitCtx, CloseErrChan
  <2>2. Ending'
    BY <1>1, <2>1 DEF InitCoreComponents, Wait, WaitCtx, CloseErrChan, Ending,
       ServedToTheEnd, ExitTellsFailure, Active
  <2>3. Shapes' /\ Begun' /\ DrainedOrCut'
    BY <1>1, <2>1 DEF InitCoreComponents, Wait, WaitCtx, CloseErrChan, Shapes, Active
  <2>4. Past'
    BY <1>1, <2>1 DEF InitCoreComponents, Wait, WaitCtx, CloseErrChan
  <2>5. FailureReported'
    BY <1>1, <2>1 DEF InitCoreComponents, Wait, WaitCtx, CloseErrChan
  <2>6. QED
    BY <2>2, <2>3, <2>4, <2>5
<1>2. CASE InitPublicRouter \/ InitMetricsServer
  <2>1. Ending'
    BY <1>2 DEF InitPublicRouter, InitMetricsServer, Ending, ServedToTheEnd,
       ExitTellsFailure, Active
  <2>2. Shapes' /\ Begun' /\ DrainedOrCut'
    BY <1>2 DEF InitPublicRouter, InitMetricsServer, RunServer, Shapes, Active
  <2>3. Past'
    BY <1>2 DEF InitPublicRouter, InitMetricsServer
  <2>4. FailureReported'
    BY <1>2 DEF InitPublicRouter, InitMetricsServer, RunServer, Shapes
  <2>5. QED
    BY <2>1, <2>2, <2>3, <2>4
<1>3. CASE CloseStores
  <2>1. Active = {} \/ drainCut
    BY <1>3 DEF CloseStores
  <2>2. Ending'
    BY <1>3, <2>1 DEF CloseStores, Ending, ServedToTheEnd, ExitTellsFailure, Active
  <2>3. QED
    BY <1>3, <2>2 DEF CloseStores, ErrWgZero, Shapes, Active
<1>4. CASE InitFails \/ ListenFails \/ Return
  <2>1. PICK st \in {"ok", "error"} : Exit(st) /\ (st = "ok" => main = "exit" /\ ~appErr)
    BY <1>4 DEF InitFails, ListenFails, Return
  <2>2. Active = {} \/ drainCut \/ main = "metrics"
    BY <1>4 DEF InitFails, ListenFails, Return
  <2>3. main' = main /\ (db' = "closed" => db = "closed")
    BY <1>4 DEF InitFails, ListenFails, Return
  <2>4. Ending'
    BY <2>1, <2>2, <2>3, ExitFrame DEF Ending, ServedToTheEnd, ExitTellsFailure, Exit
  <2>5. Shapes' /\ Active' = {}
    BY <2>1, ExitFrame DEF Shapes, Exit
  <2>6. QED
    BY <2>1, <2>3, <2>4, <2>5 DEF Exit
<1>5. QED
  BY <1>1, <1>2, <1>3, <1>4 DEF MainStep

\* Each step of a server's goroutines.
LEMMA ServerInv ==
  ASSUME Inv, status = "running", NEW s \in Servers,
         ServerStep(s) \/ ServeFails(s) \/ DrainFails(s)
  PROVE  Inv'
<1> USE DEF Inv, Shapes, Begun, DrainedOrCut, Past, FailureReported, WgZero, Servers,
        goroutines, context, history, pool, Ending, ServedToTheEnd, ExitTellsFailure,
        Active
<1>1. CASE ServeStarts(s) \/ ServeReturns(s) \/ ServeFails(s)
  BY <1>1 DEF ServeStarts, ServeReturns, ServeFails, InShutdown
<1>2. CASE ShutdownStarts(s)
  BY <1>2 DEF ShutdownStarts
<1>3. CASE Drained(s)
  BY <1>3 DEF Drained, InFlight
<1>4. CASE DrainFails(s)
  BY <1>4 DEF DrainFails, InFlight
<1>5. QED
  BY <1>1, <1>2, <1>3, <1>4 DEF ServerStep

\* Each step of the reader, and signals.
LEMMA ReaderInv ==
  ASSUME Inv, status = "running", ReaderStep \/ Signal \/ SignalKills
  PROVE  Inv'
<1> USE DEF Inv, Begun, DrainedOrCut, Past, FailureReported, WgZero, Servers,
        goroutines, context, history, pool
<1>1. CASE Receive
  BY <1>1 DEF Receive, Shapes, Ending, ServedToTheEnd, ExitTellsFailure, Active
<1>2. CASE Handle \/ ReaderEnds \/ Signal
  BY <1>2 DEF Handle, ReaderEnds, Signal, Shapes, Ending, ServedToTheEnd,
     ExitTellsFailure, Active
<1>3. CASE SignalKills
  <2>1. Exit("killed") /\ UNCHANGED <<main, db>>
    BY <1>3 DEF SignalKills
  <2>2. Ending'
    BY <2>1 DEF Exit, Ending, ServedToTheEnd, ExitTellsFailure
  <2>3. Shapes' /\ Active' = {}
    BY <2>1, ExitFrame DEF Shapes, Exit
  <2>4. QED
    BY <2>1, <2>2, <2>3 DEF Exit
<1>4. QED
  BY <1>1, <1>2, <1>3 DEF ReaderStep

\* Requests arrive and go on.
LEMMA RequestInv ==
  ASSUME Inv, status = "running", NEW r \in Requests, Arrive(r) \/ Request(r)
  PROVE  Inv'
<1> USE DEF Inv, Begun, DrainedOrCut, Past, FailureReported, WgZero, Servers,
        goroutines, context, history, pool
<1>1. CASE Arrive(r)
  BY <1>1 DEF Arrive, InShutdown, Shapes, Ending, ServedToTheEnd, ExitTellsFailure, Active
<1>2. CASE Request(r)
  <2>1. /\ at' \in [Requests -> {"idle", "begin", "select", "second", "write", "ended", "cut"}]
        /\ Active' \subseteq Active
        /\ \A q \in Requests : at'[q] = "cut" => at[q] = "cut"
    BY <1>2, RequestFrame DEF Request
  <2>2. Ending'
    BY <1>2, <2>1 DEF Request, Ending, ServedToTheEnd, ExitTellsFailure
  <2>3. QED
    BY <1>2, <2>1, <2>2 DEF Request, Shapes
<1>3. QED
  BY <1>1, <1>2

\* The invariant is inductive.
LEMMA InvStep == Inv /\ [Next]_vars => Inv'
<1> SUFFICES ASSUME Inv, [Next]_vars PROVE Inv'
  OBVIOUS
<1>1. CASE UNCHANGED vars
  BY <1>1 DEF vars, goroutines, context, history, pool, Inv, Shapes, Begun, DrainedOrCut,
     Past, FailureReported, WgZero, Ending, ServedToTheEnd, ExitTellsFailure, Active
<1>2. QED
  BY <1>1, MainInv, ServerInv, ReaderInv, RequestInv DEF Next, Finished

\* For any requests and any pool, an accepted request keeps its database and is
\* not cut short by the end of the process, unless Shutdown ran out of time, the
\* metrics server could not listen, or a signal came after stop().
THEOREM ServedTheorem == Spec => []ServedToTheEnd
<1>1. Inv => ServedToTheEnd
  BY DEF Inv, Ending
<1>2. QED
  BY <1>1, InvInit, InvStep, PTL DEF Spec

\* For any requests and any pool, the process ends with 0 only if no server
\* failed, however late the failure was reported.
THEOREM ExitTheorem == Spec => []ExitTellsFailure
<1>1. Inv => ExitTellsFailure
  BY DEF Inv, Ending
<1>2. QED
  BY <1>1, InvInit, InvStep, PTL DEF Spec

-----------------------------------------------------------------------------
(* The pool *)

Steps == {"idle", "begin", "select", "second", "write", "ended", "cut"}

\* Connections are limited, and a locked row belongs to an open transaction that
\* has got past its SELECT.
PoolInv ==
  /\ at \in [Requests -> Steps]
  /\ owner \in [Rows -> Requests \cup {NoOne}]
  /\ \A x \in Rows : owner[x] # NoOne =>
       at[owner[x]] \in {"second", "write"} /\ Row[owner[x]] = x
  /\ Cardinality(Held) <= MaxOpen

\* A set of requests is finite, so a part of one has no more connections.
LEMMA FewerHeld ==
  ASSUME NEW S \in SUBSET Requests, NEW T \in SUBSET S
  PROVE  IsFiniteSet(S) /\ Cardinality(S) \in Nat /\ Cardinality(T) <= Cardinality(S)
<1>1. IsFiniteSet(S)
  BY FS_Subset, RequestsAssumption
<1>2. QED
  BY <1>1, FS_Subset, FS_CardinalityType

\* Each step of a request takes at most the one connection that is free.
LEMMA PoolStep ==
  ASSUME PoolInv, NEW r \in Requests, RequestStep(r)
  PROVE  PoolInv'
<1> USE DEF PoolInv, Steps
<1>0. Row[r] \in Rows
  BY DEF Rows
<1>1. CASE Begin(r)
  <2>1. Held' = Held \cup {r} /\ r \notin Held
    BY <1>1 DEF Begin, Held
  <2>2. IsFiniteSet(Held) /\ Cardinality(Held) \in Nat
    BY FewerHeld DEF Held
  <2>3. Cardinality(Held') = Cardinality(Held) + 1
    BY <2>1, <2>2, FS_AddElement
  <2>4. Cardinality(Held') <= MaxOpen
    BY <1>1, <2>2, <2>3, MaxOpenAssumption DEF Begin, ConnectionFree
  <2>5. \A x \in Rows : owner[x] # NoOne => owner[x] # r
    BY <1>1 DEF Begin
  <2>6. QED
    BY <1>1, <2>4, <2>5 DEF Begin
<1>2. ASSUME r \in Active, End(r) PROVE PoolInv'
  <2>1. Held' \in SUBSET Held /\ Held \in SUBSET Requests
    BY <1>2 DEF End, Held
  <2>2. Cardinality(Held') <= MaxOpen
    BY <2>1, FewerHeld, MaxOpenAssumption
  <2>3. \A x \in Rows : owner'[x] # NoOne => owner'[x] = owner[x] /\ owner[x] # r
    BY <1>2 DEF End, RowsReleased
  <2>4. owner' \in [Rows -> Requests \cup {NoOne}]
    BY <1>2 DEF End, RowsReleased
  <2>5. QED
    BY <1>2, <2>2, <2>3, <2>4 DEF End
<1>3. CASE Select(r) /\ ~End(r)
  <2>1. Held' \in SUBSET Held /\ Held \in SUBSET Requests
    BY <1>3 DEF Select, Held
  <2>2. Cardinality(Held') <= MaxOpen
    BY <2>1, FewerHeld, MaxOpenAssumption
  <2>3. \A x \in Rows : owner[x] # NoOne => owner[x] # r
    BY <1>3 DEF Select
  <2>4. /\ owner' = [owner EXCEPT ![Row[r]] = r]
        /\ at' \in [Requests -> Steps] /\ at'[r] \in {"second", "write"}
        /\ \A q \in Requests : q # r => at'[q] = at[q]
    BY <1>3 DEF Select
  <2>5. QED
    BY <1>0, <2>2, <2>3, <2>4
<1>4. CASE GetRole(r) /\ ~End(r)
  <2>1. Held' \in SUBSET Held /\ Held \in SUBSET Requests
    BY <1>4 DEF GetRole, Held
  <2>2. Cardinality(Held') <= MaxOpen
    BY <2>1, FewerHeld, MaxOpenAssumption
  <2>3. QED
    BY <1>4, <2>2 DEF GetRole
<1>5. ASSUME ~Begin(r), ~(Select(r) /\ ~End(r)), ~(GetRole(r) /\ ~End(r))
      PROVE  r \in Active /\ End(r)
  BY <1>5 DEF RequestStep, Query, Select, GetRole, Commit, DatabaseClosed, TimesOut, Active
<1>6. QED
  BY <1>1, <1>2, <1>3, <1>4, <1>5

\* The end of the process frees everything.
LEMMA PoolExit == ASSUME PoolInv, NEW st, Exit(st) PROVE PoolInv'
<1> USE DEF PoolInv, Steps
<1>1. at' \in [Requests -> Steps] /\ Held' = {}
  BY DEF Exit, Active, Held
<1>2. owner' \in [Rows -> {NoOne}]
  BY DEF Exit, RowsReleased
<1>3. QED
  BY <1>1, <1>2, FS_EmptySet, MaxOpenAssumption

\* The database is there once a request can be in flight.
DatabaseThere == db = "none" => main = "init"

\* What main, the goroutines and the reader may be.
ProcessTypes ==
  /\ db \in {"none", "open", "closed"}
  /\ main \in {"init", "api", "metrics", "ready", "ctx", "wg", "errwg", "exit"}
  /\ servers \subseteq Servers
  /\ {ctxDone, caught, closed, appErr, failed, drainCut} \subseteq BOOLEAN
  /\ reader \in {"off", "receive", "handle", "done"}
  /\ status \in {"running", "ok", "error", "killed"}

\* All that holds of the process and of its pool.
FullInv == Inv /\ PoolInv /\ DatabaseThere /\ ProcessTypes

\* The initial state.
LEMMA FullInit == Init => FullInv
<1> SUFFICES ASSUME Init PROVE FullInv
  OBVIOUS
<1>1. Held = {} /\ at \in [Requests -> Steps] /\ owner \in [Rows -> {NoOne}]
  BY DEF Init, PoolInit, Held, Steps
<1>2. PoolInv
  BY <1>1, FS_EmptySet, MaxOpenAssumption DEF PoolInv
<1>3. DatabaseThere /\ ProcessTypes
  BY DEF Init, PoolInit, DatabaseThere, ProcessTypes
<1>4. QED
  BY <1>2, <1>3, InvInit DEF FullInv

\* Only requests and the end of the process touch the pool.
LEMMA PoolNext == FullInv /\ [Next]_vars => PoolInv'
<1> SUFFICES ASSUME FullInv, [Next]_vars PROVE PoolInv'
  OBVIOUS
<1> USE DEF FullInv
<1>1. ASSUME UNCHANGED <<at, owner>> PROVE PoolInv'
  BY <1>1 DEF PoolInv, Held
<1>2. ASSUME MainStep PROVE PoolInv'
  <2>1. CASE InitFails \/ ListenFails \/ Return
    BY <2>1, PoolExit DEF InitFails, ListenFails, Return
  <2>2. CASE ~(InitFails \/ ListenFails \/ Return)
    <3>1. UNCHANGED <<at, owner>>
      BY <1>2, <2>2 DEF MainStep, InitCoreComponents, InitPublicRouter, InitMetricsServer,
         Wait, WaitCtx, CloseErrChan, CloseStores, pool
    <3>2. QED
      BY <1>1, <3>1
  <2>3. QED
    BY <2>1, <2>2
<1>3. ASSUME ReaderStep \/ Signal \/ UNCHANGED vars PROVE PoolInv'
  BY <1>1, <1>3 DEF ReaderStep, Receive, Handle, ReaderEnds, Signal, vars, pool
<1>4. ASSUME SignalKills PROVE PoolInv'
  BY <1>4, PoolExit DEF SignalKills
<1>5. ASSUME NEW s \in Servers, ServerStep(s) \/ ServeFails(s) \/ DrainFails(s)
      PROVE  PoolInv'
  BY <1>1, <1>5 DEF ServerStep, ServeStarts, ServeReturns, ShutdownStarts, Drained,
     ServeFails, DrainFails, pool
<1>6. ASSUME NEW r \in Requests, Arrive(r) PROVE PoolInv'
  <2>1. Held' = Held
    BY <1>6 DEF Arrive, Held, PoolInv
  <2>2. QED
    BY <1>6, <2>1 DEF Arrive, PoolInv, Steps
<1>7. ASSUME NEW r \in Requests, Request(r) PROVE PoolInv'
  BY <1>7, PoolStep DEF Request
<1>8. QED
  BY <1>2, <1>3, <1>4, <1>5, <1>6, <1>7 DEF Next, Finished

\* Each step keeps the types, and opens the database before it leaves Start.
LEMMA TypesNext == FullInv /\ [Next]_vars => DatabaseThere' /\ ProcessTypes'
<1> SUFFICES ASSUME FullInv, [Next]_vars PROVE DatabaseThere' /\ ProcessTypes'
  OBVIOUS
<1> USE DEF FullInv, DatabaseThere, ProcessTypes, goroutines, context, history, pool
<1>1. CASE UNCHANGED vars
  BY <1>1 DEF vars
<1>2. ASSUME InitCoreComponents \/ InitPublicRouter \/ InitMetricsServer
      PROVE  DatabaseThere' /\ ProcessTypes'
  BY <1>2 DEF InitCoreComponents, InitPublicRouter, InitMetricsServer, RunServer, Servers
<1>3. ASSUME Wait \/ WaitCtx \/ CloseErrChan \/ CloseStores
      PROVE  DatabaseThere' /\ ProcessTypes'
  BY <1>3 DEF Wait, WaitCtx, CloseErrChan, CloseStores
<1>4. ASSUME InitFails \/ ListenFails \/ Return \/ SignalKills
      PROVE  DatabaseThere' /\ ProcessTypes'
  BY <1>4 DEF InitFails, ListenFails, Return, SignalKills, Exit
<1>5. ASSUME ReaderStep \/ Signal PROVE DatabaseThere' /\ ProcessTypes'
  BY <1>5 DEF ReaderStep, Receive, Handle, ReaderEnds, Signal
<1>6. ASSUME NEW s \in Servers, ServerStep(s) \/ ServeFails(s) \/ DrainFails(s)
      PROVE  DatabaseThere' /\ ProcessTypes'
  BY <1>6 DEF ServerStep, ServeStarts, ServeReturns, ShutdownStarts, Drained,
     ServeFails, DrainFails
<1>7. ASSUME NEW r \in Requests, Arrive(r) \/ Request(r)
      PROVE  DatabaseThere' /\ ProcessTypes'
  BY <1>7 DEF Arrive, Request
<1>8. QED
  BY <1>1, <1>2, <1>3, <1>4, <1>5, <1>6, <1>7 DEF Next, MainStep, Finished

\* All of it is inductive.
LEMMA FullStep == FullInv /\ [Next]_vars => FullInv'
  BY InvStep, PoolNext, TypesNext DEF FullInv

\* For any requests and any pool: types, no more connections than MaxOpen, and
\* no row locked by a transaction that has ended.
THEOREM TypeTheorem == Spec => []TypeOK
<1>1. FullInv => TypeOK
  BY DEF FullInv, Inv, Shapes, PoolInv, ProcessTypes, TypeOK, Steps, Held
<1>2. QED
  BY <1>1, FullInit, FullStep, PTL DEF Spec

\* What the requests in flight can wait for.
LEMMA StuckLemma == FullInv => StuckOnlyOnSecond
<1> SUFFICES ASSUME FullInv, Stuck
    PROVE  Cardinality(Held) = MaxOpen /\ \E r \in Held : at[r] = "second"
  BY DEF StuckOnlyOnSecond
<1> USE DEF FullInv
<1>0. PICK a \in Active : TRUE
  BY DEF Stuck
<1>1. \A r \in Held : at[r] \in {"select", "second"} /\ r \in Active
  BY DEF Stuck, CanGoOn, Held, Active
<1>2. db \in {"open", "closed"}
  BY <1>0 DEF DatabaseThere, ProcessTypes, Inv, Begun
<1>3. \E r \in Active : at[r] \in {"begin", "second"}
  <2>1. CASE at[a] = "select"
    <3>1. owner[Row[a]] # NoOne /\ Row[a] \in Rows
      BY <1>0, <2>1 DEF Stuck, CanGoOn, RowFree, Rows, Active
    <3>2. owner[Row[a]] \in Requests /\ at[owner[Row[a]]] \in {"second", "write"}
      BY <3>1 DEF PoolInv
    <3>3. QED
      BY <1>1, <3>2 DEF Active, Stuck, CanGoOn
  <2>2. QED
    BY <1>0, <2>1 DEF Active, Stuck, CanGoOn
<1>4. db = "open" /\ ~(Cardinality(Held) < MaxOpen)
  BY <1>2, <1>3 DEF Stuck, CanGoOn, ConnectionFree
<1>5. IsFiniteSet(Held) /\ Cardinality(Held) \in Nat
  BY FewerHeld DEF Held
<1>6. Cardinality(Held) = MaxOpen
  BY <1>4, <1>5, MaxOpenAssumption DEF PoolInv
<1>7. PICK h \in Held : TRUE
  BY <1>6, FS_EmptySet, MaxOpenAssumption
<1>8. \E r \in Held : at[r] = "second"
  <2>1. CASE at[h] = "select"
    <3>1. owner[Row[h]] # NoOne /\ Row[h] \in Rows
      BY <1>1, <1>7, <2>1 DEF Stuck, CanGoOn, RowFree, Rows, Active
    <3>2. owner[Row[h]] \in Requests /\ at[owner[Row[h]]] \in {"second", "write"}
      BY <3>1 DEF PoolInv
    <3>3. QED
      BY <1>1, <3>2 DEF Held
  <2>2. QED
    BY <1>1, <1>7, <2>1
<1>9. QED
  BY <1>6, <1>8

\* For any requests and any pool, requests that all wait have run the pool dry
\* with a transaction that asks for a second connection: row locks alone, and
\* transactions that keep to their own connection, block nobody for good.
THEOREM StuckTheorem == Spec => []StuckOnlyOnSecond
  BY FullInit, FullStep, StuckLemma, PTL DEF Spec
=============================================================================
