----------------------------- MODULE Lifecycle -----------------------------
(***************************************************************************)
(* The life of the process: Start and Wait of the application              *)
(* (internal/application/application.go), the two goroutines of each       *)
(* server (pkg/nethttp/runner/runner.go), main (cmd/api/main.go), and the  *)
(* requests that use the connection pool meanwhile (Pool).                 *)
(*                                                                         *)
(* serve[s] is the goroutine that runs Serve of server s and stop[s] the   *)
(* one that waits for the end of ctx and calls Shutdown; both report a     *)
(* failure on the unbuffered errChan ("send") and count in the wait group  *)
(* until they are "done".  reader is the goroutine Wait starts.            *)
(***************************************************************************)
EXTENDS Pool

VARIABLES
  main,      \* where main is, in Start and then in Wait
  servers,   \* the servers the configuration asks for
  ctxDone,   \* ctx has ended
  caught,    \* signals end ctx; after stop() they end the process
  serve,     \* the goroutine that serves, of each server
  stop,      \* the goroutine that shuts down, of each server
  reader,    \* the goroutine that reads errChan
  closed,    \* errChan is closed
  appErr,    \* an error was read
  status,    \* "running", or how the process has ended
  failed,    \* history: Serve or Shutdown returned an error
  drainCut   \* history: Shutdown gave up waiting for requests

goroutines == <<serve, stop, reader>>
context == <<ctxDone, caught>>
pool == <<at, owner, db>>
history == <<failed, drainCut>>
vars == <<main, servers, context, goroutines, closed, appErr, status, history, pool>>

Servers == {"api", "metrics"}

Init ==
  /\ PoolInit
  /\ main = "init" /\ servers = {} /\ status = "running"
  /\ ctxDone = FALSE /\ caught = TRUE
  /\ serve = [s \in Servers |-> "off"] /\ stop = [s \in Servers |-> "off"]
  /\ reader = "off" /\ closed = FALSE /\ appErr = FALSE
  /\ failed = FALSE /\ drainCut = FALSE

\* The process ends, with it its goroutines, and MySQL drops its locks.
Exit(st) ==
  /\ status' = st
  /\ at' = [r \in Requests |-> IF r \in Active THEN "cut" ELSE at[r]]
  /\ owner' = RowsReleased(Requests)
  /\ UNCHANGED <<servers, context, goroutines, closed, appErr, history>>

-----------------------------------------------------------------------------
(* Start *)

\* initCoreComponents, with the metrics server enabled or not.
InitCoreComponents ==
  /\ main = "init" /\ main' = "api"
  /\ \E on \in {{"api"}, Servers} : servers' = on
  /\ db' = "open"
  /\ UNCHANGED <<context, goroutines, closed, appErr, status, history, at, owner>>

\* initConfig, initDB or initServices fails, and main calls os.Exit(1).
InitFails ==
  /\ main = "init"
  /\ db' \in {"none", "open"}
  /\ Exit("error")
  /\ UNCHANGED main

\* RunServer listens and starts the two goroutines.
RunServer(s) ==
  /\ serve' = [serve EXCEPT ![s] = "start"]
  /\ stop' = [stop EXCEPT ![s] = "wait"]
  /\ UNCHANGED reader

InitPublicRouter ==
  /\ main = "api" /\ main' = "metrics"
  /\ RunServer("api")
  /\ UNCHANGED <<servers, context, closed, appErr, status, history, pool>>

InitMetricsServer ==
  /\ main = "metrics" /\ main' = "ready"
  /\ \/ "metrics" \in servers /\ RunServer("metrics")
     \/ "metrics" \notin servers /\ UNCHANGED goroutines
  /\ UNCHANGED <<servers, context, closed, appErr, status, history, pool>>

\* The port cannot be listened on: Start fails, whatever runs already.
ListenFails ==
  /\ main \in {"api", "metrics"} /\ main \in servers
  /\ Exit("error")
  /\ UNCHANGED <<main, db>>

-----------------------------------------------------------------------------
(* The goroutines of a server *)

InShutdown(s) == stop[s] \in {"drain", "send", "done"}

\* Serve starts to accept; after Shutdown it returns ErrServerClosed at once.
ServeStarts(s) ==
  /\ serve[s] = "start"
  /\ serve' = [serve EXCEPT ![s] = IF InShutdown(s) THEN "done" ELSE "serving"]
  /\ UNCHANGED <<main, servers, context, stop, reader, closed, appErr, status, history, pool>>

\* Serve returns as soon as Shutdown has closed the listener.
ServeReturns(s) ==
  /\ serve[s] = "serving" /\ InShutdown(s)
  /\ serve' = [serve EXCEPT ![s] = "done"]
  /\ UNCHANGED <<main, servers, context, stop, reader, closed, appErr, status, history, pool>>

\* Accept fails for good: Serve returns an error, to be sent.
ServeFails(s) ==
  /\ serve[s] = "serving" /\ ~InShutdown(s)
  /\ serve' = [serve EXCEPT ![s] = "send"]
  /\ failed' = TRUE
  /\ UNCHANGED <<main, servers, context, stop, reader, closed, appErr, status, drainCut, pool>>

\* ctx has ended: Shutdown closes the listener and waits for the requests.
ShutdownStarts(s) ==
  /\ stop[s] = "wait" /\ ctxDone
  /\ stop' = [stop EXCEPT ![s] = "drain"]
  /\ UNCHANGED <<main, servers, context, serve, reader, closed, appErr, status, history, pool>>

\* Requests that use the database are the public server's.
InFlight(s) == IF s = "api" THEN Active ELSE {}

Drained(s) ==
  /\ stop[s] = "drain" /\ InFlight(s) = {}
  /\ stop' = [stop EXCEPT ![s] = "done"]
  /\ UNCHANGED <<main, servers, context, serve, reader, closed, appErr, status, history, pool>>

\* shutdownTimeout ends first: Shutdown returns an error, to be sent.
DrainFails(s) ==
  /\ stop[s] = "drain" /\ InFlight(s) # {}
  /\ stop' = [stop EXCEPT ![s] = "send"]
  /\ failed' = TRUE /\ drainCut' = TRUE
  /\ UNCHANGED <<main, servers, context, serve, reader, closed, appErr, status, pool>>

ServerStep(s) ==
  \/ ServeStarts(s) \/ ServeReturns(s) \/ ShutdownStarts(s)
  \/ Drained(s)

-----------------------------------------------------------------------------
(* Wait *)

\* Wait starts the reader.
Wait ==
  /\ main = "ready" /\ main' = "ctx"
  /\ reader' = "receive"
  /\ UNCHANGED <<servers, context, serve, stop, closed, appErr, status, history, pool>>

\* The reader takes an error from a goroutine that is sending one.
Receive ==
  /\ reader = "receive" /\ reader' = "handle"
  /\ \E s \in Servers :
       \/ serve[s] = "send" /\ serve' = [serve EXCEPT ![s] = "done"] /\ UNCHANGED stop
       \/ stop[s] = "send" /\ stop' = [stop EXCEPT ![s] = "done"] /\ UNCHANGED serve
  /\ UNCHANGED <<main, servers, context, closed, appErr, status, history, pool>>

\* Mutant: the reader ends with the first error.
HandleFirst ==
  /\ reader = "handle" /\ reader' = "done"
  /\ ctxDone' = TRUE /\ caught' = FALSE
  /\ appErr' = TRUE
  /\ UNCHANGED <<main, servers, serve, stop, closed, status, history, pool>>

\* cancel(), which is main's stop(), and the error is remembered.
Handle ==
  /\ reader = "handle" /\ reader' = "receive"
  /\ ctxDone' = TRUE /\ caught' = FALSE
  /\ appErr' = TRUE
  /\ UNCHANGED <<main, servers, serve, stop, closed, status, history, pool>>

\* range a.errChan ends when the channel is closed.
ReaderEnds ==
  /\ reader = "receive" /\ closed
  /\ reader' = "done"
  /\ UNCHANGED <<main, servers, context, serve, stop, closed, appErr, status, history, pool>>

WaitCtx ==
  /\ main = "ctx" /\ ctxDone
  /\ main' = "wg"
  /\ UNCHANGED <<servers, context, goroutines, closed, appErr, status, history, pool>>

\* Mutant: only the goroutines that serve are in the wait group.
ServeDone == \A s \in Servers : serve[s] \in {"off", "done"}

\* a.wg is zero.
WgZero == \A s \in Servers : {serve[s], stop[s]} \subseteq {"off", "done"}

CloseErrChan ==
  /\ main = "wg" /\ WgZero
  /\ main' = "errwg"
  /\ closed' = TRUE
  /\ UNCHANGED <<servers, context, goroutines, appErr, status, history, pool>>

\* Mutant: Wait does not wait for the reader.
ReaderAny == TRUE

ErrWgZero == reader = "done"

\* errWg.Wait, then the database and Redis are closed.
CloseStores ==
  /\ main = "errwg" /\ ErrWgZero
  /\ main' = "exit"
  /\ db' = "closed"
  /\ UNCHANGED <<servers, context, goroutines, closed, appErr, status, history, at, owner>>

\* Wait returns appErr and main ends with 1 or 0.
Return ==
  /\ main = "exit"
  /\ Exit(IF appErr THEN "error" ELSE "ok")
  /\ UNCHANGED <<main, db>>

MainStep ==
  \/ InitCoreComponents \/ InitFails \/ InitPublicRouter \/ InitMetricsServer
  \/ ListenFails \/ Wait \/ WaitCtx \/ CloseErrChan \/ CloseStores \/ Return

ReaderStep == Receive \/ Handle \/ ReaderEnds

-----------------------------------------------------------------------------
\* SIGINT or SIGTERM: signal.NotifyContext ends ctx.
Signal ==
  /\ caught /\ ~ctxDone
  /\ ctxDone' = TRUE
  /\ UNCHANGED <<main, servers, caught, goroutines, closed, appErr, status, history, pool>>

\* After stop() a signal has its default effect.
SignalKills ==
  /\ ~caught
  /\ Exit("killed")
  /\ UNCHANGED <<main, db>>

\* A request is accepted.
Arrive(r) ==
  /\ serve["api"] = "serving" /\ ~InShutdown("api")
  /\ at[r] = "idle"
  /\ at' = [at EXCEPT ![r] = "begin"]
  /\ UNCHANGED <<main, servers, context, goroutines, closed, appErr, status, history, owner, db>>

Request(r) ==
  /\ RequestStep(r)
  /\ UNCHANGED <<main, servers, context, goroutines, closed, appErr, status, history, db>>

Finished == status # "running" /\ UNCHANGED vars

Next ==
  \/ /\ status = "running"
     /\ \/ MainStep \/ ReaderStep \/ Signal \/ SignalKills
        \/ \E s \in Servers : ServerStep(s) \/ ServeFails(s) \/ DrainFails(s)
        \/ \E r \in Requests : Arrive(r) \/ Request(r)
  \/ Finished

\* Goroutines run, and contexts end when their time is over.  Nothing forces
\* signals, failures, requests or the end of shutdownTimeout.
Fairness ==
  /\ WF_vars(status = "running" /\ MainStep)
  /\ WF_vars(status = "running" /\ ReaderStep)
  /\ \A s \in Servers : WF_vars(status = "running" /\ ServerStep(s))
  /\ \A r \in Requests : WF_vars(status = "running" /\ Request(r) /\ TimesOut(r))

Spec == Init /\ [][Next]_vars /\ Fairness

-----------------------------------------------------------------------------
(* Properties *)

\* Types; the pool never gives out more than MaxOpen connections, and a row is
\* locked by a transaction that is still open.
TypeOK ==
  /\ at \in [Requests -> {"idle", "begin", "select", "second", "write", "ended", "cut"}]
  /\ Cardinality(Held) <= MaxOpen
  /\ owner \in [Rows -> Requests \cup {NoOne}]
  /\ \A x \in Rows : owner[x] # NoOne => owner[x] \in Held /\ Row[owner[x]] = x
  /\ db \in {"none", "open", "closed"}
  /\ main \in {"init", "api", "metrics", "ready", "ctx", "wg", "errwg", "exit"}
  /\ servers \subseteq Servers
  /\ {ctxDone, caught, closed, appErr, failed, drainCut} \subseteq BOOLEAN
  /\ serve \in [Servers -> {"off", "start", "serving", "send", "done"}]
  /\ stop \in [Servers -> {"off", "wait", "drain", "send", "done"}]
  /\ reader \in {"off", "receive", "handle", "done"}
  /\ status \in {"running", "ok", "error", "killed"}

\* A request that was accepted keeps its database until it ends, and is not cut
\* short by the end of the process, although Serve returns at once: Wait waits
\* for Shutdown too (runner.go, line 56).  The exceptions are a Shutdown that
\* ran out of time, a second server that cannot listen, and a signal that comes
\* after stop() has given signals their default effect back.
ServedToTheEnd ==
  \A r \in Requests :
    at[r] = "cut" \/ (r \in Active /\ db = "closed")
    => drainCut \/ main = "metrics" \/ status = "killed"

\* The process ends with 0 only if no server failed to serve or to shut down,
\* even if the error was sent at the very end (application.go, line 105).
ExitTellsFailure == status = "ok" => ~failed

\* Every request in flight waits, for a connection or for a row.
Stuck == Active # {} /\ \A r \in Active : ~CanGoOn(r)

\* When every request in flight waits, the pool has run dry and one of its
\* connections belongs to a transaction that asks for another one for GetRole
\* (task.go, line 220): row locks alone block nobody for good.
StuckOnlyOnSecond ==
  Stuck => Cardinality(Held) = MaxOpen /\ \E r \in Held : at[r] = "second"

\* Once ctx has ended or a server has failed, the process ends: no goroutine
\* waits for ever for another one, however many of them have failed.
EndsInTheEnd ==
  (ctxDone \/ \E s \in Servers : serve[s] = "send") ~> status # "running"

\* When the transactions have taken all connections and wait for one another,
\* they do not do so for ever: their contexts end.
StuckEnds == Stuck ~> ~Stuck
=============================================================================
