---------------------------- MODULE Application ----------------------------
(***************************************************************************)
(* The process of cmd/api/main.go: it starts the HTTP server and the       *)
(* worker, each in a goroutine, waits for a signal or for one of them to   *)
(* fail, and stops both: it cancels the context of the worker, shuts the   *)
(* server down within a time limit, waits for the two goroutines and       *)
(* closes the database pool.                                               *)
(*                                                                         *)
(* The worker is module Worker, in the same variables.  The HTTP server,   *)
(* net/http, and the pool, pgxpool, are libraries.  Requests and runs are  *)
(* seen from here as users of the pool's connections.                      *)
(***************************************************************************)
EXTENDS Integers, FiniteSets

CONSTANTS Requests,    \* connections of clients, each with one request at a time
          RunIds, BatchSizes

ASSUME UsersAssumption ==
  IsFiniteSet(RunIds) /\ BatchSizes \subseteq Int /\ Requests \cap RunIds = {}

VARIABLES main,        \* where the main goroutine is
          signalled,   \* rootCtx is done: SIGINT or SIGTERM was received
          clean,       \* main logged "http server stopped cleanly"
          srv, wrk,    \* where the goroutines of the server and of the worker are
          errs,        \* the number of errors in runErrCh
          conns,       \* the connections that have not sent their request yet
          serving,     \* the requests that a handler is serving
          held,        \* the requests and runs that hold a connection of the pool
          batchSize, loop, ctxDone, tick, isRunning, activeRuns, runs

W == INSTANCE Worker

workerVars == <<batchSize, loop, ctxDone, tick, isRunning, activeRuns, runs>>
mainVars == <<main, signalled, clean, srv, wrk, errs>>
vars == <<main, signalled, clean, srv, wrk, errs, conns, serving, held,
          batchSize, loop, ctxDone, tick, isRunning, activeRuns, runs>>

Init ==
  /\ main = "init"
  /\ signalled = FALSE
  /\ clean = FALSE
  /\ srv = "off" /\ wrk = "off"
  /\ errs = 0
  /\ conns = {} /\ serving = {}
  /\ held = {}
  /\ W!Init

\* The capacity of runErrCh.
RunErrCap == 2

PoolOpen == main \notin {"init", "closing", "exited"}
Over == main = "exited"
ShuttingDown == main \in {"shutdown", "wait", "closing"}

-----------------------------------------------------------------------------
(* The main goroutine. *)

\* NotifyContext; a second signal has no effect.  appCtx ends with rootCtx.
Signal ==
  /\ ~Over /\ ~signalled
  /\ signalled' = TRUE
  /\ ctxDone' = TRUE
  /\ UNCHANGED <<main, clean, srv, wrk, errs, conns, serving, held,
                 batchSize, loop, tick, isRunning, activeRuns, runs>>

\* The identity middleware and the pool are made, or main returns.
Open ==
  /\ main = "init"
  /\ main' \in {"ping", "exited"}
  /\ UNCHANGED <<signalled, clean, srv, wrk, errs, conns, serving, held, workerVars>>

\* pingDatabase, and the two goroutines if it succeeds.
Ping ==
  /\ main = "ping"
  /\ \/ main' = "select" /\ srv' = "start" /\ wrk' = "run"
     \/ main' = "closing" /\ UNCHANGED <<srv, wrk>>
  /\ UNCHANGED <<signalled, clean, errs, conns, serving, held, workerVars>>

\* One of the two goroutines failed, or the signal came.
SelectError ==
  /\ main = "select" /\ errs > 0
  /\ errs' = errs - 1
  /\ main' = "cancel"
  /\ UNCHANGED <<signalled, clean, srv, wrk, conns, serving, held, workerVars>>

SelectSignal ==
  /\ main = "select" /\ signalled
  /\ main' = "cancel"
  /\ UNCHANGED <<signalled, clean, srv, wrk, errs, conns, serving, held, workerVars>>

CancelApp ==
  /\ main = "cancel"
  /\ ctxDone' = TRUE
  /\ main' = "shutdown"
  /\ UNCHANGED <<signalled, clean, srv, wrk, errs, conns, serving, held,
                 batchSize, loop, tick, isRunning, activeRuns, runs>>

\* Shutdown returns nil once no connection serves a request; those whose request
\* has not come it closes.
Shutdown ==
  /\ main = "shutdown"
  /\ serving = {}
  /\ main' = "wait"
  /\ conns' = {}
  /\ UNCHANGED <<signalled, clean, srv, wrk, errs, serving, held, workerVars>>

\* Mutant: Shutdown without a time limit.
ShutdownUnlimited == FALSE

\* Shutdown gives up while requests are served, or may still come on a new
\* connection: main returns without wg.Wait.
ShutdownTimeout ==
  /\ main = "shutdown"
  /\ conns \cup serving # {}
  /\ main' = "closing"
  /\ UNCHANGED <<signalled, clean, srv, wrk, errs, conns, serving, held, workerVars>>

\* Mutant: wg.Wait is left out.
WaitSkipped ==
  /\ main = "wait"
  /\ clean' = TRUE
  /\ main' = "closing"
  /\ UNCHANGED <<signalled, srv, wrk, errs, conns, serving, held, workerVars>>

\* wg.Wait, the last log line, and the return to the deferred dbPool.Close.
Wait ==
  /\ main = "wait"
  /\ srv = "over" /\ wrk = "over"
  /\ clean' = TRUE
  /\ main' = "closing"
  /\ UNCHANGED <<signalled, srv, wrk, errs, conns, serving, held, workerVars>>

\* Mutant: the process ends without dbPool.Close.
ClosePoolForgotten ==
  /\ main = "closing"
  /\ main' = "exited"
  /\ UNCHANGED <<signalled, clean, srv, wrk, errs, conns, serving, held, workerVars>>

\* dbPool.Close refuses new connections and waits for those in use; then main
\* returns and every other goroutine ends where it is.
ClosePool ==
  /\ main = "closing"
  /\ held = {}
  /\ main' = "exited"
  /\ UNCHANGED <<signalled, clean, srv, wrk, errs, conns, serving, held, workerVars>>

-----------------------------------------------------------------------------
(* The goroutines of the server and of the worker. *)

\* ListenAndServe listens, fails, or finds that Shutdown came first.
Listen ==
  /\ ~Over /\ srv = "start"
  /\ srv' \in IF ShuttingDown THEN {"over"} ELSE {"listening", "send"}
  /\ UNCHANGED <<main, signalled, clean, wrk, errs, conns, serving, held, workerVars>>

\* It returns ErrServerClosed, or with an error that ends it.
ListenReturns ==
  /\ ~Over /\ srv = "listening"
  /\ srv' \in IF ShuttingDown THEN {"over"} ELSE {"send"}
  /\ UNCHANGED <<main, signalled, clean, wrk, errs, conns, serving, held, workerVars>>

ServerSends ==
  /\ ~Over /\ srv = "send" /\ errs < RunErrCap
  /\ errs' = errs + 1
  /\ srv' = "over"
  /\ UNCHANGED <<main, signalled, clean, wrk, conns, serving, held, workerVars>>

\* Mutant: the error of Run is dropped.
RunErrorDropped ==
  /\ ~Over /\ wrk = "run" /\ loop \in {"returned", "failed"}
  /\ wrk' = "over"
  /\ UNCHANGED <<main, signalled, clean, srv, errs, conns, serving, held, workerVars>>

\* worker.Run has returned nil or an error.
RunReturns ==
  /\ ~Over /\ wrk = "run" /\ loop \in {"returned", "failed"}
  /\ wrk' = IF loop = "failed" THEN "send" ELSE "over"
  /\ UNCHANGED <<main, signalled, clean, srv, errs, conns, serving, held, workerVars>>

WorkerSends ==
  /\ ~Over /\ wrk = "send" /\ errs < RunErrCap
  /\ errs' = errs + 1
  /\ wrk' = "over"
  /\ UNCHANGED <<main, signalled, clean, srv, conns, serving, held, workerVars>>

\* The steps of Worker that are its own, once main has started it.
WorkerLoop ==
  /\ ~Over /\ wrk = "run"
  /\ W!Tick \/ W!Loop
  /\ UNCHANGED <<mainVars, conns, serving, held>>

\* A run asks for one connection, for its transaction, and gives it back.
RunAcquires(r) ==
  /\ PoolOpen /\ runs[r] = "working" /\ r \notin held
  /\ held' = held \cup {r}
  /\ UNCHANGED <<mainVars, conns, serving, workerVars>>

RunStep(r) ==
  /\ ~Over
  /\ W!Run(r)
  /\ held' = held \ {r}
  /\ UNCHANGED <<mainVars, conns, serving>>

-----------------------------------------------------------------------------
(* Requests. *)

\* The listener accepts a connection.  One kept alive between two requests is seen as
\* accepted anew when the next one comes: Shutdown closes it as it closes the listener.
Connect(q) ==
  /\ srv = "listening" /\ ~ShuttingDown /\ ~Over
  /\ q \notin conns \cup serving
  /\ conns' = conns \cup {q}
  /\ UNCHANGED <<mainVars, serving, held, workerVars>>

\* The request comes, perhaps after Shutdown was called, or the connection is closed.
Serve(q) ==
  /\ ~Over /\ q \in conns
  /\ conns' = conns \ {q}
  /\ serving' \in {serving, serving \cup {q}}
  /\ UNCHANGED <<mainVars, held, workerVars>>

Acquire(q) ==
  /\ PoolOpen /\ q \in serving \ held
  /\ held' = held \cup {q}
  /\ UNCHANGED <<mainVars, conns, serving, workerVars>>

Release(q) ==
  /\ ~Over /\ q \in held
  /\ held' = held \ {q}
  /\ UNCHANGED <<mainVars, conns, serving, workerVars>>

Answer(q) ==
  /\ ~Over /\ q \in serving \ held
  /\ serving' = serving \ {q}
  /\ UNCHANGED <<mainVars, conns, held, workerVars>>

-----------------------------------------------------------------------------
Main == \/ Open \/ Ping \/ SelectError \/ SelectSignal \/ CancelApp
        \/ Shutdown \/ ShutdownTimeout \/ Wait \/ ClosePool
Server == Listen \/ (ListenReturns /\ ShuttingDown) \/ ServerSends
WorkerGoroutine == RunReturns \/ WorkerSends

Exited == Over /\ UNCHANGED vars

Next ==
  \/ Signal \/ Main \/ Server \/ ListenReturns \/ WorkerGoroutine \/ WorkerLoop
  \/ \E r \in RunIds : RunAcquires(r) \/ RunStep(r)
  \/ \E q \in Requests : Connect(q) \/ Serve(q) \/ Acquire(q) \/ Release(q) \/ Answer(q)
  \/ Exited

Spec == Init /\ [][Next]_vars

\* Goroutines are scheduled and database calls end.  Requests need not come nor
\* listening fail; a request that is served need not end before the time limit,
\* which needs no fairness of its own: one of Shutdown's two returns comes.
Fairness ==
  /\ WF_vars(Main) /\ WF_vars(Server) /\ WF_vars(WorkerGoroutine)
  /\ WF_vars(WorkerLoop) /\ SF_vars(WorkerLoop /\ W!SelectDone)
  /\ \A r \in RunIds : WF_vars(RunStep(r))
  /\ \A q \in Requests : WF_vars(Release(q))

FairSpec == Spec /\ Fairness

-----------------------------------------------------------------------------
(* Properties. *)

\* The variables of main have their types, those of the worker theirs.
TypeOK ==
  /\ main \in {"init", "ping", "select", "cancel", "shutdown", "wait",
               "closing", "exited"}
  /\ signalled \in BOOLEAN /\ clean \in BOOLEAN
  /\ srv \in {"off", "start", "listening", "send", "over"}
  /\ wrk \in {"off", "run", "send", "over"}
  /\ errs \in 0..RunErrCap
  /\ conns \subseteq Requests /\ serving \subseteq Requests
  /\ held \subseteq Requests \cup RunIds
  /\ W!TypeOK

\* What has come before each point of main: its goroutines start after the ping,
\* the worker's is past Run only when Run has returned, nothing is served, nor will be,
\* once Shutdown has succeeded.
Phases ==
  /\ main = "init" => held = {}
  /\ main \in {"init", "ping"} => srv = "off" /\ wrk = "off"
  /\ wrk = "off" => loop = "start"
  /\ wrk \in {"send", "over"} => loop \in {"returned", "failed"}
  /\ main = "wait" => conns = {} /\ serving = {}
  /\ clean => /\ main \in {"closing", "exited"}
              /\ srv = "over" /\ wrk = "over" /\ conns = {} /\ serving = {}
  /\ main = "exited" => held = {}

\* The inductive invariant.
Inv == TypeOK /\ Phases

\* "http server stopped cleanly" is logged only when no request is served or can
\* come, no run is under way or can start, and both goroutines are over (Shutdown,
\* wg.Wait).
CleanMeansStopped ==
  clean => /\ conns = {} /\ serving = {}
           /\ srv = "over" /\ wrk = "over"
           /\ loop \in {"returned", "failed"}
           /\ \A r \in RunIds : runs[r] = "unused"

\* However the process ends, by a failure at its start, cleanly or past the time
\* limit, it cuts no database call off (the deferred dbPool.Close).
NoCallCutOff == main = "exited" => held = {}

\* README: the worker stops cleanly when the API receives a shutdown signal, that
\* is, the process does not end in the middle of a run.
WorkerStopsOnSignal ==
  main = "exited" /\ signalled => \A r \in RunIds : ~W!Busy(r)

\* A signal ends the process, whatever the server, the worker, requests and a
\* run are doing (rootCtx, cancel, SHUTDOWN_TIMEOUT).
SignalEnds == signalled ~> main = "exited"

\* When the server fails or the worker refuses to run, the process ends rather
\* than to go on with one of the two (runErrCh, cancel).
FailureEnds == srv = "send" \/ loop = "failed" ~> main = "exited"
=============================================================================
