------------------------- MODULE ApplicationProofs -------------------------
(***************************************************************************)
(* Proofs about Application, for any number of requests and runs: the      *)
(* worker inside it behaves as Worker specifies, so that what is proved of *)
(* Worker holds there too; and with it, what main may claim when it ends.  *)
(***************************************************************************)
EXTENDS Application, TLAPS

WP == INSTANCE WorkerProofs

\* The worker's steps take the context from not cancelled to cancelled.
CtxBoolean == ctxDone \in BOOLEAN

LEMMA CtxStep == CtxBoolean /\ [Next]_vars => CtxBoolean'
<1> SUFFICES ASSUME CtxBoolean, [Next]_vars PROVE CtxBoolean'
  OBVIOUS
<1> USE DEF CtxBoolean
<1>1. CASE Signal \/ CancelApp
  BY <1>1 DEF Signal, CancelApp
<1>2. CASE UNCHANGED ctxDone
  BY <1>2
<1>3. Signal \/ CancelApp \/ UNCHANGED ctxDone
  BY DEF Next, Main, Server, WorkerGoroutine, Exited, vars, workerVars, Open, Ping,
         SelectError, SelectSignal, Shutdown, ShutdownTimeout, Wait, ClosePool, Listen,
         ListenReturns, ServerSends, RunReturns, WorkerSends, WorkerLoop, RunAcquires,
         RunStep, Connect, Serve, Acquire, Release, Answer, W!Tick, W!Loop, W!Start,
         W!SelectDone, W!SelectTick, W!Add, W!Go, W!WaitAndReturn, W!Run, W!RunOnce,
         W!Store, W!Done
<1> QED BY <1>1, <1>2, <1>3

\* Every step of the process is a step of the worker or leaves the worker alone.
LEMMA WorkerSteps == CtxBoolean /\ [Next]_vars => [W!Next]_(W!vars)
<1> SUFFICES ASSUME CtxBoolean, [Next]_vars PROVE W!Next \/ UNCHANGED workerVars
  BY DEF W!vars, workerVars
<1>1. CASE Signal \/ CancelApp
  BY <1>1 DEF CtxBoolean, Signal, CancelApp, workerVars, W!Next, W!Cancel
<1>2. CASE WorkerLoop \/ \E r \in RunIds : RunStep(r)
  BY <1>2 DEF WorkerLoop, RunStep, W!Next
<1>3. CASE UNCHANGED workerVars
  BY <1>3
<1>4. Signal \/ CancelApp \/ WorkerLoop \/ (\E r \in RunIds : RunStep(r)) \/ UNCHANGED workerVars
  BY DEF Next, Main, Server, WorkerGoroutine, Exited, vars, workerVars, Open, Ping,
         SelectError, SelectSignal, Shutdown, ShutdownTimeout, Wait, ClosePool, Listen,
         ListenReturns, ServerSends, RunReturns, WorkerSends, RunAcquires,
         Connect, Serve, Acquire, Release, Answer
<1> QED BY <1>1, <1>2, <1>3, <1>4

\* The worker inside the application is a Worker.
THEOREM WorkerInside == Spec => W!Spec
<1>1. Init => W!Init /\ CtxBoolean
  BY DEF Init, W!Init, CtxBoolean
<1> QED BY <1>1, CtxStep, WorkerSteps, PTL DEF Spec, W!Spec

\* What is used of the worker below.
WorkerSafety == W!TypeOK /\ W!NoOverlap /\ W!FlagMeansRun /\ W!StopsClean

\* The worker that WorkerProofs is about is the one of Application.
LEMMA SameWorker ==
  /\ WP!Init <=> W!Init
  /\ [WP!Next]_(WP!vars) <=> [W!Next]_(W!vars)
  /\ WP!Inv => WorkerSafety
<1>1. WP!Init <=> W!Init
  BY DEF WP!Init, W!Init
<1>2. WP!vars = W!vars
  BY DEF WP!vars, W!vars
<1>3. WP!Next <=> W!Next
  BY DEF WP!Next, W!Next, WP!Cancel, W!Cancel, WP!Tick, W!Tick, WP!Loop, W!Loop,
         WP!Run, W!Run, WP!Stopped, W!Stopped, WP!vars, W!vars, WP!Start, W!Start,
         WP!SelectDone, W!SelectDone, WP!SelectTick, W!SelectTick, WP!Add, W!Add,
         WP!Go, W!Go, WP!WaitAndReturn, W!WaitAndReturn, WP!RunOnce, W!RunOnce,
         WP!Store, W!Store, WP!Done, W!Done
<1>4. WP!Inv => WorkerSafety
  BY DEF WorkerSafety, WP!Inv, WP!TypeOK, W!TypeOK, WP!NoOverlap, W!NoOverlap,
         WP!FlagMeansRun, W!FlagMeansRun, WP!StopsClean, W!StopsClean,
         WP!Live, W!Live, WP!Busy, W!Busy
<1>5. [WP!Next]_(WP!vars) <=> [W!Next]_(W!vars)
  BY <1>2, <1>3 DEF WP!vars, W!vars
<1> QED BY <1>1, <1>4, <1>5

\* So its runs do not overlap inside the application, nor outlive Run.
THEOREM WorkerSafeInside == Spec => []WorkerSafety
<1>1. WP!IsFiniteSet(RunIds)
  BY UsersAssumption DEF IsFiniteSet, WP!IsFiniteSet
<1>2. WP!Spec => []WP!Inv
  BY <1>1, UsersAssumption, WP!Invariance
<1> QED BY <1>2, WorkerInside, SameWorker, PTL DEF WP!Spec, W!Spec

-----------------------------------------------------------------------------
(* The invariant of main. *)

LEMMA InitInv == Init => Inv
<1> SUFFICES ASSUME Init PROVE Inv
  OBVIOUS
<1>1. W!TypeOK
  BY DEF Init, W!Init, W!TypeOK
<1>2. Phases
  BY DEF Init, Phases, W!Init
<1>3. errs \in 0..RunErrCap
  BY DEF Init, RunErrCap
<1>4. TypeOK
  BY <1>1, <1>3, Zenon DEF Init, TypeOK
<1> QED BY <1>2, <1>4 DEF Inv

\* The steps that leave the worker and its goroutine alone.
LEMMA MainStep ==
  ASSUME Inv, W!TypeOK',
         Signal \/ Main \/ Exited \/ UNCHANGED vars
  PROVE  Inv'
<1> USE DEF Inv, TypeOK, Phases, RunErrCap
<1>1. CASE Signal
  BY <1>1 DEF Signal, Over
<1>2. CASE Open \/ Ping
  BY <1>2 DEF Open, Ping, workerVars
<1>3. CASE SelectError
  BY <1>3 DEF SelectError, workerVars
<1>4. CASE SelectSignal
  BY <1>4 DEF SelectSignal, workerVars
<1>5. CASE CancelApp
  BY <1>5 DEF CancelApp
<1>6. CASE Shutdown \/ ShutdownTimeout
  BY <1>6 DEF Shutdown, ShutdownTimeout, workerVars
<1>7. CASE Wait
  BY <1>7 DEF Wait, workerVars
<1>8. CASE ClosePool
  BY <1>8 DEF ClosePool, workerVars
<1>9. CASE Exited \/ UNCHANGED vars
  BY <1>9 DEF Exited, vars
<1> QED BY <1>1, <1>2, <1>3, <1>4, <1>5, <1>6, <1>7, <1>8, <1>9 DEF Main

\* The two goroutines, on which main waits.
LEMMA GoroutineStep ==
  ASSUME Inv, W!TypeOK',
         Server \/ ListenReturns \/ WorkerGoroutine
  PROVE  Inv'
<1> USE DEF Inv, TypeOK, Phases, RunErrCap
<1>1. CASE Listen \/ ListenReturns
  BY <1>1 DEF Listen, ListenReturns, Over, ShuttingDown, workerVars
<1>2. CASE ServerSends
  BY <1>2 DEF ServerSends, Over, workerVars
<1>3. CASE RunReturns \/ WorkerSends
  BY <1>3 DEF RunReturns, WorkerSends, Over, workerVars
<1> QED BY <1>1, <1>2, <1>3 DEF Server, WorkerGoroutine

\* The worker: Run is not over before its goroutine is.
LEMMA WorkerStep ==
  ASSUME Inv, W!TypeOK',
         WorkerLoop \/ \E r \in RunIds : RunAcquires(r) \/ RunStep(r)
  PROVE  Inv'
<1> USE DEF Inv, TypeOK, Phases, RunErrCap
<1>1. CASE WorkerLoop
  BY <1>1 DEF WorkerLoop, mainVars, Over
<1>2. ASSUME NEW r \in RunIds, RunAcquires(r) PROVE Inv'
  BY <1>2 DEF RunAcquires, PoolOpen, mainVars, workerVars
<1>3. ASSUME NEW r \in RunIds, RunStep(r) PROVE Inv'
  <2>1. UNCHANGED loop
    BY <1>3 DEF RunStep, W!Run, W!RunOnce, W!Store, W!Done
  <2> QED BY <1>3, <2>1 DEF RunStep, mainVars, Over
<1> QED BY <1>1, <1>2, <1>3

\* Connections and requests come and go only before Shutdown has succeeded.
LEMMA RequestStep ==
  ASSUME Inv, W!TypeOK', NEW q \in Requests,
         Connect(q) \/ Serve(q) \/ Acquire(q) \/ Release(q) \/ Answer(q)
  PROVE  Inv'
<1> USE DEF Inv, TypeOK, Phases, RunErrCap
<1>1. CASE Connect(q) \/ Serve(q)
  BY <1>1 DEF Connect, Serve, ShuttingDown, Over, mainVars, workerVars
<1>2. CASE Acquire(q)
  BY <1>2 DEF Acquire, PoolOpen, mainVars, workerVars
<1>3. CASE Release(q) \/ Answer(q)
  BY <1>3 DEF Release, Answer, Over, mainVars, workerVars
<1> QED BY <1>1, <1>2, <1>3

\* The phases of main, with the types, hold in every reachable state.
THEOREM Invariance == Spec => []Inv
<1>1. Inv /\ WorkerSafety' /\ [Next]_vars => Inv'
  BY MainStep, GoroutineStep, WorkerStep, RequestStep DEF Next, WorkerSafety
<1> QED BY InitInv, <1>1, WorkerSafeInside, PTL DEF Spec

\* What main logs at a clean end is so: no connection, no run, no goroutine is left.
THEOREM CleanStop == Spec => []CleanMeansStopped
<1>1. Inv /\ WorkerSafety => CleanMeansStopped
  BY DEF Inv, Phases, WorkerSafety, CleanMeansStopped, W!StopsClean, W!Live
<1> QED BY <1>1, Invariance, WorkerSafeInside, PTL

\* No end of the process cuts a database call off.
THEOREM CallsComplete == Spec => []NoCallCutOff
<1>1. Inv => NoCallCutOff
  BY DEF Inv, Phases, NoCallCutOff
<1> QED BY <1>1, Invariance, PTL
=============================================================================
