------------------------------- MODULE Worker -------------------------------
(***************************************************************************)
(* The worker loop of internal/orders/worker.go: a goroutine that waits    *)
(* for ticks and for the cancellation of its context, and one goroutine    *)
(* per run.  They share the flag isRunning and the wait group activeRuns.  *)
(* What a run does to the orders is in OrderService; here a run is a call  *)
(* to the service that returns at some time, sooner or later.              *)
(***************************************************************************)
EXTENDS Integers, FiniteSets

CONSTANTS RunIds,      \* goroutines that runs may take, the bound on those alive
          BatchSizes   \* the batch sizes that the configuration may hand over, int32

ASSUME RunIdsAssumption == IsFiniteSet(RunIds)
ASSUME BatchSizesAssumption == BatchSizes \subseteq Int

VARIABLES batchSize,   \* the field of that name, set by NewWorker
          loop,        \* where the goroutine of Run is
          ctxDone,     \* its context is cancelled
          tick,        \* the ticker's channel, of capacity one, holds a tick
          isRunning,
          activeRuns,  \* the counter of the wait group
          runs         \* where the goroutine of each run is

vars == <<batchSize, loop, ctxDone, tick, isRunning, activeRuns, runs>>

Init ==
  /\ batchSize \in BatchSizes
  /\ loop = "start"
  /\ ctxDone = FALSE
  /\ tick = FALSE
  /\ isRunning = FALSE
  /\ activeRuns = 0
  /\ runs = [r \in RunIds |-> "unused"]

\* main, or a signal, cancels the context.
Cancel ==
  /\ ~ctxDone
  /\ ctxDone' = TRUE
  /\ UNCHANGED <<batchSize, loop, tick, isRunning, activeRuns, runs>>

\* The ticker drops a tick that finds the channel full.
Tick ==
  /\ loop \in {"select", "add", "go", "wait"}
  /\ ~tick
  /\ tick' = TRUE
  /\ UNCHANGED <<batchSize, loop, ctxDone, isRunning, activeRuns, runs>>

\* Run checks the batch size before it waits for anything.
Start ==
  /\ loop = "start"
  /\ loop' = IF batchSize < 1 THEN "failed" ELSE "select"
  /\ UNCHANGED <<batchSize, ctxDone, tick, isRunning, activeRuns, runs>>

\* The two cases of the select; when both are ready, either may be taken.
SelectDone ==
  /\ loop = "select" /\ ctxDone
  /\ loop' = "wait"
  /\ UNCHANGED <<batchSize, ctxDone, tick, isRunning, activeRuns, runs>>

\* Mutant: Store(true) for the CompareAndSwap, a tick always starts a run.
SelectTickUnchecked ==
  /\ loop = "select" /\ tick
  /\ tick' = FALSE
  /\ isRunning' = TRUE
  /\ loop' = "add"
  /\ UNCHANGED <<batchSize, ctxDone, activeRuns, runs>>

\* CompareAndSwap(false, true): a tick that finds a run active is skipped.
SelectTick ==
  /\ loop = "select" /\ tick
  /\ tick' = FALSE
  /\ isRunning' = TRUE
  /\ loop' = IF isRunning THEN "select" ELSE "add"
  /\ UNCHANGED <<batchSize, ctxDone, activeRuns, runs>>

\* Mutant: the goroutine adds itself to the wait group, later than Wait may be.
AddNothing ==
  /\ loop = "add"
  /\ loop' = "go"
  /\ UNCHANGED <<batchSize, ctxDone, tick, isRunning, activeRuns, runs>>

\* activeRuns.Add(1), before the goroutine exists.
Add ==
  /\ loop = "add"
  /\ activeRuns' = activeRuns + 1
  /\ loop' = "go"
  /\ UNCHANGED <<batchSize, ctxDone, tick, isRunning, runs>>

Go ==
  /\ loop = "go"
  /\ \E r \in RunIds : /\ runs[r] = "unused"
                       /\ runs' = [runs EXCEPT ![r] = "working"]
  /\ loop' = "select"
  /\ UNCHANGED <<batchSize, ctxDone, tick, isRunning, activeRuns>>

\* runOnce returns, with or without an error, which it only logs.
RunOnce(r) ==
  /\ runs[r] = "working"
  /\ runs' = [runs EXCEPT ![r] = "store"]
  /\ UNCHANGED <<batchSize, loop, ctxDone, tick, isRunning, activeRuns>>

\* Mutant: a run that returns leaves the flag set.
StoreNothing(r) ==
  /\ runs[r] = "store"
  /\ runs' = [runs EXCEPT ![r] = "done"]
  /\ UNCHANGED <<batchSize, loop, ctxDone, tick, isRunning, activeRuns>>

\* The deferred calls run in reverse order: the flag first, then the wait group.
Store(r) ==
  /\ runs[r] = "store"
  /\ isRunning' = FALSE
  /\ runs' = [runs EXCEPT ![r] = "done"]
  /\ UNCHANGED <<batchSize, loop, ctxDone, tick, activeRuns>>

\* Mutant: a run that returns stays in the wait group.
DoneForgotten(r) ==
  /\ runs[r] = "done"
  /\ runs' = [runs EXCEPT ![r] = "unused"]
  /\ UNCHANGED <<batchSize, loop, ctxDone, tick, isRunning, activeRuns>>

\* The goroutine of a run is over and its place may be taken again.
Done(r) ==
  /\ runs[r] = "done"
  /\ activeRuns' = activeRuns - 1
  /\ runs' = [runs EXCEPT ![r] = "unused"]
  /\ UNCHANGED <<batchSize, loop, ctxDone, tick, isRunning>>

\* activeRuns.Wait() and the return of Run.
WaitAndReturn ==
  /\ loop = "wait"
  /\ activeRuns = 0
  /\ loop' = "returned"
  /\ UNCHANGED <<batchSize, ctxDone, tick, isRunning, activeRuns, runs>>

Stopped == loop \in {"returned", "failed"} /\ ctxDone /\ UNCHANGED vars

Loop == Start \/ SelectDone \/ SelectTick \/ Add \/ Go \/ WaitAndReturn
Run(r) == RunOnce(r) \/ Store(r) \/ Done(r)

Next == Cancel \/ Tick \/ Loop \/ (\E r \in RunIds : Run(r)) \/ Stopped

Spec == Init /\ [][Next]_vars

\* Goroutines are scheduled, the service's calls return (OrderService's
\* EveryoneFinishes), the ticker ticks, and the select, which picks among its
\* ready cases at random, does not ignore a cancelled context for ever.
Fairness ==
  /\ WF_vars(Loop) /\ SF_vars(SelectDone) /\ WF_vars(Tick)
  /\ \A r \in RunIds : WF_vars(Run(r))

FairSpec == Spec /\ Fairness

-----------------------------------------------------------------------------
(* Properties. *)

Live(r) == runs[r] # "unused"
Busy(r) == runs[r] \in {"working", "store"}

TypeOK ==
  /\ batchSize \in BatchSizes
  /\ loop \in {"start", "failed", "select", "add", "go", "wait", "returned"}
  /\ ctxDone \in BOOLEAN /\ tick \in BOOLEAN /\ isRunning \in BOOLEAN
  /\ activeRuns \in Nat
  /\ runs \in [RunIds -> {"unused", "working", "store", "done"}]

\* README: the worker prevents overlapping runs in the same process.  Between
\* the tick that starts a run and the end of its call, no other run starts
\* (CompareAndSwap on isRunning).
NoOverlap ==
  /\ \A r1, r2 \in RunIds : Busy(r1) /\ Busy(r2) => r1 = r2
  /\ loop \in {"add", "go"} => \A r \in RunIds : ~Busy(r)

\* The flag is set exactly while a run starts or works: no tick is skipped
\* without a run, and none is served beside one.
FlagMeansRun == isRunning <=> loop \in {"add", "go"} \/ \E r \in RunIds : Busy(r)

\* README: the worker stops cleanly.  When Run has returned, no run is under way
\* and none will start (activeRuns.Wait); nor is there one before it waits for
\* ticks.
StopsClean ==
  loop \in {"start", "failed", "returned"} => \A r \in RunIds : ~Live(r)

\* A worker whose batch size is not positive never starts a run (Run's check).
RunsHaveRoom == \A r \in RunIds : Live(r) => batchSize >= 1

\* The counter of the wait group is the number of goroutines it stands for, so
\* that Wait neither returns early nor for ever, and Done never drops below zero.
CountsRuns ==
  activeRuns = Cardinality({r \in RunIds : Live(r)}) + IF loop = "go" THEN 1 ELSE 0

\* The inductive invariant.
Inv == TypeOK /\ NoOverlap /\ FlagMeansRun /\ StopsClean /\ CountsRuns

\* After the cancellation, Run returns (or has failed at its start).
CancelStops == ctxDone ~> loop \in {"returned", "failed"}

\* A worker that is not cancelled, nor refused its batch size, keeps starting runs:
\* the flag never sticks.
KeepsRunning ==
  []<>(batchSize < 1 \/ ctxDone \/ \E r \in RunIds : runs[r] = "working")
=============================================================================
