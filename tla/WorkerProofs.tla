---------------------------- MODULE WorkerProofs ----------------------------
(***************************************************************************)
(* Proofs about Worker, for any number of runs alive at once: its safety   *)
(* properties together are inductive.                                      *)
(***************************************************************************)
EXTENDS Worker, FiniteSetTheorems, TLAPS

LiveRuns == {r \in RunIds : Live(r)}

LEMMA LiveRunsFinite ==
  /\ IsFiniteSet(LiveRuns)
  /\ Cardinality(LiveRuns) \in Nat
  /\ Cardinality(LiveRuns) = 0 <=> LiveRuns = {}
<1>1. IsFiniteSet(LiveRuns)
  BY RunIdsAssumption, FS_Subset DEF LiveRuns
<1> QED BY <1>1, FS_CardinalityType, FS_EmptySet

\* The set of live runs, and its size, when no run starts or ends.
LEMMA LiveRunsFrame ==
  ASSUME \A r \in RunIds : Live(r)' <=> Live(r)
  PROVE  LiveRuns' = LiveRuns
  BY DEF LiveRuns

LEMMA InitInv == Init => Inv
<1> SUFFICES ASSUME Init PROVE Inv
  OBVIOUS
<1>1. TypeOK /\ NoOverlap /\ FlagMeansRun /\ StopsClean
  BY DEF Init, TypeOK, NoOverlap, FlagMeansRun, StopsClean, Live, Busy
<1>2. LiveRuns = {}
  BY DEF Init, LiveRuns, Live
<1>3. CountsRuns
  BY <1>2, LiveRunsFinite DEF Init, CountsRuns, LiveRuns
<1> QED BY <1>1, <1>3 DEF Inv

\* The steps of the loop's goroutine, of its environment, and none at all.
LEMMA LoopStep ==
  ASSUME Inv,
         \/ Cancel \/ Tick \/ Start \/ SelectDone \/ SelectTick \/ Add \/ WaitAndReturn
         \/ UNCHANGED vars
  PROVE  Inv'
<1> USE DEF Cancel, Tick, Start, SelectDone, SelectTick, Add, WaitAndReturn, vars
<1>1. UNCHANGED <<batchSize, runs>>
  OBVIOUS
<1>2. LiveRuns' = LiveRuns
  BY <1>1 DEF LiveRuns, Live
<1>3. TypeOK'
  <2>1. CASE Add
    BY <2>1 DEF Inv, TypeOK
  <2>2. CASE Cancel \/ Tick
    BY <2>2 DEF Inv, TypeOK
  <2>3. CASE Start \/ SelectDone \/ SelectTick \/ WaitAndReturn
    BY <2>3 DEF Inv, TypeOK
  <2>4. CASE UNCHANGED vars
    BY <2>4 DEF Inv, TypeOK
  <2> QED BY <2>1, <2>2, <2>3, <2>4
<1>4. NoOverlap'
  BY DEF Inv, NoOverlap, FlagMeansRun, Busy, TypeOK
<1>5. FlagMeansRun'
  BY DEF Inv, FlagMeansRun, Busy, TypeOK
<1>6. StopsClean'
  <2>1. CASE WaitAndReturn
    <3>1. LiveRuns = {}
      BY <2>1, LiveRunsFinite DEF Inv, CountsRuns, LiveRuns
    <3> QED BY <3>1, <1>1 DEF LiveRuns, StopsClean, Live
  <2>2. CASE ~WaitAndReturn
    BY <1>1, <2>2 DEF Inv, StopsClean, Live, TypeOK
  <2> QED BY <2>1, <2>2
<1>7. CountsRuns'
  BY <1>2, LiveRunsFinite DEF Inv, CountsRuns, LiveRuns, TypeOK
<1> QED BY <1>3, <1>4, <1>5, <1>6, <1>7 DEF Inv

LEMMA GoStep ==
  ASSUME Inv, Go
  PROVE  Inv'
<1>1. PICK r \in RunIds : runs[r] = "unused" /\ runs' = [runs EXCEPT ![r] = "working"]
  BY DEF Go
<1>2. loop = "go" /\ loop' = "select" /\ UNCHANGED <<batchSize, ctxDone, tick, isRunning, activeRuns>>
  BY DEF Go
<1>3. /\ runs'[r] = "working"
      /\ \A q \in RunIds : q # r => runs'[q] = runs[q]
  BY <1>1 DEF Inv, TypeOK
<1>4. TypeOK'
  BY <1>1, <1>2 DEF Inv, TypeOK
<1>5. NoOverlap' /\ FlagMeansRun' /\ StopsClean'
  BY <1>2, <1>3 DEF Inv, NoOverlap, FlagMeansRun, StopsClean, Busy
<1>6. LiveRuns' = LiveRuns \cup {r} /\ r \notin LiveRuns
  BY <1>1, <1>3 DEF LiveRuns, Live
<1>7. Cardinality(LiveRuns') = Cardinality(LiveRuns) + 1
  BY <1>6, LiveRunsFinite, FS_AddElement
<1>8. CountsRuns'
  BY <1>2, <1>7, LiveRunsFinite DEF Inv, CountsRuns, LiveRuns
<1> QED BY <1>4, <1>5, <1>8 DEF Inv

LEMMA RunStep ==
  ASSUME Inv, NEW r \in RunIds, Run(r)
  PROVE  Inv'
<1> USE DEF Run, RunOnce, Store, Done
<1>1. UNCHANGED <<batchSize, loop, ctxDone, tick>>
  OBVIOUS
<1>2. \A q \in RunIds : q # r => runs'[q] = runs[q]
  BY DEF Inv, TypeOK
<1>3. Live(r) /\ loop \notin {"start", "failed", "returned"}
  BY DEF Inv, StopsClean, Live
<1>4. CASE RunOnce(r)
  <2>1. runs'[r] = "store" /\ runs[r] = "working"
    BY <1>4 DEF Inv, TypeOK
  <2>2. LiveRuns' = LiveRuns
    BY <1>2, <2>1 DEF LiveRuns, Live
  <2>3. TypeOK'
    BY <1>4 DEF Inv, TypeOK
  <2>4. NoOverlap' /\ FlagMeansRun' /\ StopsClean'
    BY <1>2, <1>3, <1>4, <2>1 DEF Inv, NoOverlap, FlagMeansRun, StopsClean, Busy
  <2>5. CountsRuns'
    BY <1>4, <2>2 DEF Inv, CountsRuns, LiveRuns
  <2> QED BY <2>3, <2>4, <2>5 DEF Inv
<1>5. CASE Store(r)
  <2>1. runs'[r] = "done" /\ runs[r] = "store"
    BY <1>5 DEF Inv, TypeOK
  <2>2. LiveRuns' = LiveRuns
    BY <1>2, <2>1 DEF LiveRuns, Live
  <2>3. TypeOK'
    BY <1>5 DEF Inv, TypeOK
  <2>4. loop \notin {"add", "go"} /\ \A q \in RunIds : Busy(q) => q = r
    BY <2>1 DEF Inv, NoOverlap, Busy
  <2>5. NoOverlap' /\ FlagMeansRun' /\ StopsClean'
    BY <1>2, <1>3, <1>5, <2>1, <2>4 DEF Inv, NoOverlap, FlagMeansRun, StopsClean, Busy
  <2>6. CountsRuns'
    BY <1>5, <2>2 DEF Inv, CountsRuns, LiveRuns
  <2> QED BY <2>3, <2>5, <2>6 DEF Inv
<1>6. CASE Done(r)
  <2>1. runs'[r] = "unused" /\ runs[r] = "done"
    BY <1>6 DEF Inv, TypeOK
  <2>2. LiveRuns' = LiveRuns \ {r} /\ r \in LiveRuns
    BY <1>2, <2>1 DEF LiveRuns, Live
  <2>3. Cardinality(LiveRuns') = Cardinality(LiveRuns) - 1 /\ Cardinality(LiveRuns) # 0
    BY <2>2, LiveRunsFinite, FS_RemoveElement
  <2>4. activeRuns' = activeRuns - 1 /\ activeRuns # 0
    BY <1>6, <2>3, LiveRunsFinite DEF Inv, CountsRuns, LiveRuns
  <2>5. TypeOK'
    BY <1>6, <2>4 DEF Inv, TypeOK
  <2>6. NoOverlap' /\ FlagMeansRun' /\ StopsClean'
    BY <1>2, <1>3, <1>6, <2>1 DEF Inv, NoOverlap, FlagMeansRun, StopsClean, Busy
  <2>7. CountsRuns'
    BY <1>1, <2>3, <2>4, LiveRunsFinite DEF Inv, CountsRuns, LiveRuns
  <2> QED BY <2>5, <2>6, <2>7 DEF Inv
<1> QED BY <1>4, <1>5, <1>6

\* In every reachable state no two runs overlap, the flag tells whether there is
\* one, the wait group counts them all, and none is left when Run has returned.
THEOREM Invariance == Spec => []Inv
<1>1. Inv /\ [Next]_vars => Inv'
  BY LoopStep, GoStep, RunStep DEF Next, Loop, Stopped
<1> QED BY InitInv, <1>1, PTL DEF Spec

\* The worker prevents overlapping runs (isRunning.CompareAndSwap), which README.md
\* promises.
THEOREM WorkerSafe == Spec => []NoOverlap
  BY Invariance, PTL DEF Inv

\* The flag is never left set without a run, nor reset under one (the deferred Store).
THEOREM FlagExact == Spec => []FlagMeansRun
  BY Invariance, PTL DEF Inv

\* Whatever run was started last, none is left when Run has returned (Wait).
THEOREM NoneLeft == Spec => []StopsClean
  BY Invariance, PTL DEF Inv

\* The wait group counts the runs that live, so that Done never takes it below zero.
THEOREM RunsCounted == Spec => []CountsRuns
  BY Invariance, PTL DEF Inv

\* No run is ever started with a batch size that is not positive, the reason why Run
\* may fail at its start only.
THEOREM RoomForRuns == Spec => []RunsHaveRoom
<1> DEFINE Checked == loop \notin {"start", "failed"} => batchSize >= 1
<1>1. Init => Checked
  BY DEF Init
<1>2. Inv /\ Checked /\ [Next]_vars => Checked'
  <2> SUFFICES ASSUME Inv, Checked, [Next]_vars PROVE Checked'
    OBVIOUS
  <2>1. CASE Start
    BY <2>1, BatchSizesAssumption DEF Inv, TypeOK, Start
  <2>2. CASE SelectDone \/ SelectTick \/ Add \/ Go \/ WaitAndReturn
    BY <2>2 DEF SelectDone, SelectTick, Add, Go, WaitAndReturn
  <2>3. ASSUME \/ Cancel \/ Tick \/ Stopped \/ UNCHANGED vars
               \/ \E r \in RunIds : Run(r)
        PROVE  UNCHANGED <<loop, batchSize>>
    BY <2>3 DEF Cancel, Tick, Stopped, vars, Run, RunOnce, Store, Done
  <2> QED BY <2>1, <2>2, <2>3 DEF Next, Loop
<1>3. Inv /\ Checked => RunsHaveRoom
  BY DEF Inv, StopsClean, RunsHaveRoom
<1> QED BY <1>1, <1>2, <1>3, Invariance, PTL DEF Spec

\* Types, for any number of goroutines.
THEOREM WorkerTypes == Spec => []TypeOK
  BY Invariance, PTL DEF Inv
=============================================================================
