------------------------- MODULE PendingQueueProofs -------------------------
(***************************************************************************)
(* Proofs about PendingQueue, for any number of orders, runs and failures: *)
(* the worker in it does what Worker allows, so that Worker's theorems     *)
(* hold of it; every row is in one transaction's hands at most; and a run  *)
(* takes as many orders as it may, and none before an older one.           *)
(***************************************************************************)
EXTENDS PendingQueue, WorkerProofs, WellFoundedInduction

-----------------------------------------------------------------------------
(* The queue implements Worker: what it adds is UNCHANGED vars there, or   *)
(* decides when a run returns.                                             *)

LEMMA WorkerSteps ==
  ASSUME [QueueNext]_allVars
  PROVE  [Next]_vars
<1>1. ASSUME NEW o, BeginCreate(o) \/ EndCreate(o) \/ LockRow(o) \/ UnlockRow(o)
      PROVE  UNCHANGED vars
  BY <1>1 DEF BeginCreate, EndCreate, LockRow, UnlockRow
<1>2. ASSUME NEW r \in RunIds, ServeRun(r)
      PROVE  RunOnce(r) \/ UNCHANGED vars
  BY <1>2 DEF ServeRun, Pick, CommitBatch, FailBatch, ReturnFromRun
<1>3. ASSUME WorkerElse
      PROVE  Next
  BY <1>3 DEF WorkerElse, Next, Run
<1>4. ASSUME UNCHANGED allVars
      PROVE  UNCHANGED vars
  BY <1>4 DEF allVars
<1> QED BY <1>1, <1>2, <1>3, <1>4 DEF QueueNext, Next, Run

\* Whatever becomes of the orders, the worker's loop and runs behave as module
\* Worker says, which leaves open when a run's call returns.
THEOREM QueueImplementsWorker == QueueSpec => Spec
<1>1. QueueInit => Init
  BY DEF QueueInit
<1> QED BY <1>1, WorkerSteps, PTL DEF QueueSpec, Spec

\* Worker's invariant, and with it every theorem about Worker, holds in the queue.
THEOREM WorkerInvariance == QueueSpec => []Inv
  BY QueueImplementsWorker, Invariance, PTL

-----------------------------------------------------------------------------
(* The order of the waiting orders. *)

\* Orders that leave from anywhere leave the others in order.
LEMMA LeaveInOrder ==
  ASSUME InOrder, NEW S, Leave(S)
  PROVE  InOrder'
<1>1. \A x, y : <<x, y>> \in older' <=> <<x, y>> \in older /\ x \in waiting' /\ y \in waiting'
  BY DEF Leave
<1>2. older' \subseteq waiting' \X waiting' /\ waiting' \subseteq waiting
  BY DEF Leave
<1> QED BY <1>1, <1>2 DEF InOrder

\* A new order is younger than all that wait.
LEMMA JoinInOrder ==
  ASSUME InOrder, NEW o, BeginCreate(o)
  PROVE  InOrder'
<1>1. o \notin waiting /\ waiting' = waiting \cup {o} /\ older' = older \cup (waiting \X {o})
  BY DEF BeginCreate
<1>2. \A x, y : <<x, y>> \in older' <=> <<x, y>> \in older \/ (x \in waiting /\ y = o)
  BY <1>1
<1>3. \A x, y : <<x, y>> \in older => x \in waiting /\ y \in waiting
  BY DEF InOrder
<1>4. older' \subseteq waiting' \X waiting'
  BY <1>1 DEF InOrder
<1> QED BY <1>1, <1>2, <1>3, <1>4 DEF InOrder

-----------------------------------------------------------------------------
(* Every step preserves QueueInv.  The worker's own Inv is known before and *)
(* after the step.                                                          *)

LEMMA QueueInitInv == QueueInit => QueueInv
<1> SUFFICES ASSUME QueueInit PROVE QueueInv
  OBVIOUS
<1> USE DEF QueueInit
<1>1. Held = {}
  BY DEF Held
<1>2. TypeOK
  BY InitInv DEF Inv
<1> QED BY <1>1, <1>2, QueueAssumption
        DEF QueueInv, QueueTypeOK, HeldOnce, InOrder, NothingLeftOpen

\* A request: the runs and their batches stay as they are.
LEMMA RequestStep ==
  ASSUME QueueInv, NEW o \in Orders,
         BeginCreate(o) \/ EndCreate(o) \/ LockRow(o) \/ UnlockRow(o)
  PROVE  QueueInv'
<1> USE DEF BeginCreate, EndCreate, LockRow, UnlockRow
<1>1. UNCHANGED <<call, batch, vars>> /\ Held' = Held
  BY DEF Held
<1>2. NothingLeftOpen'
  BY <1>1 DEF QueueInv, NothingLeftOpen, vars
<1>3. InOrder'
  <2>1. CASE BeginCreate(o)
    BY <2>1, JoinInOrder DEF QueueInv
  <2>2. CASE Leave({o})
    BY <2>2, LeaveInOrder DEF QueueInv
  <2>3. CASE UNCHANGED queue
    BY <2>3 DEF QueueInv, InOrder, queue
  <2> QED BY <2>1, <2>2, <2>3 DEF queue
<1>4. QueueTypeOK'
  <2>1. TypeOK'
    BY <1>1 DEF QueueInv, QueueTypeOK, TypeOK, vars
  <2>2. waiting' \subseteq Orders /\ older' \subseteq Orders \X Orders
    BY DEF QueueInv, QueueTypeOK, Leave, queue
  <2>3. open' \subseteq Orders /\ locked' \subseteq Orders
    BY DEF QueueInv, QueueTypeOK
  <2>4. faults' \in 0 .. MaxFaults
    BY QueueAssumption DEF QueueInv, QueueTypeOK
  <2> QED BY <1>1, <2>1, <2>2, <2>3, <2>4 DEF QueueInv, QueueTypeOK
<1>5. HeldOnce'
  BY <1>1 DEF QueueInv, HeldOnce, Leave, Free, queue
<1> QED BY <1>2, <1>3, <1>4, <1>5 DEF QueueInv

\* A step of a run's transaction.
LEMMA RunStepInQueue ==
  ASSUME Inv', QueueInv, NEW r \in RunIds, ServeRun(r)
  PROVE  QueueInv'
<1> USE DEF ServeRun, Pick, CommitBatch, FailBatch, ReturnFromRun
<1>1. UNCHANGED <<open, locked>>
  OBVIOUS
<1>2. \A q \in RunIds : q # r => /\ batch'[q] = batch[q] /\ call'[q] = call[q]
                                 /\ runs'[q] = runs[q]
  BY DEF QueueInv, QueueTypeOK, TypeOK, RunOnce, vars
<1>3. \/ /\ Pick(r) /\ UNCHANGED queue /\ batch'[r] \subseteq Free
         /\ call'[r] = "open" /\ runs'[r] = "working"
      \/ /\ UNCHANGED queue \/ Leave(batch[r])
         /\ batch'[r] = {} /\ call'[r] = "over" /\ runs'[r] = "working"
      \/ /\ UNCHANGED queue /\ batch'[r] = {} /\ batch' = batch /\ call'[r] = "none"
  <2>1. CASE Pick(r)
    BY <2>1 DEF QueueInv, QueueTypeOK, PickOldest, vars, queue
  <2>2. CASE CommitBatch(r) \/ FailBatch(r)
    <3>1. call'[r] = "over" /\ batch'[r] = {} /\ (UNCHANGED queue \/ Leave(batch[r]))
      BY <2>2 DEF QueueInv, QueueTypeOK
    <3>2. runs[r] = "working" /\ UNCHANGED runs
      BY <2>2 DEF QueueInv, NothingLeftOpen, vars
    <3> QED BY <3>1, <3>2
  <2>3. CASE ReturnFromRun(r)
    <3>1. UNCHANGED <<queue, batch>> /\ call[r] = "over" /\ call'[r] = "none"
      BY <2>3 DEF QueueInv, QueueTypeOK
    <3>2. batch[r] = {}
      BY <3>1 DEF QueueInv, NothingLeftOpen
    <3> QED BY <3>1, <3>2
  <2> QED BY <2>1, <2>2, <2>3
<1>4. QueueTypeOK'
  <2>1. TypeOK'
    BY DEF Inv
  <2>2. waiting' \subseteq Orders /\ older' \subseteq Orders \X Orders
    BY <1>3 DEF QueueInv, QueueTypeOK, Leave, queue
  <2>3. faults' \in 0 .. MaxFaults
    BY QueueAssumption DEF QueueInv, QueueTypeOK
  <2>4. call' \in [RunIds -> {"none", "open", "over"}]
    BY DEF QueueInv, QueueTypeOK
  <2>5. batch' \in [RunIds -> SUBSET Orders]
    BY DEF QueueInv, QueueTypeOK, PickOldest, Free
  <2> QED BY <1>1, <2>1, <2>2, <2>3, <2>4, <2>5 DEF QueueInv, QueueTypeOK
<1>5. InOrder'
  BY <1>3, LeaveInOrder DEF QueueInv, InOrder, queue
<1>6. HeldOnce'
  <2>1. \A q \in RunIds : batch[q] \subseteq Held
    BY DEF Held
  <2>2. \A q \in RunIds : batch'[q] \subseteq Held \/ (q = r /\ batch'[q] \subseteq Free)
    BY <1>2, <1>3, <2>1
  <2>3. \A x \in Held' : x \in Held \/ x \in Free
    BY <2>2 DEF Held
  <2>4. \A q1, q2 \in RunIds : q1 # q2 => batch'[q1] \cap batch'[q2] = {}
    BY <1>2, <1>3, <2>1 DEF QueueInv, HeldOnce, Free
  <2>5. Leave(batch[r]) /\ batch'[r] = {} => Held' \subseteq waiting'
    <3> SUFFICES ASSUME Leave(batch[r]), batch'[r] = {}, NEW q \in RunIds, NEW x \in batch'[q]
                 PROVE  x \in waiting'
      BY DEF Held
    <3>1. q # r /\ x \in batch[q]
      BY <1>2
    <3> QED BY <3>1, <2>1 DEF QueueInv, HeldOnce, Leave
  <2>6. Leave(batch[r]) => open \cup locked \subseteq waiting'
    BY <2>1 DEF QueueInv, HeldOnce, Leave
  <2>7. Held' \cup open' \cup locked' \subseteq waiting'
    BY <1>1, <1>3, <2>3, <2>5, <2>6 DEF QueueInv, HeldOnce, Free, queue
  <2>8. Held' \cap (open' \cup locked') = {}
    BY <1>1, <2>3 DEF QueueInv, HeldOnce, Free
  <2> QED BY <1>1, <2>4, <2>7, <2>8 DEF QueueInv, HeldOnce
<1>7. NothingLeftOpen'
  <2>1. ASSUME NEW q \in RunIds
        PROVE  /\ call'[q] # "none" => runs'[q] = "working"
               /\ batch'[q] # {} => call'[q] = "open"
    <3>1. CASE q # r
      BY <1>2, <3>1 DEF QueueInv, NothingLeftOpen
    <3>2. CASE q = r
      BY <1>3, <3>2
    <3> QED BY <3>1, <3>2
  <2>2. loop' \in {"failed", "returned"} => Held' = {}
    BY <2>1 DEF Inv, StopsClean, Live, Held
  <2> QED BY <2>1, <2>2 DEF NothingLeftOpen
<1> QED BY <1>4, <1>5, <1>6, <1>7 DEF QueueInv

\* All else the worker does leaves the orders alone.
LEMMA ElseStep ==
  ASSUME Inv', QueueInv, WorkerElse \/ UNCHANGED allVars
  PROVE  QueueInv'
<1>1. UNCHANGED queueVars /\ Held' = Held /\ call' = call /\ batch' = batch
  BY DEF WorkerElse, allVars, queueVars, Held
<1>2. QueueTypeOK'
  BY <1>1 DEF Inv, QueueInv, QueueTypeOK, queueVars, queue
<1>3. HeldOnce' /\ InOrder'
  BY <1>1 DEF QueueInv, HeldOnce, InOrder, queueVars, queue
<1>4. \A r \in RunIds : runs[r] = "working" => runs'[r] = "working"
  BY DEF WorkerElse, Cancel, Tick, Loop, Start, SelectDone, SelectTick, Add, Go, WaitAndReturn,
         Store, Done, QueueInv, QueueTypeOK, TypeOK, allVars, vars
<1>5. \A r \in RunIds : /\ call'[r] # "none" => runs'[r] = "working"
                        /\ batch'[r] # {} => call'[r] = "open"
  BY <1>1, <1>4 DEF QueueInv, NothingLeftOpen
<1>6. loop' \in {"failed", "returned"} => Held' = {}
  BY <1>5 DEF Inv, StopsClean, Live, Held
<1> QED BY <1>2, <1>3, <1>5, <1>6 DEF QueueInv, NothingLeftOpen

LEMMA QueueNextInv ==
  Inv' /\ QueueInv /\ [QueueNext]_allVars => QueueInv'
  BY RequestStep, RunStepInQueue, ElseStep DEF QueueNext

\* However creations, requests, runs, failures and the cancellation interleave, the
\* queue keeps its order, and no transaction outlives its run.
THEOREM QueueInvariance == QueueSpec => []QueueInv
  BY QueueInitInv, QueueNextInv, WorkerInvariance, PTL DEF QueueSpec

\* No row is in the hands of two transactions, and a row in a run's hands still
\* waits to be moved (FOR UPDATE SKIP LOCKED).
THEOREM RowsHeldOnce == QueueSpec => []HeldOnce
  BY QueueInvariance, PTL DEF QueueInv

-----------------------------------------------------------------------------
(* Runs take the oldest orders. *)

\* Whoever is older than one of the first is one of the first.
LEMMA OldestPicked ==
  ASSUME QueueInv, NEW c \in SUBSET waiting, NEW o \in PickOldest(c), NEW x \in c,
         <<x, o>> \in older
  PROVE  x \in PickOldest(c)
<1> DEFINE before(y) == {z \in c : <<z, y>> \in older}
<1>1. before(x) \subseteq before(o)
  BY DEF QueueInv, InOrder, PickOldest
<1>2. IsFiniteSet(before(x)) /\ IsFiniteSet(before(o))
  <2>1. before(x) \subseteq Orders /\ before(o) \subseteq Orders
    BY DEF QueueInv, QueueTypeOK
  <2> QED BY <2>1, QueueAssumption, FS_Subset
<1>3. Cardinality(before(x)) <= Cardinality(before(o))
  BY <1>1, <1>2, FS_Subset
<1>4. /\ Cardinality(before(x)) \in Nat /\ Cardinality(before(o)) \in Nat
      /\ batchSize \in Int
  BY <1>2, FS_CardinalityType, BatchSizesAssumption DEF QueueInv, QueueTypeOK, TypeOK
<1>5. Cardinality(before(o)) < batchSize
  BY DEF PickOldest
<1> HIDE DEF before
<1>6. Cardinality(before(x)) < batchSize
  BY <1>3, <1>4, <1>5
<1> QED BY <1>6 DEF PickOldest, before

\* Every set of natural numbers has a least element.
LEMMA LeastNatural ==
  ASSUME NEW T \in SUBSET Nat, T # {}
  PROVE  \E n \in T : \A m \in T : n <= m
<1>1. PICK n \in T : \A m \in T : ~(<<m, n>> \in OpToRel(<, Nat))
  BY NatLessThanWellFounded, WFMin, Zenon
<1>2. \A m \in T : ~(m < n)
  BY <1>1, Zenon DEF OpToRel
<1> QED BY <1>2

\* The first of the candidates are as many as LIMIT allows, or all: the last of them
\* has fewer than batchSize before it, the first of the others no fewer.
LEMMA OldestFull ==
  ASSUME QueueInv, NEW c \in SUBSET waiting, batchSize >= 1
  PROVE  /\ Cardinality(PickOldest(c)) <= batchSize
         /\ PickOldest(c) # c => Cardinality(PickOldest(c)) = batchSize
<1> DEFINE before(y) == {z \in c : <<z, y>> \in older}
           rank(y) == Cardinality(before(y))
           P == PickOldest(c)
<1>1. batchSize \in Nat
  BY BatchSizesAssumption DEF QueueInv, QueueTypeOK, TypeOK
<1>2. /\ IsFiniteSet(P) /\ Cardinality(P) \in Nat
      /\ \A y : IsFiniteSet(before(y)) /\ rank(y) \in Nat
  <2>1. P \subseteq Orders /\ \A y : before(y) \subseteq Orders
    BY DEF QueueInv, QueueTypeOK, PickOldest
  <2> QED BY <2>1, QueueAssumption, FS_Subset, FS_CardinalityType
<1>3. P = {y \in c : rank(y) < batchSize}
  BY DEF PickOldest
<1>4. \A x, y \in c : <<x, y>> \in older => x \in before(y) /\ x \notin before(x)
                                            /\ before(x) \subseteq before(y)
  BY DEF QueueInv, InOrder
<1>5. \A x, y \in c : x # y => x \in before(y) \/ <<y, x>> \in older
  BY DEF QueueInv, InOrder
<1>6. \A x, y \in c : x \in before(y) => <<x, y>> \in older
  OBVIOUS
<1> HIDE DEF before, P
<1>7. \A x, y \in c : <<x, y>> \in older => rank(x) < rank(y)
  <2> SUFFICES ASSUME NEW x \in c, NEW y \in c, <<x, y>> \in older PROVE rank(x) < rank(y)
    OBVIOUS
  <2>1. before(x) \in SUBSET before(y) /\ before(x) # before(y)
    BY <1>4
  <2>2. rank(x) <= rank(y) /\ rank(x) # rank(y)
    BY <1>2, <2>1, FS_Subset
  <2> QED BY <1>2, <2>2
<1>8. Cardinality(P) <= batchSize
  <2>1. CASE P = {}
    BY <1>1, <2>1, FS_EmptySet
  <2>2. CASE P # {}
    <3> DEFINE room == {batchSize - rank(y) : y \in P}
    <3>1. room \in SUBSET Nat /\ room # {}
      BY <1>1, <1>2, <1>3, <2>2
    <3>2. PICK n \in room : \A m \in room : n <= m
      <4> HIDE DEF room
      <4> QED BY <3>1, LeastNatural
    <3>3. PICK last \in P : \A y \in P : rank(y) <= rank(last)
      <4>1. PICK last \in P : n = batchSize - rank(last)
        BY <3>2
      <4>2. \A y \in P : batchSize - rank(last) <= batchSize - rank(y)
        BY <3>2, <4>1
      <4> HIDE DEF rank, room
      <4> QED BY <1>1, <1>2, <4>2
    <3>4. P \in SUBSET (before(last) \cup {last})
      <4> SUFFICES ASSUME NEW y \in P, y # last PROVE y \in before(last)
        OBVIOUS
      <4>1. y \in c /\ last \in c
        BY <1>3
      <4>2. ~(rank(last) < rank(y))
        BY <1>2, <3>3
      <4> QED BY <1>5, <1>7, <4>1, <4>2
    <3>5. /\ IsFiniteSet(before(last) \cup {last})
          /\ Cardinality(before(last) \cup {last}) <= rank(last) + 1
      <4> DEFINE b == before(last)
      <4>1. IsFiniteSet(b) /\ Cardinality(b) \in Nat /\ rank(last) = Cardinality(b)
        BY <1>2
      <4> HIDE DEF b
      <4>2. /\ IsFiniteSet(b \cup {last})
            /\ \/ Cardinality(b \cup {last}) = Cardinality(b)
               \/ Cardinality(b \cup {last}) = Cardinality(b) + 1
        BY <4>1, FS_AddElement
      <4>3. /\ IsFiniteSet(b \cup {last})
            /\ Cardinality(b \cup {last}) <= Cardinality(b) + 1
        BY <4>1, <4>2
      <4> QED BY <4>1, <4>3 DEF b
    <3>6. Cardinality(P) <= Cardinality(before(last) \cup {last})
      BY <3>4, <3>5, FS_Subset
    <3>7. Cardinality(before(last) \cup {last}) \in Nat
      BY <3>5, FS_CardinalityType
    <3>8. rank(last) < batchSize
      BY <1>3
    <3> HIDE DEF rank
    <3> QED BY <1>1, <1>2, <3>5, <3>6, <3>7, <3>8
  <2> QED BY <2>1, <2>2
<1>9. ASSUME P # c PROVE batchSize <= Cardinality(P)
  <2> DEFINE ranks == {rank(y) : y \in c \ P}
  <2>1. ranks \in SUBSET Nat /\ ranks # {}
    BY <1>2, <1>3, <1>9
  <2>2. PICK n \in ranks : \A m \in ranks : n <= m
    <3> HIDE DEF ranks
    <3> QED BY <2>1, LeastNatural
  <2>3. PICK first \in c \ P : \A y \in c \ P : rank(first) <= rank(y)
    BY <2>2
  <2>4. before(first) \in SUBSET P
    <3> SUFFICES ASSUME NEW z \in before(first), z \notin P PROVE FALSE
      OBVIOUS
    <3>1. z \in c
      BY DEF before
    <3>2. rank(z) < rank(first)
      BY <1>6, <1>7, <3>1
    <3>3. rank(first) <= rank(z)
      BY <2>3, <3>1
    <3> HIDE DEF rank
    <3> QED BY <1>2, <3>2, <3>3
  <2>5. rank(first) <= Cardinality(P)
    BY <1>2, <2>4, FS_Subset
  <2>6. ~(rank(first) < batchSize)
    BY <1>3
  <2> HIDE DEF rank
  <2> QED BY <1>1, <1>2, <2>5, <2>6
<1> QED BY <1>1, <1>2, <1>8, <1>9 DEF P

\* Only Pick opens a transaction.
LEMMA OpensByPick ==
  ASSUME QueueInv, [QueueNext]_allVars, NEW r \in RunIds, call[r] = "none", call'[r] = "open"
  PROVE  runs[r] = "working" /\ batch'[r] = PickOldest(Free)
<1>1. call \in [RunIds -> {"none", "open", "over"}] /\ call' # call
  BY DEF QueueInv, QueueTypeOK
<1>2. PICK q \in RunIds : ServeRun(q)
  BY <1>1 DEF QueueNext, allVars, queueVars, BeginCreate, EndCreate, LockRow, UnlockRow,
              WorkerElse
<1>3. CASE Pick(q)
  BY <1>1, <1>3 DEF Pick, QueueInv, QueueTypeOK
<1>4. CASE CommitBatch(q) \/ FailBatch(q) \/ ReturnFromRun(q)
  BY <1>1, <1>4 DEF CommitBatch, FailBatch, ReturnFromRun
<1> QED BY <1>2, <1>3, <1>4 DEF ServeRun

\* A run never picks an order while it leaves an older one that it may take, whatever
\* the batch size (ORDER BY created_at, LIMIT, SKIP LOCKED).
THEOREM PicksOldestFirst == QueueSpec => OldestFirst
<1>1. QueueInv /\ [QueueNext]_allVars => [NobodyOvertaken]_allVars
  <2> SUFFICES ASSUME QueueInv, [QueueNext]_allVars,
                      NEW r \in RunIds, call[r] = "none", call'[r] = "open",
                      NEW o \in batch'[r], NEW x \in Free, <<x, o>> \in older
               PROVE  x \in batch'[r]
    BY DEF NobodyOvertaken
  <2> QED BY OpensByPick, OldestPicked DEF Free
<1> QED BY <1>1, QueueInvariance, PTL DEF QueueSpec, OldestFirst

\* Nor does it take more orders than its batch size, or fewer while there are more.
THEOREM PicksFullBatches == QueueSpec => [][BatchesFull]_allVars
<1>1. QueueInv /\ RunsHaveRoom /\ [QueueNext]_allVars => [BatchesFull]_allVars
  <2> SUFFICES ASSUME QueueInv, RunsHaveRoom, [QueueNext]_allVars,
                      NEW r \in RunIds, call[r] = "none", call'[r] = "open"
               PROVE  /\ Cardinality(batch'[r]) <= batchSize
                      /\ batch'[r] # Free => Cardinality(batch'[r]) = batchSize
    BY DEF BatchesFull
  <2>1. batch'[r] = PickOldest(Free) /\ batchSize >= 1
    BY OpensByPick DEF RunsHaveRoom, Live
  <2> QED BY <2>1, OldestFull DEF Free
<1>2. QueueSpec => []RunsHaveRoom
  BY QueueImplementsWorker, RoomForRuns, PTL
<1> QED BY <1>1, <1>2, QueueInvariance, PTL DEF QueueSpec
=============================================================================
