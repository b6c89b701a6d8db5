---------------------------- MODULE PendingQueue ----------------------------
(***************************************************************************)
(* The worker and the orders that wait for it.  Module Worker gives the    *)
(* loop and its runs, which this module extends: a run picks the oldest    *)
(* PENDING orders nobody has locked, in one transaction, while customers   *)
(* create orders without end and requests lock, cancel or move the waiting *)
(* ones.  The queue is the set of the waiting orders and the relation that *)
(* ORDER BY created_at gives them, that of the starts of their creations;  *)
(* an identifier that has left it is used again, for a new order.          *)
(***************************************************************************)
EXTENDS Worker

CONSTANTS Orders,      \* bound on the orders waiting at one time
          MaxFaults    \* bound on failed runs and requests

ASSUME QueueAssumption == MaxFaults \in Nat /\ IsFiniteSet(Orders)

VARIABLES waiting,     \* the orders being created or PENDING
          older,       \* <<x, o>>: x waits, and was created before o
          open,        \* those whose creation is not committed
          locked,      \* those that a request has locked
          call,        \* the run's transaction: "none", "open" or "over"
          batch,       \* the orders it holds
          faults

queue == <<waiting, older>>
queueVars == <<queue, open, locked, call, batch, faults>>
allVars == <<queueVars, vars>>

Held == UNION {batch[r] : r \in RunIds}

\* What a transaction that begins now may lock: committed, PENDING and free.
Free == waiting \ (open \cup locked \cup Held)

\* The orders S leave the queue; the others keep their order.
Leave(S) ==
  /\ waiting' = waiting \ S
  /\ older' = older \cap (waiting' \X waiting')

QueueInit ==
  /\ waiting = {} /\ older = {} /\ open = {} /\ locked = {}
  /\ call = [r \in RunIds |-> "none"]
  /\ batch = [r \in RunIds |-> {}]
  /\ faults = 0
  /\ Init

-----------------------------------------------------------------------------
(* Requests. *)

\* A creation starts its transaction, whose now() becomes created_at.
BeginCreate(o) ==
  /\ o \notin waiting
  /\ waiting' = waiting \cup {o}
  /\ older' = older \cup (waiting \X {o})
  /\ open' = open \cup {o}
  /\ UNCHANGED <<locked, call, batch, faults, vars>>

\* It commits, perhaps long after younger orders did, or is rolled back.
EndCreate(o) ==
  /\ o \in open
  /\ open' = open \ {o}
  /\ UNCHANGED queue \/ Leave({o})
  /\ UNCHANGED <<locked, call, batch, faults, vars>>

\* A cancellation, a status update or a run of another replica writes the row,
\* and so locks it.
LockRow(o) ==
  /\ o \in Free
  /\ locked' = locked \cup {o}
  /\ UNCHANGED <<queue, open, call, batch, faults, vars>>

\* It commits, and the order is PENDING no more, or it fails.
UnlockRow(o) ==
  /\ o \in locked
  /\ locked' = locked \ {o}
  /\ \/ Leave({o}) /\ UNCHANGED faults
     \/ faults < MaxFaults /\ faults' = faults + 1 /\ UNCHANGED queue
  /\ UNCHANGED <<open, call, batch, vars>>

-----------------------------------------------------------------------------
(* Runs. *)

\* Mutant: ORDER BY created_at DESC.
PickYoungest(c) ==
  {o \in c : Cardinality({x \in c : <<o, x>> \in older}) < batchSize}

\* ORDER BY created_at, LIMIT: the first of the candidates.
PickOldest(c) ==
  {o \in c : Cardinality({x \in c : <<x, o>> \in older}) < batchSize}

\* Mutant: neither FOR UPDATE nor SKIP LOCKED.
PickLocked(r) ==
  /\ runs[r] = "working" /\ call[r] = "none"
  /\ call' = [call EXCEPT ![r] = "open"]
  /\ batch' = [batch EXCEPT ![r] = PickOldest(waiting \ open)]
  /\ UNCHANGED <<queue, open, locked, faults, vars>>

\* WHERE status = 'PENDING' FOR UPDATE SKIP LOCKED: what is committed and free.
Pick(r) ==
  /\ runs[r] = "working" /\ call[r] = "none"
  /\ call' = [call EXCEPT ![r] = "open"]
  /\ batch' = [batch EXCEPT ![r] = PickOldest(Free)]
  /\ UNCHANGED <<queue, open, locked, faults, vars>>

\* The events are logged and the transaction commits: the batch is PROCESSING.
CommitBatch(r) ==
  /\ call[r] = "open"
  /\ call' = [call EXCEPT ![r] = "over"]
  /\ batch' = [batch EXCEPT ![r] = {}]
  /\ Leave(batch[r])
  /\ UNCHANGED <<open, locked, faults, vars>>

\* A statement of the run or its COMMIT fails, perhaps because its context is
\* cancelled: the orders wait on.
FailBatch(r) ==
  /\ runs[r] = "working" /\ call[r] \in {"none", "open"}
  /\ call' = [call EXCEPT ![r] = "over"]
  /\ batch' = [batch EXCEPT ![r] = {}]
  /\ \/ ctxDone /\ UNCHANGED faults
     \/ faults < MaxFaults /\ faults' = faults + 1
  /\ UNCHANGED <<queue, open, locked, vars>>

\* runOnce returns, whether the run failed or not.
ReturnFromRun(r) ==
  /\ call[r] = "over"
  /\ RunOnce(r)
  /\ call' = [call EXCEPT ![r] = "none"]
  /\ UNCHANGED <<queue, open, locked, batch, faults>>

\* All else the worker does.
WorkerElse ==
  /\ Cancel \/ Tick \/ Loop \/ \E r \in RunIds : Store(r) \/ Done(r)
  /\ UNCHANGED queueVars

ServeRun(r) == Pick(r) \/ CommitBatch(r) \/ FailBatch(r) \/ ReturnFromRun(r)

QueueNext ==
  \/ \E o \in Orders : BeginCreate(o) \/ EndCreate(o) \/ LockRow(o) \/ UnlockRow(o)
  \/ \E r \in RunIds : ServeRun(r)
  \/ WorkerElse

QueueSpec == QueueInit /\ [][QueueNext]_allVars

\* The worker is scheduled and its calls return, and a request that locked a row
\* ends (OrderService's EveryoneFinishes).  Nobody has to create orders, nor to
\* end a creation.
QueueFairness ==
  /\ WF_allVars(Loop /\ WorkerElse)
  /\ SF_allVars(SelectDone /\ WorkerElse)
  /\ WF_allVars(Tick /\ WorkerElse)
  /\ \A r \in RunIds : /\ WF_allVars(ServeRun(r))
                       /\ WF_allVars((Store(r) \/ Done(r)) /\ WorkerElse)
  /\ \A o \in Orders : WF_allVars(UnlockRow(o))

FairQueueSpec == QueueSpec /\ QueueFairness

-----------------------------------------------------------------------------
(* Properties. *)

QueueTypeOK ==
  /\ TypeOK
  /\ waiting \subseteq Orders /\ older \subseteq Orders \X Orders
  /\ open \subseteq Orders /\ locked \subseteq Orders
  /\ call \in [RunIds -> {"none", "open", "over"}]
  /\ batch \in [RunIds -> SUBSET Orders]
  /\ faults \in 0 .. MaxFaults

\* A row is in one transaction's hands at most, and what a run holds still waits:
\* no order is moved twice, or moved after a request took it out of PENDING
\* (SKIP LOCKED against the locks of requests).
HeldOnce ==
  /\ open \cap locked = {} /\ Held \cap (open \cup locked) = {}
  /\ \A r1, r2 \in RunIds : r1 # r2 => batch[r1] \cap batch[r2] = {}
  /\ Held \cup open \cup locked \subseteq waiting

\* The waiting orders are in one order, whatever left from between them.
InOrder ==
  /\ older \subseteq waiting \X waiting
  /\ \A x \in waiting : <<x, x>> \notin older
  /\ \A x, y \in waiting : x # y => <<x, y>> \in older \/ <<y, x>> \in older
  /\ \A x, y, z \in waiting :
       <<x, y>> \in older /\ <<y, z>> \in older => <<x, z>> \in older

\* No transaction of a run outlives its call, so none is open when the worker has
\* stopped (activeRuns.Wait).
NothingLeftOpen ==
  /\ \A r \in RunIds : /\ call[r] # "none" => runs[r] = "working"
                       /\ batch[r] # {} => call[r] = "open"
  /\ loop \in {"failed", "returned"} => Held = {}

\* With the worker's Inv, the inductive invariant.
QueueInv == QueueTypeOK /\ HeldOnce /\ InOrder /\ NothingLeftOpen

\* A run that picks passes over no order that it may take for a younger one.
NobodyOvertaken ==
  \A r \in RunIds :
    call[r] = "none" /\ call'[r] = "open"
      => \A o \in batch'[r], x \in Free : <<x, o>> \in older => x \in batch'[r]

\* While an order is free, it waits only for older ones (ORDER BY created_at, LIMIT).
OldestFirst == [][NobodyOvertaken]_allVars

\* A run leaves no order that there is room for, nor takes more than its batch size.
BatchesFull ==
  \A r \in RunIds :
    call[r] = "none" /\ call'[r] = "open"
      => /\ Cardinality(batch'[r]) <= batchSize
         /\ batch'[r] # Free => Cardinality(batch'[r]) = batchSize

\* Every order that is committed and PENDING leaves PENDING, however many younger
\* ones are created and however often its row is skipped, unless the worker is
\* stopped or its batch size is not positive (README: the worker moves PENDING
\* orders to PROCESSING).
NobodyStarves ==
  \A o \in Orders :
    (o \in waiting \ open) ~> (o \notin waiting \/ ctxDone \/ batchSize < 1)
=============================================================================
