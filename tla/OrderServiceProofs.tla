------------------------- MODULE OrderServiceProofs -------------------------
(***************************************************************************)
(* Proofs about OrderService, for any number of requests, worker runs,     *)
(* orders and failures: Inv is an inductive invariant, the service         *)
(* implements OrderLifecycle, and AnswerInv is inductive relative to Inv:  *)
(* what requests are told of their effect and of their orders is so.       *)
(***************************************************************************)
EXTENDS OrderService, FiniteSetTheorems, WellFoundedInduction, TLAPS

-----------------------------------------------------------------------------
(* Frame lemmas: what a step that leaves some variables alone preserves. *)

\* The audit trail and the keys are about the tables only.
LEMMA TablesFrame ==
  ASSUME Inv, UNCHANGED tables
  PROVE  AuditTrail' /\ OneOrderPerKey'
  BY DEF Inv, tables, AuditTrail, OneOrderPerKey, Exists

\* A step that writes no order and changes the request of no writer keeps every
\* lock, and what it protects.
LEMMA LocksFrame ==
  ASSUME Inv, UNCHANGED <<tables, wOrders>>,
         \A q \in Procs : wOrders[q] # {} => req'[q] = req[q]
  PROVE  LocksExclusive' /\ WritesCurrent' /\ KeysReserved'
<1>1. LocksExclusive'
  BY DEF Inv, LocksExclusive
<1>2. WritesCurrent'
  BY DEF Inv, WritesCurrent, tables, FromStatus
<1>3. KeysReserved'
  BY DEF Inv, KeysReserved, tables, CommittedDuplicate, PendingDuplicate, SameKey, Exists
<1> QED BY <1>1, <1>2, <1>3

\* The end of a transaction without effect releases its locks and no other.
LEMMA RollbackFrame ==
  ASSUME Inv, NEW p \in Procs, EndTx(p), UNCHANGED <<tables, req>>
  PROVE  LocksExclusive' /\ WritesCurrent' /\ KeysReserved'
<1>1. \A q \in Procs : wOrders'[q] \subseteq wOrders[q]
  BY DEF Inv, TypeOK, EndTx
<1>2. LocksExclusive'
  BY <1>1 DEF Inv, LocksExclusive
<1>3. WritesCurrent'
  BY <1>1 DEF Inv, WritesCurrent, tables, FromStatus
<1>4. KeysReserved'
  BY <1>1 DEF Inv, KeysReserved, tables, CommittedDuplicate, PendingDuplicate, SameKey, Exists
<1> QED BY <1>2, <1>3, <1>4

-----------------------------------------------------------------------------
(* The types that the shared steps keep. *)

ControlType == pc \in [Procs -> Labels] /\ resp \in [Procs -> Codes \cup {0}]

TxType ==
  /\ tx \in [Procs -> {"none", "open", "orphan", "indoubt"}]
  /\ wOrders \in [Procs -> SUBSET Orders]
  /\ wItems \in [Procs -> SUBSET Orders]
  /\ wEvents \in [Procs -> SUBSET Orders]

LEMMA ReplyType ==
  ASSUME TypeOK, NEW p \in Procs, NEW code \in Codes, Reply(p, code)
  PROVE  ControlType'
  BY DEF TypeOK, ControlType, Reply, Labels

LEMMA GoToType ==
  ASSUME TypeOK, NEW p \in Procs, NEW label \in Labels, GoTo(p, label)
  PROVE  ControlType'
  BY DEF TypeOK, ControlType, GoTo

LEMMA EndTxType ==
  ASSUME TypeOK, NEW p \in Procs, EndTx(p)
  PROVE  TxType'
  BY DEF TypeOK, TxType, EndTx

-----------------------------------------------------------------------------
(* The audit event of an accepted request. *)

\* The names of OrderStateMachine and those that OrderLifecycle inherits from it.
LEMMA SameNames ==
  /\ Lifecycle!NoStatus = NoStatus /\ Lifecycle!StatusPending = StatusPending
  /\ Lifecycle!StatusProcessing = StatusProcessing
  /\ Lifecycle!StatusCancelled = StatusCancelled
  /\ Lifecycle!validStatuses = validStatuses
  /\ Lifecycle!allowedTransitions = allowedTransitions
  BY DEF Lifecycle!NoStatus, NoStatus, Lifecycle!StatusPending, StatusPending,
         Lifecycle!StatusProcessing, StatusProcessing,
         Lifecycle!StatusCancelled, StatusCancelled,
         Lifecycle!StatusShipped, StatusShipped,
         Lifecycle!StatusDelivered, StatusDelivered,
         Lifecycle!validStatuses, validStatuses,
         Lifecycle!allowedTransitions, allowedTransitions

LEMMA StatusNames ==
  /\ NoStatus \notin validStatuses
  /\ StatusPending \in validStatuses
  /\ StatusProcessing \in validStatuses
  /\ StatusCancelled \in validStatuses
  BY DEF NoStatus, validStatuses, StatusPending, StatusProcessing, StatusShipped,
         StatusDelivered, StatusCancelled

LEMMA RequestType ==
  ASSUME TypeOK, NEW p \in Procs
  PROVE  /\ req[p].role \in Roles \cup {None}
         /\ req[p].customer \in Customers \cup {None}
         /\ req[p].subject \in Subjects \cup {None}
         /\ req[p].order \in Orders \cup {None}
         /\ req[p].key \in Keys \cup {None}
         /\ req[p].target \in validStatuses
         /\ req[p].op \in Ops \cup {"process", "none"}
         /\ req[p].op \in {"process", "none"} => req[p].role = "SYSTEM"
         /\ req[p].op \notin {"process", "none"} => req[p].key \in Keys
<1>1. req[p] \in Input \/ req[p] = BatchInput \/ req[p] = NoInput
  BY DEF TypeOK
<1> QED BY <1>1, StatusNames DEF Input, BatchInput, NoInput, SystemInput, Roles, Ops

LEMMA EventOfFields ==
  ASSUME TypeOK, NEW p \in Procs, Accepted(req[p]),
         req[p].op \in {"create", "cancel", "update", "process"}
  PROVE  /\ EventOf(p).id = p
         /\ EventOf(p).from = FromStatus(req[p])
         /\ EventOf(p).to = ToStatus(req[p])
         /\ ToStatus(req[p]) \in validStatuses
         /\ EventOf(p).actor = "CUSTOMER" => req[p].op \in {"create", "cancel"}
         /\ req[p].op \in {"create", "cancel"}
              => EventOf(p).actorId = req[p].customer /\ req[p].customer \in Customers
         /\ req[p].op # "create" => CanTransition(FromStatus(req[p]), ToStatus(req[p]))
         /\ req[p].op = "create" <=> FromStatus(req[p]) = NoStatus
<1>1. ToStatus(req[p]) \in validStatuses
  BY RequestType, StatusNames DEF ToStatus
<1>2. req[p].op # "create" => CanTransition(FromStatus(req[p]), ToStatus(req[p]))
  BY StatusNames DEF Accepted, FromStatus, ToStatus, CanTransition, IsValidStatus,
     allowedTransitions
<1>3. req[p].op = "create" <=> FromStatus(req[p]) = NoStatus
  BY <1>2, StatusNames DEF FromStatus, CanTransition, IsValidStatus
<1>4. EventOf(p).actor = "CUSTOMER" => req[p].op \in {"create", "cancel"}
  BY RequestType DEF EventOf, Accepted
<1> QED BY <1>1, <1>2, <1>3, <1>4, RequestType DEF EventOf, Accepted

LEMMA EventOfType ==
  ASSUME TypeOK, NEW p \in Procs, Accepted(req[p]),
         req[p].op \in {"create", "cancel", "update", "process"}
  PROVE  /\ EventOf(p) \in Lifecycle!Event
         /\ req[p].op = "process" <=> EventOf(p) \in Lifecycle!WorkerEvent
<1> DEFINE principals == Customers \cup Subjects \cup {None}
<1>1. CASE req[p].op = "create"
  <2>1. EventOf(p) = [id |-> p, actor |-> "CUSTOMER", actorId |-> req[p].customer,
                      action |-> "CREATED", from |-> NoStatus, to |-> StatusPending]
    BY <1>1 DEF EventOf, ActionOf, FromStatus, ToStatus
  <2>2. EventOf(p) \in Lifecycle!CreatedEvent
    BY <2>1, RequestType, SameNames DEF Lifecycle!CreatedEvent
  <2> QED BY <1>1, <2>1, <2>2 DEF Lifecycle!Event, Lifecycle!WorkerEvent
<1>2. CASE req[p].op = "cancel"
  <2>1. EventOf(p) = [id |-> p, actor |-> "CUSTOMER", actorId |-> req[p].customer,
                      action |-> "CANCELLED", from |-> StatusPending, to |-> StatusCancelled]
    BY <1>2 DEF EventOf, ActionOf, FromStatus, ToStatus
  <2>2. EventOf(p) \in Lifecycle!CancelledEvent
    BY <2>1, RequestType, SameNames DEF Lifecycle!CancelledEvent
  <2> QED BY <1>2, <2>1, <2>2 DEF Lifecycle!Event, Lifecycle!WorkerEvent
<1>3. CASE req[p].op = "update"
  <2> DEFINE from == FromStatus(req[p])
             to == ToStatus(req[p])
  <2>1. EventOf(p) = [id |-> p, actor |-> req[p].role, actorId |-> privilegedActorID(req[p]),
                      action |-> "STATUS_UPDATED", from |-> from, to |-> to]
    BY <1>3 DEF EventOf, ActionOf
  <2>2. req[p].role \in {"ADMIN", "SYSTEM"} /\ <<from, to>> \in allowedTransitions
    BY <1>3, EventOfFields DEF Accepted, CanTransition
  <2>3. privilegedActorID(req[p]) \in principals
    BY RequestType DEF privilegedActorID
  <2> HIDE DEF from, to
  <2> DEFINE kind(t) == [id: Procs, actor: {"ADMIN", "SYSTEM"}, actorId: principals,
                         action: {"STATUS_UPDATED"}, from: {t[1]}, to: {t[2]}]
  <2>4. EventOf(p) \in kind(<<from, to>>)
    BY <2>1, <2>2, <2>3
  <2>5. EventOf(p) \in Lifecycle!StatusUpdatedEvent
    BY <2>2, <2>4, SameNames DEF Lifecycle!StatusUpdatedEvent
  <2> QED BY <1>3, <2>1, <2>5 DEF Lifecycle!Event, Lifecycle!WorkerEvent
<1>4. CASE req[p].op = "process"
  <2>1. EventOf(p) = [id |-> p, actor |-> "SYSTEM", actorId |-> privilegedActorID(req[p]),
                      action |-> "WORKER_MOVED_TO_PROCESSING",
                      from |-> StatusPending, to |-> StatusProcessing]
    BY <1>4, RequestType DEF EventOf, ActionOf, FromStatus, ToStatus
  <2>2. privilegedActorID(req[p]) \in principals
    BY RequestType DEF privilegedActorID
  <2>3. EventOf(p) \in Lifecycle!WorkerEvent
    BY <2>1, <2>2, SameNames DEF Lifecycle!WorkerEvent
  <2> QED BY <1>4, <2>3 DEF Lifecycle!Event
<1> QED BY <1>1, <1>2, <1>3, <1>4

-----------------------------------------------------------------------------
(* Every step preserves Inv.  The shape of a transaction depends on its own *)
(* process only.                                                            *)

LEMMA OtherShapes ==
  ASSUME Inv, NEW q \in Procs,
         pc'[q] = pc[q], req'[q] = req[q], tx'[q] = tx[q],
         wOrders'[q] = wOrders[q], wItems'[q] = wItems[q], wEvents'[q] = wEvents[q]
  PROVE  TxShape(q)'
  BY DEF Inv, TxShape, Accepted, FromStatus

LEMMA InitInv == Init => Inv
<1> SUFFICES ASSUME Init PROVE Inv
  OBVIOUS
<1> USE DEF Init
<1>1. TypeOK
  BY StatusNames DEF TypeOK, Labels, Codes
<1>2. LocksExclusive /\ WritesCurrent /\ KeysReserved
  BY DEF LocksExclusive, WritesCurrent, KeysReserved
<1>3. \A p \in Procs : TxShape(p)
  BY DEF TxShape, NoInput, SystemInput
<1>4. AuditTrail /\ OneOrderPerKey
  BY DEF AuditTrail, OneOrderPerKey, Exists, NoRow
<1> QED BY <1>1, <1>2, <1>3, <1>4 DEF Inv

\* A request arrives, or a worker run starts: it is refused, or has passed the
\* checks that Accepted names.
LEMMA ArriveStep ==
  ASSUME Inv, NEW p \in Procs, NEW in \in Input \cup {BatchInput},
         NEW code \in Codes \cup {0}, NEW label \in {"begin", "read"},
         Arrive(p, in, code, label),
         code = 0 => Accepted(in),
         code = 0 /\ label = "begin" => in.op \in {"create", "update", "process"}
  PROVE  Inv'
<1>1. TypeOK'
  BY DEF Inv, TypeOK, Arrive, Reply, GoTo, tables, txvars, Labels
<1>2. wOrders[p] = {} /\ tx[p] = "none"
  <2>1. tx[p] \in {"none", "open", "orphan", "indoubt"}
    BY DEF Inv, TypeOK
  <2> QED BY <2>1 DEF Inv, TxShape, Arrive
<1>3. LocksExclusive' /\ WritesCurrent' /\ KeysReserved'
  <2>1. \A q \in Procs : wOrders[q] # {} => req'[q] = req[q]
    BY <1>2 DEF Inv, TypeOK, Arrive
  <2> QED BY <2>1, LocksFrame DEF Arrive, txvars
<1>4. AuditTrail' /\ OneOrderPerKey'
  BY TablesFrame DEF Arrive
<1>5. ASSUME NEW q \in Procs PROVE TxShape(q)'
  <2>1. CASE q # p
    BY <2>1, OtherShapes DEF Inv, TypeOK, Arrive, Reply, GoTo, txvars
  <2>2. CASE q = p
    <3>1. /\ req'[p] = in /\ tx'[p] = "none" /\ wOrders'[p] = {}
          /\ wItems'[p] = {} /\ wEvents'[p] = {}
      BY <1>2 DEF Inv, TypeOK, TxShape, Arrive, txvars
    <3>2. pc'[p] = IF code # 0 THEN "done" ELSE label
      BY DEF Inv, TypeOK, Arrive, Reply, GoTo
    <3> QED BY <2>2, <3>1, <3>2 DEF TxShape, Accepted, FromStatus
  <2> QED BY <2>1, <2>2
<1> QED BY <1>1, <1>3, <1>4, <1>5 DEF Inv

\* A call that changes neither tables nor locks: it reads, it begins the
\* transaction, or it adds the items of a new order to it.
LEMMA CallStep ==
  ASSUME Inv, NEW p \in Procs,
         \/ GetRead(p) \/ CancelRead(p) \/ BeginTx(p) \/ InsertItems(p)
         \/ resolveStatusUpdateNoRows(p) \/ Hydrate(p)
  PROVE  Inv'
<1> USE DEF GetRead, CancelRead, BeginTx, InsertItems, resolveStatusUpdateNoRows, Hydrate
<1>1. UNCHANGED <<tables, req, wOrders, wEvents>>
  BY DEF txvars
<1>2. LocksExclusive' /\ WritesCurrent' /\ KeysReserved' /\ AuditTrail' /\ OneOrderPerKey'
  BY <1>1, LocksFrame, TablesFrame
<1>3. CASE GetRead(p) \/ CancelRead(p) \/ resolveStatusUpdateNoRows(p) \/ Hydrate(p)
  <2>1. TypeOK'
    <3>1. ControlType'
      BY <1>3, ReplyType, GoToType DEF Inv, Labels, Codes
    <3> QED BY <3>1, <1>1, <1>3 DEF Inv, TypeOK, ControlType, tables, txvars
  <2>2. ASSUME NEW q \in Procs PROVE TxShape(q)'
    <3>1. CASE q # p
      BY <3>1, <1>3, OtherShapes DEF Inv, TypeOK, Reply, GoTo, txvars
    <3>2. CASE q = p
      <4>1. \/ pc'[p] \in {"done", "hydrate"}
            \/ pc'[p] = "begin" /\ req[p].op = "cancel"
        BY <1>3 DEF Inv, TypeOK, Reply, GoTo
      <4>2. pc[p] \in {"read", "resolve", "hydrate"} /\ tx[p] = "none"
        BY <1>3 DEF Inv, TypeOK, TxShape
      <4>3. UNCHANGED txvars
        BY <1>3
      <4> QED BY <3>2, <4>1, <4>2, <4>3, <1>1 DEF Inv, TxShape, Accepted, FromStatus, txvars
    <3> QED BY <3>1, <3>2
  <2> QED BY <1>2, <2>1, <2>2 DEF Inv
<1>4. CASE BeginTx(p)
  <2>1. req[p].op \in {"create", "cancel", "update", "process"} /\ Accepted(req[p])
    BY <1>4 DEF Inv, TxShape
  <2>2. TypeOK'
    BY <1>4, <2>1 DEF Inv, TypeOK, GoTo, tables, Labels, FirstStatement
  <2>3. ASSUME NEW q \in Procs PROVE TxShape(q)'
    <3>1. CASE q # p
      BY <3>1, <1>4, OtherShapes DEF Inv, TypeOK, GoTo
    <3>2. CASE q = p
      <4>1. pc'[p] = FirstStatement(req[p].op) /\ tx'[p] = "open"
        BY <1>4 DEF Inv, TypeOK, GoTo
      <4>2. wOrders[p] = {} /\ wItems[p] = {} /\ wEvents[p] = {}
        BY <1>4 DEF Inv, TypeOK, TxShape
      <4> QED BY <3>2, <2>1, <4>1, <4>2, <1>4
              DEF TxShape, Accepted, FromStatus, FirstStatement
    <3> QED BY <3>1, <3>2
  <2> QED BY <1>2, <2>2, <2>3 DEF Inv
<1>5. CASE InsertItems(p)
  <2>1. TypeOK'
    BY <1>5 DEF Inv, TypeOK, GoTo, tables, Labels
  <2>2. ASSUME NEW q \in Procs PROVE TxShape(q)'
    <3>1. CASE q # p
      BY <3>1, <1>5, OtherShapes DEF Inv, TypeOK, GoTo
    <3>2. CASE q = p
      <4>1. pc'[p] = "log" /\ wItems'[p] = wOrders[p]
        BY <1>5 DEF Inv, TypeOK, GoTo
      <4> QED BY <3>2, <4>1, <1>5 DEF Inv, TxShape, Accepted, FromStatus
    <3> QED BY <3>1, <3>2
  <2> QED BY <1>2, <2>1, <2>2 DEF Inv
<1> QED BY <1>3, <1>4, <1>5

\* A call that fails leaves its transaction, and its locks, to the database.
LEMMA FailureStep ==
  ASSUME Inv, NEW p \in Procs, Failure(p)
  PROVE  Inv'
<1> USE DEF Failure, CallFails, CommitFails
<1>1. UNCHANGED <<tables, req, wOrders, wItems, wEvents>>
  OBVIOUS
<1>2. LocksExclusive' /\ WritesCurrent' /\ KeysReserved' /\ AuditTrail' /\ OneOrderPerKey'
  BY <1>1, LocksFrame, TablesFrame
<1>3. TypeOK'
  <2>1. ControlType'
    BY ReplyType DEF Inv, Codes
  <2>2. TxType'
    BY <1>1 DEF Inv, TypeOK, TxType
  <2> QED BY <2>1, <2>2, <1>1 DEF Inv, TypeOK, ControlType, TxType, tables
<1>4. ASSUME NEW q \in Procs PROVE TxShape(q)'
  <2>1. CASE q # p
    BY <2>1, OtherShapes DEF Inv, TypeOK, Reply
  <2>2. CASE q = p
    <3>1. pc[p] \notin {"idle", "done"} /\ pc'[p] = "done"
      BY DEF Inv, TypeOK, Reply
    <3>2. \/ pc[p] = "commit" /\ tx[p] = "open" /\ tx'[p] = "indoubt"
          \/ tx[p] = "open" /\ tx'[p] = "orphan"
          \/ tx[p] = "none" /\ tx'[p] = "none"
      BY DEF Inv, TypeOK, TxShape
    <3> QED BY <2>2, <1>1, <3>1, <3>2 DEF Inv, TxShape, Accepted, FromStatus
  <2> QED BY <2>1, <2>2
<1> QED BY <1>2, <1>3, <1>4 DEF Inv

\* A transaction that ends without effect releases what it held.
LEMMA RollbackStep ==
  ASSUME Inv, NEW p \in Procs,
         InsertConflict(p) \/ CancelNoRows(p) \/ UpdateNoRows(p) \/ Reap(p)
  PROVE  Inv'
<1> USE DEF InsertConflict, CancelNoRows, UpdateNoRows, Reap, Rollback
<1>1. EndTx(p) /\ UNCHANGED <<tables, req>>
  OBVIOUS
<1>2. LocksExclusive' /\ WritesCurrent' /\ KeysReserved' /\ AuditTrail' /\ OneOrderPerKey'
  BY <1>1, RollbackFrame, TablesFrame
<1>3. TypeOK'
  <2>1. ControlType'
    <3>1. CASE Reap(p)
      BY <3>1 DEF Inv, TypeOK, ControlType
    <3>2. CASE InsertConflict(p) \/ CancelNoRows(p) \/ UpdateNoRows(p)
      BY <3>2, ReplyType, GoToType DEF Inv, Labels, Codes
    <3> QED BY <3>1, <3>2
  <2> QED BY <2>1, <1>1, EndTxType DEF Inv, TypeOK, ControlType, TxType, tables
<1>4. ASSUME NEW q \in Procs PROVE TxShape(q)'
  <2>1. CASE q # p
    BY <2>1, OtherShapes DEF Inv, TypeOK, EndTx, Reply, GoTo
  <2>2. CASE q = p
    <3>1. /\ tx'[p] = "none" /\ wOrders'[p] = {} /\ wItems'[p] = {} /\ wEvents'[p] = {}
          /\ req'[p] = req[p]
      BY <1>1 DEF Inv, TypeOK, EndTx
    <3>2. \/ pc'[p] = "done"
          \/ pc'[p] = "resolve" /\ pc[p] = "update"
      BY DEF Inv, TypeOK, TxShape, Reply, GoTo
    <3> QED BY <2>2, <3>1, <3>2 DEF Inv, TxShape, Accepted, FromStatus
  <2> QED BY <2>1, <2>2
<1> QED BY <1>2, <1>3, <1>4 DEF Inv

\* A statement that writes the orders S locks them, when no other transaction
\* holds them and they are as the request expects.
LEMMA LocksTaken ==
  ASSUME Inv, NEW p \in Procs, NEW S \in SUBSET Orders,
         wOrders' = [wOrders EXCEPT ![p] = S], UNCHANGED <<tables, req>>,
         \A o \in S : /\ ~LockedByOther(p, o)
                      /\ orders[o].status = FromStatus(req[p])
                      /\ req[p].op = "cancel" => orders[o].customer = req[p].customer,
         req[p].op = "create" => ~CommittedDuplicate(p) /\ ~PendingDuplicate(p)
  PROVE  LocksExclusive' /\ WritesCurrent' /\ KeysReserved'
<1>1. /\ wOrders'[p] = S
      /\ \A q \in Procs : q # p => wOrders'[q] = wOrders[q]
  BY DEF Inv, TypeOK
<1>2. LocksExclusive'
  BY <1>1 DEF Inv, LocksExclusive, LockedByOther
<1>3. WritesCurrent'
  BY <1>1 DEF Inv, WritesCurrent, tables, FromStatus
<1>4. ASSUME NEW q \in Procs, req[q].op = "create", wOrders'[q] # {}
      PROVE  ~CommittedDuplicate(q)' /\ ~PendingDuplicate(q)'
  <2>1. ~CommittedDuplicate(q)
    BY <1>1, <1>4 DEF Inv, KeysReserved
  <2>2. ~CommittedDuplicate(q)'
    BY <2>1 DEF CommittedDuplicate, SameKey, Exists, tables
  <2>3. ASSUME NEW r \in Procs \ {q}, req[r].op = "create", wOrders'[r] # {},
               SameKey(req[r].customer, req[r].key, q)
        PROVE  FALSE
    <3>1. CASE q # p /\ r # p
      BY <1>1, <1>4, <2>3, <3>1 DEF Inv, KeysReserved, PendingDuplicate
    <3>2. CASE q = p
      BY <1>1, <1>4, <2>3, <3>2 DEF PendingDuplicate
    <3>3. CASE r = p
      BY <1>1, <1>4, <2>3, <3>3 DEF PendingDuplicate, SameKey
    <3> QED BY <3>1, <3>2, <3>3
  <2>4. ~PendingDuplicate(q)'
    BY <2>3 DEF PendingDuplicate, SameKey
  <2> QED BY <2>2, <2>4
<1>5. KeysReserved'
  BY <1>4 DEF KeysReserved
<1> QED BY <1>2, <1>3, <1>5

LEMMA WriteStep ==
  ASSUME Inv, NEW p \in Procs,
         \/ InsertOrder(p) \/ CancelPendingOrder(p)
         \/ UpdateOrderStatusIfCurrentStatusMatches(p) \/ WorkerPickAndMove(p)
  PROVE  Inv'
<1> USE DEF InsertOrder, CancelPendingOrder, UpdateOrderStatusIfCurrentStatusMatches,
            WriteOrder, WorkerPickAndMove
<1>1. /\ UNCHANGED <<tables, req, tx, wItems, wEvents>>
      /\ wItems[p] = {} /\ wEvents[p] = {} /\ tx[p] = "open" /\ Accepted(req[p])
  BY DEF Inv, TxShape
<1>2. PICK S \in SUBSET Orders :
        /\ wOrders' = [wOrders EXCEPT ![p] = S]
        /\ \/ /\ pc[p] = "insert" /\ req[p].op = "create" /\ GoTo(p, "items")
              /\ \E o \in Orders : S = {o} /\ ~Exists(o) /\ ~LockedByOther(p, o)
              /\ ~CommittedDuplicate(p) /\ ~PendingDuplicate(p)
           \/ /\ pc[p] \in {"cancel", "update"} /\ req[p].op = pc[p] /\ GoTo(p, "log")
              /\ S = {req[p].order} /\ Matches(p) /\ ~LockedByOther(p, req[p].order)
           \/ /\ pc[p] = "pick" /\ req[p].op = "process" /\ S \subseteq Pickable(p)
              /\ \/ S = {} /\ GoTo(p, "commit")
                 \/ S # {} /\ GoTo(p, "log")
  <2>1. CASE InsertOrder(p)
    BY <2>1 DEF Inv, TxShape
  <2>2. CASE CancelPendingOrder(p) \/ UpdateOrderStatusIfCurrentStatusMatches(p)
    BY <2>2 DEF Inv, TxShape, Matches, Exists
  <2>3. CASE WorkerPickAndMove(p)
    BY <2>3 DEF Inv, TxShape, OldestOf, Pickable
  <2> QED BY <2>1, <2>2, <2>3
<1>3. \A o \in S : /\ ~LockedByOther(p, o)
                   /\ orders[o].status = FromStatus(req[p])
                   /\ req[p].op = "cancel" => orders[o].customer = req[p].customer
  BY <1>2 DEF Matches, Pickable, Exists, FromStatus
<1>4. req[p].op = "create" => ~CommittedDuplicate(p) /\ ~PendingDuplicate(p)
  BY <1>2
<1>5. LocksExclusive' /\ WritesCurrent' /\ KeysReserved' /\ AuditTrail' /\ OneOrderPerKey'
  BY <1>1, <1>2, <1>3, <1>4, LocksTaken, TablesFrame
<1>6. TypeOK'
  <2>1. ControlType'
    BY <1>2, GoToType DEF Inv, Labels
  <2> QED BY <2>1, <1>1, <1>2 DEF Inv, TypeOK, ControlType, tables
<1>7. ASSUME NEW q \in Procs PROVE TxShape(q)'
  <2>1. CASE q # p
    BY <2>1, <1>1, <1>2, OtherShapes DEF Inv, TypeOK, GoTo
  <2>2. CASE q = p
    <3>1. /\ wOrders'[p] = S
          /\ \/ req[p].op = "create" /\ pc'[p] = "items" /\ S # {}
             \/ req[p].op \in {"cancel", "update", "process"} /\ pc'[p] = "log" /\ S # {}
             \/ req[p].op = "process" /\ pc'[p] = "commit" /\ S = {}
      BY <1>2 DEF Inv, TypeOK, GoTo
    <3>2. req[p].op # "process" => \A o1, o2 \in S : o1 = o2
      BY <1>2
    <3> QED BY <2>2, <1>1, <3>1, <3>2 DEF TxShape, Accepted, FromStatus
  <2> QED BY <2>1, <2>2
<1> QED BY <1>5, <1>6, <1>7 DEF Inv

LEMMA CreateOrderEventStep ==
  ASSUME Inv, NEW p \in Procs, CreateOrderEvent(p)
  PROVE  Inv'
<1>1. UNCHANGED <<tables, req, tx, wOrders, wItems>> /\ pc[p] = "log"
  BY DEF CreateOrderEvent
<1>2. PICK o \in wOrders[p] :
        /\ wEvents' = [wEvents EXCEPT ![p] = @ \cup {o}]
        /\ GoTo(p, IF wOrders[p] \subseteq wEvents[p] \cup {o} THEN "commit" ELSE "log")
  BY DEF CreateOrderEvent
<1>3. LocksExclusive' /\ WritesCurrent' /\ KeysReserved' /\ AuditTrail' /\ OneOrderPerKey'
  BY <1>1, LocksFrame, TablesFrame
<1>4. TypeOK'
  <2>1. ControlType'
    BY <1>2, GoToType DEF Inv, Labels
  <2> QED BY <2>1, <1>1, <1>2 DEF Inv, TypeOK, ControlType, tables
<1>5. ASSUME NEW q \in Procs PROVE TxShape(q)'
  <2>1. CASE q # p
    BY <2>1, <1>1, <1>2, OtherShapes DEF Inv, TypeOK, GoTo
  <2>2. CASE q = p
    <3>1. /\ wEvents'[p] = wEvents[p] \cup {o}
          /\ pc'[p] = IF wOrders[p] \subseteq wEvents[p] \cup {o} THEN "commit" ELSE "log"
      BY <1>2 DEF Inv, TypeOK, GoTo
    <3> QED BY <2>2, <1>1, <3>1 DEF Inv, TxShape, Accepted, FromStatus
  <2> QED BY <2>1, <2>2
<1> QED BY <1>3, <1>4, <1>5 DEF Inv

-----------------------------------------------------------------------------
(* A commit, at once or late. *)

\* What is known of a transaction that the database commits.
LEMMA ReadyToCommit ==
  ASSUME Inv, NEW p \in Procs, pc[p] = "commit" \/ tx[p] = "indoubt"
  PROVE  /\ Accepted(req[p])
         /\ req[p].op \in {"create", "cancel", "update", "process"}
         /\ wEvents[p] = wOrders[p]
         /\ wItems[p] = IF req[p].op = "create" THEN wOrders[p] ELSE {}
         /\ wOrders[p] \subseteq Orders
         /\ \A o \in wOrders[p] : /\ orders[o].status = FromStatus(req[p])
                                  /\ req[p].op = "create" <=> ~Exists(o)
                                  /\ req[p].op = "cancel"
                                       => orders[o].customer = req[p].customer
<1>1. /\ Accepted(req[p])
      /\ req[p].op \in {"create", "cancel", "update", "process"}
      /\ wEvents[p] = wOrders[p]
      /\ wItems[p] = IF req[p].op = "create" THEN wOrders[p] ELSE {}
      /\ wOrders[p] \subseteq Orders
  BY DEF Inv, TypeOK, TxShape
<1>2. \A o \in wOrders[p] : /\ orders[o].status = FromStatus(req[p])
                            /\ req[p].op = "cancel" => orders[o].customer = req[p].customer
  BY DEF Inv, WritesCurrent
<1>3. req[p].op = "create" <=> FromStatus(req[p]) = NoStatus
  BY <1>1, EventOfFields DEF Inv
<1> QED BY <1>1, <1>2, <1>3 DEF Exists

LEMMA RowOfType ==
  ASSUME Inv, NEW p \in Procs, pc[p] = "commit" \/ tx[p] = "indoubt",
         NEW o \in wOrders[p]
  PROVE  /\ RowOf(p, o) \in Row
         /\ RowOf(p, o).status = ToStatus(req[p])
         /\ req[p].op = "create" => /\ RowOf(p, o).customer = req[p].customer
                                    /\ RowOf(p, o).key = req[p].key
         /\ req[p].op # "create" => /\ RowOf(p, o).customer = orders[o].customer
                                    /\ RowOf(p, o).key = orders[o].key
<1>1. ToStatus(req[p]) \in validStatuses /\ o \in Orders
  BY ReadyToCommit, EventOfFields DEF Inv
<1>2. CASE req[p].op = "create"
  <2>1. req[p].customer \in Customers /\ req[p].key \in Keys
    BY <1>2, ReadyToCommit, EventOfFields, RequestType DEF Inv
  <2>2. RowOf(p, o) = [customer |-> req[p].customer, key |-> req[p].key,
                       status |-> ToStatus(req[p])]
    BY <1>2 DEF RowOf, ToStatus
  <2> QED BY <1>1, <1>2, <2>1, <2>2 DEF Row
<1>3. CASE req[p].op # "create"
  <2>1. orders[o] \in Row
    BY <1>1, <1>3, ReadyToCommit DEF Inv, TypeOK, Exists, NoRow
  <2> QED BY <1>1, <1>3, <2>1 DEF RowOf, Row
<1> QED BY <1>2, <1>3

LEMMA ApplyRows ==
  ASSUME Inv, NEW p \in Procs, pc[p] = "commit" \/ tx[p] = "indoubt", ApplyTx(p),
         NEW o \in Orders
  PROVE  /\ o \in wOrders[p] => /\ orders'[o] = RowOf(p, o) /\ Exists(o)'
                                /\ events'[o] = Append(events[o], EventOf(p))
         /\ o \notin wOrders[p] => /\ orders'[o] = orders[o] /\ events'[o] = events[o]
                                   /\ Exists(o)' <=> Exists(o)
         /\ o \in items' <=> \/ o \in items
                             \/ o \in wOrders[p] /\ req[p].op = "create"
<1>1. orders'[o] = IF o \in wOrders[p] THEN RowOf(p, o) ELSE orders[o]
  BY DEF ApplyTx
<1>2. events'[o] = IF o \in wOrders[p] THEN Append(events[o], EventOf(p)) ELSE events[o]
  BY ReadyToCommit DEF ApplyTx
<1>3. o \in wOrders[p] => RowOf(p, o).status # NoStatus
  BY RowOfType, StatusNames DEF Row
<1>4. o \in items' <=> \/ o \in items
                       \/ o \in wOrders[p] /\ req[p].op = "create"
  BY ReadyToCommit DEF ApplyTx
<1> QED BY <1>1, <1>2, <1>3, <1>4 DEF Exists

LEMMA ApplyTypes ==
  ASSUME Inv, NEW p \in Procs, pc[p] = "commit" \/ tx[p] = "indoubt", ApplyTx(p)
  PROVE  /\ orders' \in [Orders -> Row \cup {NoRow}]
         /\ items' \subseteq Orders
         /\ events' \in [Orders -> Seq(Lifecycle!Event)]
         /\ TxType'
<1>1. EventOf(p) \in Lifecycle!Event
  BY ReadyToCommit, EventOfType DEF Inv
<1>2. \A o \in Orders : orders'[o] \in Row \cup {NoRow}
  BY ApplyRows, RowOfType DEF Inv, TypeOK
<1>3. \A o \in Orders : events'[o] \in Seq(Lifecycle!Event)
  <2> SUFFICES ASSUME NEW o \in Orders PROVE events'[o] \in Seq(Lifecycle!Event)
    OBVIOUS
  <2>1. events[o] \in Seq(Lifecycle!Event)
    BY DEF Inv, TypeOK
  <2> HIDE DEF Lifecycle!Event
  <2>2. Append(events[o], EventOf(p)) \in Seq(Lifecycle!Event)
    BY <1>1, <2>1
  <2> QED BY <2>1, <2>2, ApplyRows
<1>4. items' \subseteq Orders
  BY ReadyToCommit DEF ApplyTx, Inv, TypeOK
<1>5. TxType'
  BY EndTxType DEF ApplyTx, Inv
<1>6. orders' = [o \in Orders |-> orders'[o]] /\ events' = [o \in Orders |-> events'[o]]
  BY DEF ApplyTx
<1> QED BY <1>2, <1>3, <1>4, <1>5, <1>6

LEMMA ApplyAuditTrail ==
  ASSUME Inv, NEW p \in Procs, pc[p] = "commit" \/ tx[p] = "indoubt", ApplyTx(p)
  PROVE  AuditTrail'
<1> DEFINE e == EventOf(p)
<1>1. SUFFICES ASSUME NEW o \in Orders
      PROVE  /\ Exists(o)' <=> Len(events'[o]) > 0
             /\ Exists(o)' <=> o \in items'
             /\ Len(events'[o]) > 0 => /\ events'[o][1].from = NoStatus
                                       /\ events'[o][Len(events'[o])].to = orders'[o].status
             /\ \A i \in 2..Len(events'[o]) :
                  /\ events'[o][i].from = events'[o][i - 1].to
                  /\ CanTransition(events'[o][i].from, events'[o][i].to)
             /\ \A i \in 1..Len(events'[o]) :
                  events'[o][i].actor = "CUSTOMER"
                    => events'[o][i].actorId = orders'[o].customer
  BY DEF AuditTrail
<1>2. /\ Exists(o) <=> Len(events[o]) > 0
      /\ Exists(o) <=> o \in items
      /\ Len(events[o]) > 0 => /\ events[o][1].from = NoStatus
                               /\ events[o][Len(events[o])].to = orders[o].status
      /\ \A i \in 2..Len(events[o]) : /\ events[o][i].from = events[o][i - 1].to
                                      /\ CanTransition(events[o][i].from, events[o][i].to)
      /\ \A i \in 1..Len(events[o]) : events[o][i].actor = "CUSTOMER"
                                        => events[o][i].actorId = orders[o].customer
  BY DEF Inv, AuditTrail
<1>3. CASE o \notin wOrders[p]
  BY <1>2, <1>3, ApplyRows
<1>4. CASE o \in wOrders[p]
  <2>1. /\ orders'[o] = RowOf(p, o) /\ Exists(o)'
        /\ events'[o] = Append(events[o], e)
        /\ o \in items' <=> o \in items \/ req[p].op = "create"
    BY <1>4, ApplyRows
  <2>2. /\ e.from = FromStatus(req[p]) /\ e.to = ToStatus(req[p])
        /\ req[p].op # "create" => CanTransition(e.from, e.to)
        /\ e.actor = "CUSTOMER" => /\ req[p].op \in {"create", "cancel"}
                                   /\ e.actorId = req[p].customer
        /\ req[p].op = "create" <=> e.from = NoStatus
    BY ReadyToCommit, EventOfFields DEF Inv
  <2>3. /\ orders[o].status = e.from
        /\ req[p].op = "create" <=> ~Exists(o)
        /\ req[p].op = "cancel" => orders[o].customer = req[p].customer
    BY <1>4, <2>2, ReadyToCommit
  <2>4. /\ RowOf(p, o).status = e.to
        /\ req[p].op = "create" => RowOf(p, o).customer = req[p].customer
        /\ req[p].op # "create" => RowOf(p, o).customer = orders[o].customer
    BY <1>4, <2>2, RowOfType
  <2>5. events[o] \in Seq(Lifecycle!Event)
    BY DEF Inv, TypeOK
  <2> DEFINE n == Len(events[o])
             new == Append(events[o], e)
  <2> HIDE DEF e, Lifecycle!Event
  <2>6. /\ n \in Nat /\ Len(new) = n + 1 /\ new[n + 1] = e
        /\ \A i \in 1..n : new[i] = events[o][i]
    BY <2>5
  <2> HIDE DEF new, n
  <2>7. n = 0 <=> req[p].op = "create"
    BY <1>2, <2>3, <2>6 DEF n
  <2>8. new[1].from = NoStatus /\ new[n + 1].to = orders'[o].status
    BY <1>2, <2>1, <2>2, <2>4, <2>6, <2>7 DEF n
  <2>9. ASSUME NEW i \in 2..(n + 1)
        PROVE  new[i].from = new[i - 1].to /\ CanTransition(new[i].from, new[i].to)
    <3>1. CASE i \in 2..n
      BY <1>2, <2>6, <3>1 DEF n
    <3>2. CASE i = n + 1
      <4>1. n > 0 /\ new[i - 1] = events[o][n]
        BY <2>6, <3>2
      <4> QED BY <1>2, <2>2, <2>3, <2>6, <2>7, <3>2, <4>1 DEF n
    <3> QED BY <2>6, <3>1, <3>2
  <2>10. ASSUME NEW i \in 1..(n + 1), new[i].actor = "CUSTOMER"
         PROVE  new[i].actorId = orders'[o].customer
    <3>1. CASE i \in 1..n
      <4>1. req[p].op # "create"
        BY <2>6, <2>7, <3>1
      <4> QED BY <1>2, <2>1, <2>4, <2>6, <2>10, <3>1, <4>1 DEF n
    <3>2. CASE i = n + 1
      BY <2>1, <2>2, <2>3, <2>4, <2>6, <2>10, <3>2
    <3> QED BY <2>6, <3>1, <3>2
  <2> QED BY <1>2, <2>1, <2>3, <2>6, <2>8, <2>9, <2>10 DEF new
<1> QED BY <1>3, <1>4

LEMMA ApplyKeys ==
  ASSUME Inv, NEW p \in Procs, pc[p] = "commit" \/ tx[p] = "indoubt", ApplyTx(p),
         UNCHANGED req
  PROVE  KeysReserved' /\ OneOrderPerKey'
<1> DEFINE key(o) == <<orders[o].customer, orders[o].key>>
           reqKey(q) == <<req[q].customer, req[q].key>>
\* Only a creation makes an order exist, or gives it a key.
<1>1. ASSUME NEW o \in Orders, Exists(o)'
      PROVE  \/ Exists(o) /\ key(o)' = key(o)
             \/ o \in wOrders[p] /\ req[p].op = "create" /\ key(o)' = reqKey(p)
  <2>1. CASE o \notin wOrders[p]
    BY <1>1, <2>1, ApplyRows
  <2>2. CASE o \in wOrders[p]
    BY <2>2, ApplyRows, RowOfType, ReadyToCommit
  <2> QED BY <2>1, <2>2
<1>2. ASSUME NEW o \in Orders, Exists(o), req[p].op = "create", wOrders[p] # {}
      PROVE  key(o) # reqKey(p)
  BY <1>2 DEF Inv, KeysReserved, CommittedDuplicate, SameKey
<1>3. OneOrderPerKey'
  <2> SUFFICES ASSUME NEW o1 \in Orders, NEW o2 \in Orders,
                      Exists(o1)', Exists(o2)', o1 # o2
               PROVE  key(o1)' # key(o2)'
    BY DEF OneOrderPerKey
  <2>1. ~(o1 \in wOrders[p] /\ o2 \in wOrders[p] /\ req[p].op = "create")
    BY DEF Inv, TxShape
  <2>2. Exists(o1) /\ Exists(o2) => key(o1) # key(o2)
    BY DEF Inv, OneOrderPerKey
  <2> QED BY <1>1, <1>2, <2>1, <2>2
<1>4. ASSUME NEW q \in Procs, req'[q].op = "create", wOrders'[q] # {}
      PROVE  ~CommittedDuplicate(q)' /\ ~PendingDuplicate(q)'
  <2>1. q # p /\ req[q].op = "create" /\ wOrders'[q] = wOrders[q] /\ wOrders[q] # {}
    BY <1>4 DEF ApplyTx, EndTx, Inv, TypeOK
  <2>2. /\ \A o \in Orders : Exists(o) => key(o) # reqKey(q)
        /\ \A r \in Procs \ {q} : req[r].op = "create" /\ wOrders[r] # {}
                                    => reqKey(r) # reqKey(q)
    BY <2>1 DEF Inv, KeysReserved, CommittedDuplicate, PendingDuplicate, SameKey
  <2>3. \A o \in Orders : Exists(o)' => key(o)' # reqKey(q)
    BY <1>1, <2>1, <2>2
  <2>4. \A r \in Procs : wOrders'[r] # {} => wOrders[r] # {}
    BY DEF ApplyTx, EndTx, Inv, TypeOK
  <2>5. ~CommittedDuplicate(q)'
    BY <2>3 DEF CommittedDuplicate, SameKey
  <2>6. ~PendingDuplicate(q)'
    BY <2>2, <2>4 DEF PendingDuplicate, SameKey
  <2> QED BY <2>5, <2>6
<1>5. KeysReserved'
  BY <1>4 DEF KeysReserved
<1> QED BY <1>3, <1>5

LEMMA ApplyStep ==
  ASSUME Inv, NEW p \in Procs, Commit(p) \/ LateCommit(p)
  PROVE  Inv'
<1> USE DEF Commit, LateCommit
<1>1. /\ ApplyTx(p) /\ UNCHANGED req
      /\ pc[p] = "commit" \/ tx[p] = "indoubt"
  OBVIOUS
<1>2. AuditTrail' /\ KeysReserved' /\ OneOrderPerKey'
  BY <1>1, ApplyAuditTrail, ApplyKeys
<1>3. TypeOK'
  <2>1. ControlType'
    <3>1. CASE LateCommit(p)
      BY <3>1 DEF Inv, TypeOK, ControlType
    <3>2. CASE Commit(p)
      BY <3>2, ReplyType, GoToType DEF Inv, AfterCommit, Labels, Codes
    <3> QED BY <3>1, <3>2
  <2> QED BY <1>1, <2>1, ApplyTypes DEF Inv, TypeOK, ControlType, TxType
<1>4. /\ wOrders'[p] = {} /\ wItems'[p] = {} /\ wEvents'[p] = {} /\ tx'[p] = "none"
      /\ \A q \in Procs : q # p => wOrders'[q] = wOrders[q]
  BY <1>1 DEF ApplyTx, EndTx, Inv, TypeOK
<1>5. LocksExclusive'
  BY <1>4 DEF Inv, LocksExclusive
<1>6. WritesCurrent'
  <2> SUFFICES ASSUME NEW q \in Procs, NEW o \in wOrders'[q]
               PROVE  /\ orders'[o].status = FromStatus(req'[q])
                      /\ req'[q].op = "cancel" => orders'[o].customer = req'[q].customer
    BY DEF WritesCurrent, FromStatus
  <2>1. q # p /\ o \in wOrders[q] /\ o \in Orders
    BY <1>4 DEF Inv, TypeOK
  <2>2. o \notin wOrders[p]
    BY <2>1 DEF Inv, LocksExclusive
  <2>3. orders'[o] = orders[o]
    BY <1>1, <2>1, <2>2, ApplyRows
  <2> QED BY <1>1, <2>1, <2>3 DEF Inv, WritesCurrent
<1>7. ASSUME NEW q \in Procs PROVE TxShape(q)'
  <2>1. CASE q # p
    BY <1>1, <2>1, OtherShapes DEF Inv, TypeOK, ApplyTx, EndTx, AfterCommit, Reply, GoTo
  <2>2. CASE q = p
    <3>1. pc'[p] \in {"done", "hydrate"} /\ req'[p] = req[p] /\ Accepted(req[p])
      BY <1>1, ReadyToCommit DEF Inv, TypeOK, TxShape, AfterCommit, Reply, GoTo
    <3> QED BY <2>2, <1>4, <3>1 DEF TxShape, Accepted, FromStatus
  <2> QED BY <2>1, <2>2
<1> QED BY <1>2, <1>3, <1>5, <1>6, <1>7 DEF Inv

-----------------------------------------------------------------------------
(* The inductive invariant. *)

LEMMA ReceiveStep ==
  ASSUME Inv, NEW p \in Procs, NEW in \in Inputs, Receive(p, in)
  PROVE  Inv'
<1>1. in \in Input
  BY InputsAssumption
<1>2. CASE CreateOrder(p, in)
  <2> DEFINE code == IF in.role = None \/ in.customer = None THEN 401
                     ELSE IF in.form = "malformed" THEN 400
                     ELSE IF in.form = "overflow" THEN 500
                     ELSE 0
  <2>1. in.op = "create" /\ Arrive(p, in, code, "begin")
    BY <1>2 DEF CreateOrder
  <2>2. code \in Codes \cup {0} /\ (code = 0 => Accepted(in))
    BY <2>1 DEF Codes, Accepted
  <2> HIDE DEF code
  <2> QED BY <1>1, <2>1, <2>2, ArriveStep
<1>3. CASE GetOrder(p, in) \/ CancelOrder(p, in)
  <2> DEFINE code == IF in.role = None \/ in.customer = None THEN 401
                     ELSE IF in.form = "malformed" THEN 400
                     ELSE 0
  <2>1. in.op \in {"get", "cancel"} /\ Arrive(p, in, code, "read")
    BY <1>3 DEF GetOrder, CancelOrder, ReadFirst
  <2>2. code \in Codes \cup {0} /\ (code = 0 => Accepted(in))
    BY <2>1 DEF Codes, Accepted
  <2> HIDE DEF code
  <2> QED BY <1>1, <2>1, <2>2, ArriveStep
<1>4. CASE UpdateOrderStatus(p, in)
  <2> DEFINE illegal == \/ expectedStatusError(in.target) # "nil"
                        \/ ValidateTransition(FromStatus(in), in.target) # "nil"
             code == IF in.role = None THEN 401
                     ELSE IF in.role \notin {"ADMIN", "SYSTEM"} THEN 403
                     ELSE IF in.form = "malformed" THEN 400
                     ELSE IF illegal THEN 409
                     ELSE 0
  <2>1. in.op = "update" /\ Arrive(p, in, code, "begin")
    BY <1>4 DEF UpdateOrderStatus
  <2>2. ~illegal => CanTransition(FromStatus(in), in.target)
    BY DEF ValidateTransition
  <2> HIDE DEF illegal
  <2>3. code \in Codes \cup {0} /\ (code = 0 => Accepted(in))
    BY <2>1, <2>2 DEF Codes, Accepted
  <2> HIDE DEF code
  <2> QED BY <1>1, <2>1, <2>3, ArriveStep
<1> QED BY <1>2, <1>3, <1>4 DEF Receive

LEMMA RunStep ==
  ASSUME Inv, NEW p \in Procs, ProcessPendingOrdersBatch(p)
  PROVE  Inv'
<1>1. Accepted(BatchInput) /\ BatchInput.op = "process"
  BY DEF Accepted, BatchInput, SystemInput
<1> QED BY <1>1, ArriveStep DEF ProcessPendingOrdersBatch

LEMMA StutterStep ==
  ASSUME Inv, UNCHANGED vars
  PROVE  Inv'
<1> USE DEF vars
<1>1. TypeOK'
  BY DEF Inv, TypeOK
<1>2. \A p \in Procs : TxShape(p)'
  BY OtherShapes
<1>3. LocksExclusive' /\ WritesCurrent' /\ KeysReserved' /\ AuditTrail' /\ OneOrderPerKey'
  BY LocksFrame, TablesFrame DEF tables
<1> QED BY <1>1, <1>2, <1>3 DEF Inv

LEMMA NextInv == Inv /\ [Next]_vars => Inv'
<1> SUFFICES ASSUME Inv, [Next]_vars PROVE Inv'
  OBVIOUS
<1>1. CASE \E p \in Requests, in \in Inputs : Receive(p, in)
  BY <1>1, ReceiveStep DEF Procs
<1>2. CASE \E p \in Runs : ProcessPendingOrdersBatch(p)
  BY <1>2, RunStep DEF Procs
<1>3. ASSUME NEW p \in Procs, Call(p) PROVE Inv'
  BY <1>3, CallStep, WriteStep, RollbackStep, CreateOrderEventStep, ApplyStep DEF Call
<1>4. ASSUME NEW p \in Procs, Failure(p) PROVE Inv'
  BY <1>4, FailureStep
<1>5. ASSUME NEW p \in Procs, Recovery(p) PROVE Inv'
  BY <1>5, RollbackStep, ApplyStep DEF Recovery
<1>6. CASE Quiescent \/ UNCHANGED vars
  BY <1>6, StutterStep DEF Quiescent
<1> QED BY <1>1, <1>2, <1>3, <1>4, <1>5, <1>6 DEF Next

\* Transactions in progress stay exclusive, current and complete in every
\* reachable state, whatever fails (withTx, the SQL statements and row locks).
THEOREM Invariance == Spec => []Inv
  BY InitInv, NextInv, PTL DEF Spec

\* Every variable keeps its type.
THEOREM TypeCorrect == Spec => []TypeOK
  BY Invariance, PTL DEF Inv

\* The audit trail of every order explains its status and names its owner,
\* however requests, worker runs, lost connections and late commits interleave.
THEOREM AuditTrailCorrect == Spec => []AuditTrail
  BY Invariance, PTL DEF Inv

\* No two orders of a customer have the same idempotency key.
THEOREM KeysUnique == Spec => []OneOrderPerKey
  BY Invariance, PTL DEF Inv

-----------------------------------------------------------------------------
(* Nobody is stuck. *)

\* Every set of natural numbers has a least element.
LEMMA LeastOf ==
  ASSUME NEW T \in SUBSET Nat, T # {}
  PROVE  \E n \in T : \A m \in T : n <= m
<1>1. PICK n \in T : \A m \in T : ~(<<m, n>> \in OpToRel(<, Nat))
  BY NatLessThanWellFounded, WFMin, Zenon
<1>2. \A m \in T : ~(m < n)
  BY <1>1, Zenon DEF OpToRel
<1> QED BY <1>2

\* Whatever orders there are to pick, some batch has the oldest of them: of the
\* initial segments that LIMIT allows, a largest one.
LEMMA BatchExists ==
  ASSUME NEW C \in SUBSET Orders
  PROVE  \E S \in SUBSET C : OldestOf(S, C)
<1> DEFINE oldest(S) == \A o \in S, c \in C \ S : o < c
           spare == {n \in 0..BatchSize : \E S \in SUBSET C :
                       Cardinality(S) = BatchSize - n /\ oldest(S)}
<1>1. \A S \in SUBSET C : IsFiniteSet(S) /\ Cardinality(S) \in Nat
  BY OrdersAssumption, FS_Subset, FS_CardinalityType
<1>2. BatchSize \in spare
  <2>1. Cardinality({}) = BatchSize - BatchSize /\ oldest({})
    BY BatchSizeAssumption, FS_EmptySet
  <2> QED BY <2>1, BatchSizeAssumption
<1>3. PICK n \in spare : \A m \in spare : n <= m
  <2>1. spare \in SUBSET Nat /\ spare # {}
    BY <1>2, BatchSizeAssumption
  <2> HIDE DEF spare
  <2> QED BY <2>1, LeastOf
<1>4. PICK S \in SUBSET C : Cardinality(S) = BatchSize - n /\ oldest(S)
  BY <1>3
<1>5. Cardinality(S) <= BatchSize
  BY <1>3, <1>4, BatchSizeAssumption
<1>6. ASSUME S # C PROVE Cardinality(S) = BatchSize
  <2> SUFFICES ASSUME n # 0 PROVE FALSE
    BY <1>3, <1>4, BatchSizeAssumption
  <2>1. PICK c \in C \ S : \A d \in C \ S : c <= d
    <3>1. C \ S \in SUBSET Nat /\ C \ S # {}
      BY <1>6, OrdersAssumption
    <3> QED BY <3>1, LeastOf
  <2>2. Cardinality(S \cup {c}) = BatchSize - (n - 1)
    BY <1>1, <1>3, <1>4, <2>1, FS_AddElement, BatchSizeAssumption
  <2>3. oldest(S \cup {c})
    BY <1>4, <2>1, OrdersAssumption
  <2>4. n - 1 \in spare
    <3>1. n - 1 \in 0..BatchSize /\ S \cup {c} \in SUBSET C
      BY <1>3, BatchSizeAssumption
    <3> HIDE DEF oldest
    <3> QED BY <2>2, <2>3, <3>1
  <2> QED BY <1>3, <2>4, BatchSizeAssumption
<1> QED BY <1>4, <1>5, <1>6 DEF OldestOf

\* And only one has: ORDER BY and LIMIT leave no choice.
LEMMA BatchUnique ==
  ASSUME NEW C \in SUBSET Orders, NEW S, NEW T, OldestOf(S, C), OldestOf(T, C)
  PROVE  S = T
<1>1. /\ IsFiniteSet(S) /\ Cardinality(S) \in Nat
      /\ IsFiniteSet(T) /\ Cardinality(T) \in Nat
  <2>1. S \subseteq Orders /\ T \subseteq Orders
    BY DEF OldestOf
  <2> QED BY <2>1, OrdersAssumption, FS_Subset, FS_CardinalityType
<1>2. S \subseteq T \/ T \subseteq S
  <2> SUFFICES ASSUME NEW s \in S \ T, NEW t \in T \ S PROVE FALSE
    OBVIOUS
  <2>1. s < t /\ t < s /\ s \in Nat /\ t \in Nat
    BY OrdersAssumption DEF OldestOf
  <2> QED BY <2>1
\* The smaller of the two is not all there is, so it is as large as LIMIT allows.
<1>3. ASSUME NEW A, NEW B, OldestOf(A, C), OldestOf(B, C), A \subseteq B, IsFiniteSet(B),
             Cardinality(A) \in Nat, Cardinality(B) \in Nat
      PROVE  A = B
  <2>1. Cardinality(A) <= Cardinality(B) /\ (Cardinality(B) = Cardinality(A) => A = B)
    BY <1>3, FS_Subset
  <2>2. A # B => Cardinality(A) = BatchSize /\ Cardinality(B) <= BatchSize
    BY <1>3 DEF OldestOf
  <2> QED BY <1>3, <2>1, <2>2, BatchSizeAssumption
<1> QED BY <1>1, <1>2, <1>3

\* Whatever there is to pick, ORDER BY and LIMIT determine the batch: there is always
\* one, so that a run's statement never waits, and never two.
THEOREM OneBatch ==
  \A C \in SUBSET Orders :
    \E S \in SUBSET C : OldestOf(S, C) /\ \A T : OldestOf(T, C) => T = S
  BY BatchExists, BatchUnique

\* The process that another waits for has locks, and asks for no more.
LEMMA HolderRuns ==
  ASSUME Inv, NEW p \in Procs, NEW q \in Procs, WaitsFor(p, q)
  PROVE  /\ \/ pc[q] \in {"items", "log", "commit"}
            \/ tx[q] \in {"orphan", "indoubt"}
         /\ \A r \in Procs : ~WaitsFor(q, r)
         /\ Runnable(q)
<1>1. wOrders[q] # {}
  BY DEF WaitsFor
<1>2. \/ pc[q] \in {"items", "log", "commit"}
      \/ tx[q] \in {"orphan", "indoubt"}
  BY <1>1 DEF Inv, TypeOK, TxShape
<1>3. pc[q] \notin {"insert", "cancel", "update"}
  BY <1>1 DEF Inv, TxShape
<1>4. Runnable(q)
  BY <1>2 DEF Inv, TxShape, Runnable
<1> QED BY <1>2, <1>3, <1>4 DEF WaitsFor

\* No process waits for one that waits, so that no set of them waits for each other.
THEOREM NoWaitCycle == Spec => []NobodyWaitsForAWaiter
<1>1. Inv => NobodyWaitsForAWaiter
  BY HolderRuns DEF NobodyWaitsForAWaiter
<1> QED BY <1>1, Invariance, PTL

-----------------------------------------------------------------------------
(* The service implements OrderLifecycle. *)

LEMMA InitRefines == Init => Lifecycle!Init
  BY SameNames DEF Init, Lifecycle!Init, NoRow

LEMMA TablesStutter ==
  ASSUME UNCHANGED tables
  PROVE  UNCHANGED Lifecycle!vars
  BY DEF tables, Lifecycle!vars

\* Nothing but a commit changes a table.
LEMMA TablesChange ==
  ASSUME [Next]_vars, ~\E p \in Procs : Commit(p) \/ LateCommit(p)
  PROVE  UNCHANGED tables
<1>1. ASSUME NEW p, NEW in, Receive(p, in) PROVE UNCHANGED tables
  BY <1>1 DEF Receive, CreateOrder, GetOrder, CancelOrder, ReadFirst, UpdateOrderStatus, Arrive
<1>2. ASSUME NEW p, ProcessPendingOrdersBatch(p) PROVE UNCHANGED tables
  BY <1>2 DEF ProcessPendingOrdersBatch, Arrive
<1>3. ASSUME NEW p \in Procs, Call(p) PROVE UNCHANGED tables
  <2>1. ~Commit(p)
    OBVIOUS
  <2> QED BY <1>3, <2>1
      DEF Call, GetRead, CancelRead, BeginTx, InsertOrder, InsertConflict, InsertItems,
          CancelPendingOrder, CancelNoRows, UpdateOrderStatusIfCurrentStatusMatches,
          UpdateNoRows, WriteOrder, resolveStatusUpdateNoRows, WorkerPickAndMove,
          CreateOrderEvent, Hydrate
<1>4. ASSUME NEW p \in Procs, Failure(p) \/ Recovery(p) PROVE UNCHANGED tables
  BY <1>4 DEF Failure, CallFails, CommitFails, Recovery, Reap
<1>5. ASSUME Quiescent \/ UNCHANGED vars PROVE UNCHANGED tables
  BY <1>5 DEF Quiescent, vars, tables
<1> QED BY <1>1, <1>2, <1>3, <1>4, <1>5 DEF Next

\* A commit is one move of all the orders it wrote.
LEMMA CommitRefines ==
  ASSUME Inv, NEW p \in Procs, Commit(p) \/ LateCommit(p)
  PROVE  Lifecycle!Next \/ UNCHANGED Lifecycle!vars
<1> DEFINE e == EventOf(p)
           S == wOrders[p]
<1>1. ApplyTx(p) /\ (pc[p] = "commit" \/ tx[p] = "indoubt")
  BY DEF Commit, LateCommit
<1>2. S \subseteq Orders
  BY <1>1, ReadyToCommit
<1>3. /\ e \in Lifecycle!Event
      /\ req[p].op = "process" <=> e \in Lifecycle!WorkerEvent
      /\ e.from = FromStatus(req[p]) /\ e.to = ToStatus(req[p])
  BY <1>1, ReadyToCommit, EventOfType, EventOfFields DEF Inv
<1>4. \A o \in S : orders[o].status = e.from
  BY <1>1, <1>3, ReadyToCommit
<1>5. \A o \in Orders : orders'[o].status = IF o \in S THEN e.to ELSE orders[o].status
  BY <1>1, <1>3, ApplyRows, RowOfType
<1>6. \A o \in Orders : events'[o] = IF o \in S THEN Append(events[o], e) ELSE events[o]
  BY <1>1, ApplyRows
<1>7. \A o \in Orders : events'[o] # events[o] <=> o \in S
  <2> SUFFICES ASSUME NEW o \in Orders PROVE Append(events[o], e) # events[o]
    BY <1>6
  <2>1. events[o] \in Seq(Lifecycle!Event)
    BY DEF Inv, TypeOK
  <2> HIDE DEF e, Lifecycle!Event
  <2> QED BY <2>1
<1>8. Lifecycle!Recorded = S
  BY <1>2, <1>7 DEF Lifecycle!Recorded
<1>9. events' = [o \in Orders |-> IF o \in S THEN Append(events[o], e) ELSE events[o]]
  BY <1>1, <1>6, ApplyTypes
<1>10. CASE S = {}
  <2>1. \A o \in Orders : orders'[o].status = orders[o].status
    BY <1>5, <1>10
  <2>2. events' = events
    BY <1>9, <1>10 DEF Inv, TypeOK
  <2> QED BY <2>1, <2>2 DEF Lifecycle!vars
<1>11. CASE S # {}
  <2>1. e \in Lifecycle!WorkerEvent \/ \E o \in Orders : S = {o}
    <3>1. req[p].op # "process" => \A o1, o2 \in S : o1 = o2
      BY DEF Inv, TxShape
    <3> QED BY <1>2, <1>3, <1>11, <3>1
  <2>2. \A o \in S : [x \in Orders |-> orders[x].status][o] = e.from
    BY <1>2, <1>4
  <2>3. [x \in Orders |-> orders'[x].status]
          = [o \in Orders |-> IF o \in S THEN e.to
                              ELSE [x \in Orders |-> orders[x].status][o]]
    BY <1>5
  <2> HIDE DEF e, S
  <2>4. Lifecycle!Recorded # {} /\ e \in Lifecycle!Event
    BY <1>3, <1>8, <1>11
  <2> QED BY <1>8, <1>9, <2>1, <2>2, <2>3, <2>4 DEF Lifecycle!Next, Lifecycle!Move
<1> QED BY <1>10, <1>11

LEMMA StepRefines ==
  Inv /\ [Next]_vars => [Lifecycle!Next]_(Lifecycle!vars)
<1> SUFFICES ASSUME Inv, [Next]_vars
             PROVE  Lifecycle!Next \/ UNCHANGED Lifecycle!vars
  OBVIOUS
<1>1. CASE \E p \in Procs : Commit(p) \/ LateCommit(p)
  BY <1>1, CommitRefines
<1>2. CASE ~\E p \in Procs : Commit(p) \/ LateCommit(p)
  BY <1>2, TablesChange, TablesStutter
<1> QED BY <1>1, <1>2

\* The service implements the abstract lifecycle: every change of a status is
\* one entitled move, made in one step with its audit record.
THEOREM Refinement == Spec => ImplementsLifecycle
<1>1. Spec => Lifecycle!Init /\ [][Lifecycle!Next]_(Lifecycle!vars)
  BY InitRefines, StepRefines, Invariance, PTL DEF Spec
<1> QED BY <1>1 DEF ImplementsLifecycle, Lifecycle!Spec

-----------------------------------------------------------------------------
(* What the steps of others leave alone: rows keep their owner and key, and *)
(* audit events their place.                                                *)

LEMMA ApplyRowsKept ==
  ASSUME Inv, NEW p \in Procs, pc[p] = "commit" \/ tx[p] = "indoubt", ApplyTx(p)
  PROVE  RowsKept
<1> SUFFICES ASSUME NEW o \in Orders, Exists(o)
             PROVE  /\ Exists(o)'
                    /\ orders'[o].customer = orders[o].customer
                    /\ orders'[o].key = orders[o].key
                    /\ \/ orders'[o].status = orders[o].status
                       \/ CanTransition(orders[o].status, orders'[o].status)
  BY DEF RowsKept
<1>1. CASE o \notin wOrders[p]
  BY <1>1, ApplyRows
<1>2. CASE o \in wOrders[p]
  <2>1. req[p].op # "create" /\ CanTransition(FromStatus(req[p]), ToStatus(req[p]))
    BY <1>2, ReadyToCommit, EventOfFields DEF Inv
  <2>2. orders[o].status = FromStatus(req[p])
    BY <1>2, ReadyToCommit
  <2> QED BY <1>2, <2>1, <2>2, ApplyRows, RowOfType
<1> QED BY <1>1, <1>2

LEMMA StepRowsKept ==
  ASSUME Inv, [Next]_vars
  PROVE  RowsKept
<1>1. CASE \E p \in Procs : Commit(p) \/ LateCommit(p)
  BY <1>1, ApplyRowsKept DEF Commit, LateCommit
<1>2. CASE ~\E p \in Procs : Commit(p) \/ LateCommit(p)
  BY <1>2, TablesChange DEF tables, RowsKept, Exists
<1> QED BY <1>1, <1>2

\* A commit appends its event to the trails of the orders it wrote.
LEMMA ApplyEvents ==
  ASSUME Inv, NEW p \in Procs, pc[p] = "commit" \/ tx[p] = "indoubt", ApplyTx(p),
         NEW o \in Orders
  PROVE  /\ Len(events[o]) \in Nat
         /\ DOMAIN events[o] = 1..Len(events[o])
         /\ o \notin wOrders[p] => events'[o] = events[o]
         /\ o \in wOrders[p] => /\ DOMAIN events'[o] = 1..(Len(events[o]) + 1)
                                /\ events'[o][Len(events[o]) + 1] = EventOf(p)
                                /\ \A i \in 1..Len(events[o]) : events'[o][i] = events[o][i]
<1>1. /\ o \notin wOrders[p] => events'[o] = events[o]
      /\ o \in wOrders[p] => events'[o] = Append(events[o], EventOf(p))
  BY ApplyRows
<1>2. events[o] \in Seq(Lifecycle!Event) /\ EventOf(p) \in Lifecycle!Event
  BY ReadyToCommit, EventOfType DEF Inv, TypeOK
<1> DEFINE e == EventOf(p)
<1> HIDE DEF e, Lifecycle!Event
<1> QED BY <1>1, <1>2 DEF e

LEMMA ApplyEventsBy ==
  ASSUME Inv, NEW p \in Procs, pc[p] = "commit" \/ tx[p] = "indoubt", ApplyTx(p),
         NEW o \in Orders, NEW q \in Procs
  PROVE  /\ q # p \/ o \notin wOrders[p] => EventsBy(q, o)' = EventsBy(q, o)
         /\ o \in wOrders[p] =>
              EventsBy(p, o)' = EventsBy(p, o) \cup {Len(events[o]) + 1}
         /\ \A i \in EventsBy(q, o) : events'[o][i] = events[o][i]
<1>1. EventOf(p).id = p
  BY ReadyToCommit, EventOfFields DEF Inv
<1>2. CASE o \notin wOrders[p]
  BY <1>2, ApplyEvents DEF EventsBy
<1>3. CASE o \in wOrders[p]
  <2> DEFINE n == Len(events[o])
  <2>1. /\ n \in Nat
        /\ DOMAIN events[o] = 1..n /\ DOMAIN events'[o] = 1..(n + 1)
        /\ events'[o][n + 1].id = p
        /\ \A i \in 1..n : events'[o][i] = events[o][i]
    BY <1>1, <1>3, ApplyEvents
  <2> HIDE DEF n
  <2>2. /\ EventsBy(q, o)' = {i \in 1..(n + 1) : events'[o][i].id = q}
        /\ EventsBy(p, o)' = {i \in 1..(n + 1) : events'[o][i].id = p}
        /\ EventsBy(q, o) = {i \in 1..n : events[o][i].id = q}
        /\ EventsBy(p, o) = {i \in 1..n : events[o][i].id = p}
    BY <2>1 DEF EventsBy
  <2>3. EventsBy(p, o)' = EventsBy(p, o) \cup {n + 1}
    BY <2>1, <2>2
  <2>4. q # p => EventsBy(q, o)' = EventsBy(q, o)
    BY <2>1, <2>2
  <2> QED BY <1>3, <2>1, <2>2, <2>3, <2>4 DEF n
<1> QED BY <1>2, <1>3

LEMMA StepTrailsKept ==
  ASSUME Inv, [Next]_vars
  PROVE  TrailsKept
<1>1. CASE \E p \in Procs : Commit(p) \/ LateCommit(p)
  <2>1. PICK p \in Procs : ApplyTx(p) /\ (pc[p] = "commit" \/ tx[p] = "indoubt")
    BY <1>1 DEF Commit, LateCommit
  <2> SUFFICES ASSUME NEW o \in Orders, NEW i \in DOMAIN events[o]
               PROVE  i \in DOMAIN events'[o] /\ events'[o][i] = events[o][i]
    BY DEF TrailsKept
  <2> QED BY <2>1, ApplyEvents
<1>2. CASE ~\E p \in Procs : Commit(p) \/ LateCommit(p)
  BY <1>2, TablesChange DEF tables, TrailsKept
<1> QED BY <1>1, <1>2

\* An order never disappears, changes its owner or its key, or leaves the paths of the
\* state machine, and no audit event is ever changed or removed, whatever requests and
\* runs race and fail (the statements of db/orders.sql.go).
THEOREM HistoryKept == Spec => [][RowsKept /\ TrailsKept]_vars
<1>1. Inv /\ [Next]_vars => [RowsKept /\ TrailsKept]_vars
  BY StepRowsKept, StepTrailsKept
<1> QED BY <1>1, Invariance, PTL DEF Spec

LEMMA TablesEventsKept ==
  ASSUME UNCHANGED tables, NEW q
  PROVE  EventsKept(q)
  BY DEF tables, EventsKept, EventsBy

LEMMA ApplyEventsKept ==
  ASSUME Inv, NEW p \in Procs, pc[p] = "commit" \/ tx[p] = "indoubt", ApplyTx(p),
         NEW q \in Procs, q # p
  PROVE  EventsKept(q)
  BY ApplyEventsBy DEF EventsKept

LEMMA RecordedKept ==
  ASSUME NEW q \in Procs, EventsKept(q), req'[q] = req[q]
  PROVE  /\ Unrecorded(q) => Unrecorded(q)'
         /\ RecordedOnce(q) => RecordedOnce(q)'
<1>1. EventOf(q)' = EventOf(q)
  BY DEF EventOf, ActionOf, FromStatus, ToStatus, privilegedActorID
<1>2. Unrecorded(q) => Unrecorded(q)'
  BY DEF EventsKept, Unrecorded
<1>3. ASSUME RecordedOnce(q) PROVE RecordedOnce(q)'
  <2>1. PICK o \in Orders :
          /\ req[q].op = "create" \/ req[q].order = o
          /\ \E i \in DOMAIN events[o] : EventsBy(q, o) = {i} /\ events[o][i] = EventOf(q)
          /\ \A x \in Orders \ {o} : EventsBy(q, x) = {}
    BY <1>3 DEF RecordedOnce
  <2>2. PICK i \in DOMAIN events[o] : EventsBy(q, o) = {i} /\ events[o][i] = EventOf(q)
    BY <2>1
  <2>3. EventsBy(q, o)' = {i} /\ events'[o][i] = EventOf(q)'
    BY <1>1, <2>2 DEF EventsKept
  <2>4. i \in DOMAIN events'[o]
    BY <2>3 DEF EventsBy
  <2>5. \A x \in Orders \ {o} : EventsBy(q, x)' = {}
    BY <2>1 DEF EventsKept
  <2> QED BY <2>1, <2>3, <2>4, <2>5 DEF RecordedOnce
<1> QED BY <1>2, <1>3

\* The steps of other processes keep what q's request has left ...
LEMMA TraceKept ==
  ASSUME NEW q \in Procs, Trace(q), EventsKept(q),
         pc'[q] = pc[q], req'[q] = req[q], resp'[q] = resp[q], tx'[q] = tx[q],
         wOrders'[q] = wOrders[q]
  PROVE  Trace(q)'
  BY RecordedKept DEF Trace, Writes, AtMostOnce

\* ... and what it knows.
LEMMA KnownKept ==
  ASSUME RowsKept, NEW q \in Procs, Trace(q), Known(q),
         pc'[q] = pc[q], req'[q] = req[q], resp'[q] = resp[q]
  PROVE  Known(q)'
<1> DEFINE o == req[q].order
<1>1. /\ KnownOrder(req[q]) => KnownOrder(req[q])'
      /\ Owned(q) => Owned(q)'
      /\ KnownOrder(req[q]) /\ ~Owned(q) => ~Owned(q)'
      /\ KnownOrder(req[q]) /\ ~Exists(o) => ~Exists(o)'
      /\ Exists(o) => Exists(o)'
      /\ Exists(o) /\ orders[o].status # StatusPending => orders'[o].status # StatusPending
  <2>1. \A from, to : CanTransition(from, to) => to # StatusPending
    BY DEF CanTransition, allowedTransitions, StatusPending, StatusProcessing,
       StatusCancelled, StatusShipped, StatusDelivered
  <2> QED BY <2>1, NoneAssumption DEF RowsKept, KnownOrder, Owned, Exists
<1>2. CommittedDuplicate(q) => CommittedDuplicate(q)'
  BY DEF RowsKept, CommittedDuplicate, SameKey
<1>3. Owned(q) => Exists(o)
  BY DEF Owned
<1>4. Explained(q) => Explained(q)'
  BY <1>1, <1>3 DEF Explained
<1>5. resp[q] # 0 => pc[q] # "idle"
  BY DEF Trace
<1>6. Truthful(q)'
  BY <1>1, <1>2, <1>3, <1>5 DEF Known, Truthful
<1> QED BY <1>1, <1>4, <1>6 DEF Known

-----------------------------------------------------------------------------
(* What a process's own steps make of what its request has left and knows.  *)

\* A step that leaves the tables and the requests alone leaves both as they were.
LEMMA OwnFrame ==
  ASSUME NEW p \in Procs, UNCHANGED <<tables, req>>
  PROVE  /\ Unrecorded(p)' <=> Unrecorded(p)
         /\ RecordedOnce(p)' <=> RecordedOnce(p)
         /\ KnownOrder(req[p])' <=> KnownOrder(req[p])
         /\ Exists(req[p].order)' <=> Exists(req[p].order)
         /\ Owned(p)' <=> Owned(p)
         /\ CommittedDuplicate(p)' <=> CommittedDuplicate(p)
<1>1. \A o \in Orders : EventsBy(p, o)' = EventsBy(p, o)
  BY DEF tables, EventsBy
<1>2. EventOf(p)' = EventOf(p)
  BY DEF EventOf, ActionOf, FromStatus, ToStatus, privilegedActorID
<1>3. Unrecorded(p)' <=> Unrecorded(p)
  BY <1>1 DEF Unrecorded
<1>4. RecordedOnce(p)' <=> RecordedOnce(p)
  BY <1>1, <1>2 DEF RecordedOnce, tables
<1>5. /\ KnownOrder(req[p])' <=> KnownOrder(req[p])
      /\ Exists(req[p].order)' <=> Exists(req[p].order)
      /\ Owned(p)' <=> Owned(p)
      /\ CommittedDuplicate(p)' <=> CommittedDuplicate(p)
  BY DEF tables, KnownOrder, Exists, Owned, CommittedDuplicate, SameKey
<1> QED BY <1>3, <1>4, <1>5

\* A request arrives.  Those that the handler refuses it refuses truthfully.
LEMMA ArriveAnswer ==
  ASSUME Inv, NEW p \in Procs, Trace(p), NEW in \in Input \cup {BatchInput},
         NEW code \in {0, 400, 401, 403, 409, 500}, NEW label \in {"begin", "read"},
         Arrive(p, in, code, label),
         code = 409 => in.op = "update" /\ in.target = StatusPending,
         code = 500 => in.op = "create" /\ in.form = "overflow",
         in.op \in {"get", "cancel", "update"} => KnownOrder(in),
         in.op \in {"get", "cancel"} <=> label = "read"
  PROVE  Trace(p)' /\ Known(p)'
<1>1. /\ req'[p] = in /\ UNCHANGED <<tables, txvars>>
      /\ \/ code # 0 /\ pc'[p] = "done" /\ resp'[p] = code
         \/ code = 0 /\ pc'[p] = label /\ resp'[p] = 0
  BY DEF Inv, TypeOK, Arrive, Reply, GoTo, Trace
<1>2. wOrders[p] = {} /\ tx[p] = "none" /\ Unrecorded(p)
  <2>1. tx[p] \in {"none", "open", "orphan", "indoubt"} /\ pc[p] = "idle"
    BY DEF Inv, TypeOK, Arrive
  <2> QED BY <2>1 DEF Inv, TxShape, Trace
<1>3. Unrecorded(p)'
  BY <1>1, <1>2 DEF Unrecorded, EventsBy, tables
<1>4. Trace(p)'
  BY <1>1, <1>2, <1>3 DEF Trace, AtMostOnce, txvars
<1>5. Truthful(p)' /\ Explained(p)'
  BY <1>1 DEF Truthful, Explained
<1>6. in.op \in {"get", "cancel", "update"} => KnownOrder(req[p])'
  BY <1>1 DEF KnownOrder, Exists, tables
<1> QED BY <1>1, <1>4, <1>5, <1>6 DEF Known

\* A call that reads: what it answers is what it read.
LEMMA ReadAnswer ==
  ASSUME Inv, NEW p \in Procs, Trace(p), Known(p),
         GetRead(p) \/ CancelRead(p) \/ resolveStatusUpdateNoRows(p) \/ Hydrate(p)
  PROVE  Trace(p)' /\ Known(p)'
<1> USE DEF GetRead, CancelRead, resolveStatusUpdateNoRows, Hydrate
<1> DEFINE o == req[p].order
<1>1. UNCHANGED <<tables, txvars, req>>
  OBVIOUS
<1>2. tx[p] = "none" /\ wOrders[p] = {} /\ resp[p] = 0
  BY DEF Inv, TypeOK, TxShape, Trace
<1>3. CASE GetRead(p)
  <2>1. /\ req[p].op = "get" /\ Unrecorded(p) /\ KnownOrder(req[p])
        /\ \/ pc'[p] = "hydrate" /\ resp'[p] = 0 /\ Owned(p)
           \/ pc'[p] = "done" /\ resp'[p] = 404 /\ ~Owned(p)
    BY <1>2, <1>3 DEF Inv, TypeOK, Reply, GoTo, Trace, Known
  <2> QED BY <1>1, <1>2, <2>1, OwnFrame DEF Trace, Known, Writes, AtMostOnce, Truthful, Explained, txvars
<1>4. CASE CancelRead(p)
  <2>1. Owned(p) /\ ValidateTransition(orders[o].status, StatusCancelled) # "nil"
          => orders[o].status # StatusPending
    BY StatusNames DEF ValidateTransition, CanTransition, IsValidStatus, allowedTransitions
  <2>2. /\ req[p].op = "cancel" /\ Unrecorded(p) /\ KnownOrder(req[p])
        /\ \/ pc'[p] = "done" /\ resp'[p] = 404 /\ ~Owned(p)
           \/ pc'[p] = "done" /\ resp'[p] = 409 /\ Owned(p) /\ orders[o].status # StatusPending
           \/ pc'[p] = "begin" /\ resp'[p] = 0 /\ Owned(p)
    BY <1>2, <1>4, <2>1 DEF Inv, TypeOK, Reply, GoTo, Trace, Known
  <2> QED BY <1>1, <1>2, <2>2, OwnFrame
          DEF Trace, Known, Writes, AtMostOnce, Truthful, Explained, txvars, tables
<1>5. CASE resolveStatusUpdateNoRows(p)
  <2>1. o \in Orders \cup {None}
    BY RequestType DEF Inv
  <2>2. o \in Orders => (Exists(o) <=> events[o] # << >>)
    <3> SUFFICES ASSUME o \in Orders PROVE Len(events[o]) > 0 <=> events[o] # << >>
      BY DEF Inv, AuditTrail
    <3>1. events[o] \in Seq(Lifecycle!Event)
      BY DEF Inv, TypeOK
    <3> HIDE DEF o, Lifecycle!Event
    <3> QED BY <3>1
  <2>3. /\ req[p].op = "update" /\ Unrecorded(p) /\ KnownOrder(req[p]) /\ pc'[p] = "done"
        /\ \/ resp'[p] = 404 /\ ~Exists(o)
           \/ resp'[p] = 409 /\ Exists(o)
    BY <1>2, <1>5, <2>1, <2>2, NoneAssumption
    DEF Inv, TypeOK, TxShape, Reply, Trace, Known, Exists
  <2> QED BY <1>1, <1>2, <2>3, OwnFrame DEF Trace, Known, Writes, AtMostOnce, Truthful, Explained, txvars
<1>6. CASE Hydrate(p)
  <2>1. /\ pc[p] = "hydrate" /\ req[p].op \in {"get", "cancel", "update"}
        /\ KnownOrder(req[p])
        /\ Writes(p) => RecordedOnce(p)
        /\ req[p].op = "get" => Owned(p)
        /\ pc'[p] = "done" /\ resp'[p] = 200
    BY <1>6 DEF Inv, TypeOK, Reply, Trace, Known
  <2> QED BY <1>1, <1>2, <2>1, OwnFrame
          DEF Trace, Known, Writes, AtMostOnce, Truthful, Explained, Rejections, txvars
<1> QED BY <1>3, <1>4, <1>5, <1>6

\* A call inside the transaction answers nothing.
LEMMA WriteAnswer ==
  ASSUME Inv, NEW p \in Procs, Trace(p), Known(p),
         \/ BeginTx(p) \/ InsertOrder(p) \/ InsertItems(p) \/ CancelPendingOrder(p)
         \/ UpdateOrderStatusIfCurrentStatusMatches(p) \/ WorkerPickAndMove(p)
         \/ CreateOrderEvent(p)
  PROVE  Trace(p)' /\ Known(p)'
<1> USE DEF InsertItems, InsertOrder, CancelPendingOrder,
            UpdateOrderStatusIfCurrentStatusMatches, WriteOrder, WorkerPickAndMove,
            CreateOrderEvent
<1>1. UNCHANGED <<tables, req>>
  BY DEF BeginTx
<1>2. resp[p] = 0 /\ resp'[p] = 0 /\ Unrecorded(p)
  BY DEF BeginTx, GoTo, Trace
<1>3. /\ req[p].op \in {"cancel", "update"} => wOrders'[p] \subseteq {req[p].order}
      /\ pc'[p] \in {"items", "log", "commit"} => req[p].op = "process" \/ wOrders'[p] # {}
      /\ pc'[p] \in {"insert", "cancel", "update", "pick", "items", "log", "commit"}
      /\ pc'[p] = "cancel" => pc[p] = "begin" /\ req[p].op = "cancel"
      /\ tx'[p] # "indoubt"
  <2>1. CASE BeginTx(p)
    BY <2>1 DEF Inv, TypeOK, TxShape, BeginTx, GoTo, FirstStatement
  <2>2. CASE InsertItems(p) \/ CreateOrderEvent(p)
    <3>1. /\ pc[p] \in {"items", "log"}
          /\ tx'[p] = "open" /\ wOrders'[p] = wOrders[p]
      BY <2>2 DEF Inv, TxShape
    <3>2. pc'[p] \in {"log", "commit"}
      BY <2>2 DEF Inv, TypeOK, GoTo
    <3>3. /\ req[p].op \in {"cancel", "update"} => wOrders[p] \subseteq {req[p].order}
          /\ req[p].op = "process" \/ wOrders[p] # {}
      BY <3>1 DEF Trace
    <3> QED BY <3>1, <3>2, <3>3
  <2>3. CASE InsertOrder(p)
    BY <2>3 DEF Inv, TypeOK, TxShape, GoTo
  <2>4. CASE CancelPendingOrder(p) \/ UpdateOrderStatusIfCurrentStatusMatches(p)
    <3>1. WriteOrder(p) /\ tx'[p] = "open"
      BY <2>4 DEF Inv, TxShape
    <3>2. wOrders'[p] = {req[p].order} /\ pc'[p] = "log"
      BY <3>1 DEF Inv, TypeOK, GoTo
    <3> QED BY <3>1, <3>2
  <2>5. CASE WorkerPickAndMove(p)
    BY <2>5 DEF Inv, TypeOK, TxShape, GoTo
  <2> QED BY <2>1, <2>2, <2>3, <2>4, <2>5
<1>4. pc[p] # "idle"
  BY DEF BeginTx
<1>5. Trace(p)'
  BY <1>1, <1>2, <1>3, OwnFrame DEF Trace, AtMostOnce, Rejections
<1>6. Known(p)'
  BY <1>1, <1>2, <1>3, <1>4, OwnFrame DEF Known, Truthful, Explained
<1> QED BY <1>5, <1>6

\* A statement that finds no row, or a taken key, or the database ending a
\* transaction: nothing has been recorded, nor will be.
LEMMA RollbackAnswer ==
  ASSUME Inv, NEW p \in Procs, Trace(p), Known(p),
         InsertConflict(p) \/ CancelNoRows(p) \/ UpdateNoRows(p) \/ Reap(p)
  PROVE  Trace(p)' /\ Known(p)'
<1> USE DEF InsertConflict, CancelNoRows, UpdateNoRows, Reap, Rollback
<1>1. /\ UNCHANGED <<tables, req>>
      /\ tx'[p] = "none" /\ wOrders'[p] = {}
  BY DEF Inv, TypeOK, EndTx
<1>2. CASE InsertConflict(p)
  <2>1. /\ req[p].op = "create" /\ Unrecorded(p) /\ CommittedDuplicate(p)
        /\ pc'[p] = "done" /\ resp'[p] = 409
    BY <1>2 DEF Inv, TypeOK, TxShape, Reply, Trace
  <2> QED BY <1>1, <2>1, OwnFrame DEF Trace, AtMostOnce, Known, Truthful, Explained
<1>3. CASE CancelNoRows(p)
  <2>1. /\ req[p].op = "cancel" /\ KnownOrder(req[p])
        /\ pc'[p] = "done" /\ resp'[p] = 500
        /\ Owned(p) /\ orders[req[p].order].status # StatusPending
    BY <1>3 DEF Inv, TypeOK, TxShape, Reply, Known, Matches, Owned, FromStatus
  <2> QED BY <1>1, <2>1, OwnFrame DEF Trace, AtMostOnce, Known, Truthful, Explained, Rejections, tables
<1>4. CASE UpdateNoRows(p)
  <2>1. /\ req[p].op = "update" /\ KnownOrder(req[p]) /\ Unrecorded(p)
        /\ pc'[p] = "resolve" /\ resp'[p] = 0
    BY <1>4 DEF Inv, TypeOK, TxShape, GoTo, Trace, Known
  <2> QED BY <1>1, <2>1, OwnFrame DEF Trace, AtMostOnce, Known, Truthful, Explained, Rejections
<1>5. CASE Reap(p)
  <2>1. pc'[p] = pc[p] /\ resp'[p] = resp[p] /\ pc[p] = "done"
    BY <1>5 DEF Inv, TxShape
  <2>2. Trace(p)'
    BY <1>1, <2>1, OwnFrame DEF Trace, AtMostOnce, Writes
  <2>3. RowsKept
    BY <1>1 DEF RowsKept, Exists, tables
  <2> QED BY <1>1, <2>1, <2>2, <2>3, KnownKept
<1> QED BY <1>2, <1>3, <1>4, <1>5

\* A call that fails is answered with 500; only a failed COMMIT may still be
\* carried out.
LEMMA FailureAnswer ==
  ASSUME Inv, NEW p \in Procs, Trace(p), Known(p), Failure(p)
  PROVE  Trace(p)' /\ Known(p)'
<1> USE DEF Failure, CallFails, CommitFails
<1>1. /\ UNCHANGED <<tables, req, wOrders>> /\ p \in Faulty
      /\ pc[p] \notin {"idle", "done"} /\ pc'[p] = "done" /\ resp'[p] = 500
  BY DEF Inv, TypeOK, Reply
<1>2. \/ tx[p] = "none" /\ tx'[p] = "none"
      \/ tx[p] = "open" /\ tx'[p] = "orphan"
      \/ pc[p] = "commit" /\ tx[p] = "open" /\ tx'[p] = "indoubt"
  BY DEF Inv, TypeOK, TxShape
<1>3. tx[p] = "open" => Unrecorded(p)
  BY DEF Inv, TxShape, Trace
<1>4. Trace(p)'
  BY <1>1, <1>2, <1>3, OwnFrame DEF Trace, AtMostOnce, Writes, Rejections
<1> QED BY <1>1, <1>4, OwnFrame DEF Known, Truthful

\* A commit records the request once, on the order it wrote.
LEMMA ApplyRecords ==
  ASSUME Inv, NEW p \in Procs, pc[p] = "commit" \/ tx[p] = "indoubt", ApplyTx(p),
         UNCHANGED req, Trace(p), Writes(p)
  PROVE  RecordedOnce(p)'
<1>1. Unrecorded(p)
  BY DEF Inv, TxShape, Trace
<1>2. PICK o \in Orders : wOrders[p] = {o}
  <2>1. wOrders[p] # {} /\ wOrders[p] \subseteq Orders
    BY DEF Inv, TypeOK, Trace, Writes
  <2>2. \A o1, o2 \in wOrders[p] : o1 = o2
    BY DEF Inv, TxShape, Writes
  <2> QED BY <2>1, <2>2
<1>3. req[p].op = "create" \/ req[p].order = o
  BY <1>2 DEF Trace, Writes
<1> DEFINE i == Len(events[o]) + 1
<1>4. EventsBy(p, o)' = {i} /\ \A x \in Orders \ {o} : EventsBy(p, x)' = {}
  BY <1>1, <1>2, ApplyEventsBy DEF Unrecorded
<1>5. i \in DOMAIN events'[o] /\ events'[o][i] = EventOf(p)
  <2>1. /\ Len(events[o]) \in Nat /\ DOMAIN events'[o] = 1..i
        /\ events'[o][i] = EventOf(p)
    BY <1>2, ApplyEvents
  <2> QED BY <2>1
<1>6. EventOf(p)' = EventOf(p)
  BY DEF EventOf, ActionOf, FromStatus, ToStatus, privilegedActorID
<1> HIDE DEF i
<1> QED BY <1>3, <1>4, <1>5, <1>6 DEF RecordedOnce

LEMMA ApplyAnswer ==
  ASSUME Inv, NEW p \in Procs, Trace(p), Known(p), Commit(p) \/ LateCommit(p)
  PROVE  Trace(p)' /\ Known(p)'
<1> USE DEF Commit, LateCommit
<1>1. /\ ApplyTx(p) /\ UNCHANGED req
      /\ pc[p] = "commit" \/ tx[p] = "indoubt"
      /\ tx'[p] = "none" /\ wOrders'[p] = {}
  BY DEF Inv, TypeOK, ApplyTx, EndTx
<1>2. RowsKept
  BY <1>1, ApplyRowsKept
<1>3. Writes(p) => RecordedOnce(p)'
  BY <1>1, ApplyRecords
<1>4. CASE LateCommit(p)
  <2>1. /\ pc'[p] = pc[p] /\ resp'[p] = resp[p] /\ pc[p] = "done"
        /\ resp[p] \notin {200, 201} \cup Rejections
    BY <1>4 DEF Inv, TxShape, Trace
  <2>2. Trace(p)'
    BY <1>1, <1>3, <2>1 DEF Trace, AtMostOnce, Writes
  <2> QED BY <1>1, <1>2, <2>1, <2>2, KnownKept
<1>5. CASE Commit(p)
  <2>1. /\ req[p].op \in {"create", "cancel", "update", "process"}
        /\ \/ req[p].op = "create" /\ pc'[p] = "done" /\ resp'[p] = 201
           \/ req[p].op = "process" /\ pc'[p] = "done" /\ resp'[p] = 200
           \/ req[p].op \in {"cancel", "update"} /\ pc'[p] = "hydrate" /\ resp'[p] = 0
    BY <1>5, ReadyToCommit DEF Inv, TypeOK, AfterCommit, Reply, GoTo, Trace
  <2>2. Trace(p)'
    BY <1>1, <1>3, <2>1 DEF Trace, AtMostOnce, Writes, Rejections
  <2>3. req[p].op \in {"cancel", "update"} => KnownOrder(req[p])'
    BY <1>1, <1>2, <1>5, NoneAssumption DEF Known, KnownOrder, RowsKept, Exists
  <2> QED BY <1>1, <2>1, <2>2, <2>3 DEF Known, Truthful, Explained
<1> QED BY <1>4, <1>5

-----------------------------------------------------------------------------
(* What requests are told. *)

\* A step of p alone keeps what all others have left and know.
LEMMA OthersAnswers ==
  ASSUME Inv, AnswerInv, RowsKept, NEW p \in Procs, Trace(p)' /\ Known(p)',
         \A q \in Procs \ {p} :
           /\ EventsKept(q)
           /\ pc'[q] = pc[q] /\ req'[q] = req[q] /\ resp'[q] = resp[q]
           /\ tx'[q] = tx[q] /\ wOrders'[q] = wOrders[q]
  PROVE  AnswerInv'
  BY TraceKept, KnownKept DEF AnswerInv

LEMMA InitAnswers == Init => AnswerInv
<1> SUFFICES ASSUME Init, NEW p \in Procs PROVE Trace(p) /\ Known(p)
  BY DEF AnswerInv
<1> USE DEF Init
<1>1. \A o \in Orders : EventsBy(p, o) = {}
  BY DEF EventsBy
<1>2. Trace(p)
  BY <1>1 DEF Trace, AtMostOnce, Unrecorded, Rejections
<1>3. Known(p)
  BY DEF Known, Truthful, Explained
<1> QED BY <1>2, <1>3

\* A request or a worker run that arrives, whatever it is answered at once.
LEMMA ReceiveAnswer ==
  ASSUME Inv, NEW p \in Procs, NEW in \in Inputs, Trace(p), Receive(p, in)
  PROVE  Trace(p)' /\ Known(p)'
<1>1. in \in Input
  BY InputsAssumption
<1>2. CASE CreateOrder(p, in)
  <2> DEFINE code == IF in.role = None \/ in.customer = None THEN 401
                     ELSE IF in.form = "malformed" THEN 400
                     ELSE IF in.form = "overflow" THEN 500
                     ELSE 0
  <2>1. in.op = "create" /\ Arrive(p, in, code, "begin")
    BY <1>2 DEF CreateOrder
  <2>2. code \in {0, 400, 401, 500} /\ (code = 500 => in.form = "overflow")
    OBVIOUS
  <2> HIDE DEF code
  <2> QED BY <1>1, <2>1, <2>2, ArriveAnswer
<1>3. CASE GetOrder(p, in) \/ CancelOrder(p, in)
  <2> DEFINE code == IF in.role = None \/ in.customer = None THEN 401
                     ELSE IF in.form = "malformed" THEN 400
                     ELSE 0
  <2>1. in.op \in {"get", "cancel"} /\ KnownOrder(in) /\ Arrive(p, in, code, "read")
    BY <1>3 DEF GetOrder, CancelOrder, ReadFirst
  <2>2. code \in {0, 400, 401}
    OBVIOUS
  <2> HIDE DEF code
  <2> QED BY <1>1, <2>1, <2>2, ArriveAnswer
<1>4. CASE UpdateOrderStatus(p, in)
  <2> DEFINE illegal == \/ expectedStatusError(in.target) # "nil"
                        \/ ValidateTransition(FromStatus(in), in.target) # "nil"
             code == IF in.role = None THEN 401
                     ELSE IF in.role \notin {"ADMIN", "SYSTEM"} THEN 403
                     ELSE IF in.form = "malformed" THEN 400
                     ELSE IF illegal THEN 409
                     ELSE 0
  <2>1. in.op = "update" /\ KnownOrder(in) /\ Arrive(p, in, code, "begin")
    BY <1>4 DEF UpdateOrderStatus
  <2>2. in.target \in validStatuses
    BY <1>1 DEF Input
  <2>3. illegal => in.target = StatusPending
    BY <2>1, <2>2 DEF expectedStatusError, expectedStatusForTarget, ValidateTransition,
       CanTransition, IsValidStatus, allowedTransitions, validStatuses, FromStatus, NoStatus,
       StatusPending, StatusProcessing, StatusShipped, StatusDelivered, StatusCancelled
  <2> HIDE DEF illegal
  <2>4. code \in {0, 400, 401, 403, 409} /\ (code = 409 => in.target = StatusPending)
    BY <2>3
  <2> HIDE DEF code
  <2> QED BY <1>1, <2>1, <2>4, ArriveAnswer
<1> QED BY <1>2, <1>3, <1>4 DEF Receive

\* What a step of p, a call, a failure or the end of its transaction, makes of
\* what it has left and knows.
LEMMA OwnAnswer ==
  ASSUME Inv, NEW p \in Procs, Trace(p), Known(p), Call(p) \/ Failure(p) \/ Recovery(p)
  PROVE  Trace(p)' /\ Known(p)'
  BY ReadAnswer, WriteAnswer, RollbackAnswer, FailureAnswer, ApplyAnswer DEF Call, Recovery

\* What a step of p leaves alone.
LEMMA OwnStep ==
  ASSUME Inv, NEW p \in Procs, NEW q \in Procs \ {p},
         \/ \E in \in Inputs : Receive(p, in)
         \/ ProcessPendingOrdersBatch(p)
         \/ Call(p) \/ Failure(p) \/ Recovery(p)
  PROVE  /\ EventsKept(q)
         /\ pc'[q] = pc[q] /\ req'[q] = req[q] /\ resp'[q] = resp[q]
         /\ tx'[q] = tx[q] /\ wOrders'[q] = wOrders[q]
<1>1. ASSUME NEW in, NEW code, NEW label, Arrive(p, in, code, label)
      PROVE  /\ UNCHANGED tables
             /\ pc'[q] = pc[q] /\ req'[q] = req[q] /\ resp'[q] = resp[q]
             /\ tx'[q] = tx[q] /\ wOrders'[q] = wOrders[q]
  BY <1>1 DEF Inv, TypeOK, Arrive, Reply, GoTo, txvars
<1>2. CASE \E in \in Inputs : Receive(p, in)
  <2>1. PICK in \in Inputs : Receive(p, in)
    BY <1>2
  <2>2. \E code, label : Arrive(p, in, code, label)
    BY <2>1 DEF Receive, CreateOrder, GetOrder, CancelOrder, ReadFirst, UpdateOrderStatus
  <2> QED BY <1>1, <2>2, TablesEventsKept
<1>3. CASE ProcessPendingOrdersBatch(p)
  BY <1>1, <1>3, TablesEventsKept DEF ProcessPendingOrdersBatch
<1>4. CASE Commit(p) \/ LateCommit(p)
  <2>1. ApplyTx(p) /\ UNCHANGED req /\ (pc[p] = "commit" \/ tx[p] = "indoubt")
    BY <1>4 DEF Commit, LateCommit
  <2>2. EventsKept(q)
    BY <2>1, ApplyEventsKept
  <2> QED BY <1>4, <2>1, <2>2
          DEF Commit, LateCommit, AfterCommit, Inv, TypeOK, ApplyTx, EndTx, Reply, GoTo
<1>5. CASE Failure(p) \/ Reap(p)
  BY <1>5, TablesEventsKept
     DEF Failure, CallFails, CommitFails, Reap, EndTx, Inv, TypeOK, Reply
<1>6. CASE \/ GetRead(p) \/ CancelRead(p) \/ resolveStatusUpdateNoRows(p) \/ Hydrate(p)
  BY <1>6, TablesEventsKept
     DEF GetRead, CancelRead, resolveStatusUpdateNoRows, Hydrate, Inv, TypeOK, Reply, GoTo, txvars
<1>7. CASE InsertConflict(p) \/ CancelNoRows(p) \/ UpdateNoRows(p)
  BY <1>7, TablesEventsKept
     DEF InsertConflict, CancelNoRows, UpdateNoRows, Rollback, EndTx, Inv, TypeOK, Reply, GoTo
<1>8. CASE \/ BeginTx(p) \/ InsertOrder(p) \/ InsertItems(p) \/ CancelPendingOrder(p)
           \/ UpdateOrderStatusIfCurrentStatusMatches(p) \/ WorkerPickAndMove(p)
           \/ CreateOrderEvent(p)
  BY <1>8, TablesEventsKept
     DEF BeginTx, InsertOrder, InsertItems, CancelPendingOrder, WriteOrder,
         UpdateOrderStatusIfCurrentStatusMatches, WorkerPickAndMove, CreateOrderEvent,
         Inv, TypeOK, GoTo
<1> QED BY <1>2, <1>3, <1>4, <1>5, <1>6, <1>7, <1>8 DEF Call, Recovery

LEMMA NextAnswers == Inv /\ AnswerInv /\ [Next]_vars => AnswerInv'
<1> SUFFICES ASSUME Inv, AnswerInv, [Next]_vars PROVE AnswerInv'
  OBVIOUS
<1>1. RowsKept
  BY StepRowsKept
<1>2. CASE Quiescent \/ UNCHANGED vars
  <2>1. UNCHANGED vars
    BY <1>2 DEF Quiescent
  <2>2. \A q \in Procs : EventsKept(q)
    BY <2>1, TablesEventsKept DEF vars, tables
  <2> QED BY <1>1, <2>1, <2>2, TraceKept, KnownKept DEF AnswerInv, vars
<1>3. ASSUME NEW p \in Requests, NEW in \in Inputs, Receive(p, in) PROVE AnswerInv'
  <2>1. p \in Procs /\ Trace(p)
    BY DEF Procs, AnswerInv
  <2> QED BY <1>1, <1>3, <2>1, ReceiveAnswer, OwnStep, OthersAnswers
<1>4. ASSUME NEW p \in Runs, ProcessPendingOrdersBatch(p) PROVE AnswerInv'
  <2>1. p \in Procs /\ Trace(p)
    BY DEF Procs, AnswerInv
  <2>2. BatchInput.op = "process"
    BY DEF BatchInput, SystemInput
  <2>3. Trace(p)' /\ Known(p)'
    BY <1>4, <2>1, <2>2, ArriveAnswer DEF ProcessPendingOrdersBatch
  <2> QED BY <1>1, <1>4, <2>1, <2>3, OwnStep, OthersAnswers
<1>5. ASSUME NEW p \in Procs, Call(p) \/ Failure(p) \/ Recovery(p) PROVE AnswerInv'
  <2>1. Trace(p)' /\ Known(p)'
    BY <1>5, OwnAnswer DEF AnswerInv
  <2> QED BY <1>1, <1>5, <2>1, OwnStep, OthersAnswers
<1> QED BY <1>2, <1>3, <1>4, <1>5 DEF Next

\* What every request has left in the tables, and what it has learnt of its order,
\* is so in every reachable state, whoever else acts and whatever fails.
THEOREM AnswersInvariance == Spec => []AnswerInv
  BY InitAnswers, NextAnswers, Invariance, PTL DEF Spec

\* No request changes orders twice or in part, whatever its answer says of it: a
\* client that retries after a 500 has at worst one effect of its first attempt
\* (withTx, hydrateOrderDetails).
THEOREM AppliedAtMostOnce == Spec => []EffectAtMostOnce
<1>1. AnswerInv => EffectAtMostOnce
  BY DEF AnswerInv, Trace, EffectAtMostOnce
<1> QED BY <1>1, AnswersInvariance, PTL

\* A client told 201, or 200 for a change, has changed its order once and for good
\* (withTx answers only after COMMIT).
THEOREM Durable == Spec => []SuccessIsDurable
<1>1. AnswerInv => SuccessIsDurable
  BY DEF AnswerInv, Trace, SuccessIsDurable
<1> QED BY <1>1, AnswersInvariance, PTL

\* A client told 4xx has changed nothing, and its transaction is over.
THEOREM RejectedWithoutEffect == Spec => []RejectionHasNoEffect
<1>1. Inv /\ AnswerInv => RejectionHasNoEffect
  BY DEF Inv, TxShape, AnswerInv, Trace, RejectionHasNoEffect
<1> QED BY <1>1, Invariance, AnswersInvariance, PTL

\* What an answer says of the order is so, when it is given and ever after
\* (handler.go's writeHandlerError, resolveStatusUpdateNoRows).
THEOREM Truth == Spec => []AnswersAreTruthful
<1>1. AnswerInv => AnswersAreTruthful
  BY DEF AnswerInv, Known, AnswersAreTruthful
<1> QED BY <1>1, AnswersInvariance, PTL

\* A request whose database calls do not fail is told 500 for two reasons only.
THEOREM ErrorsExplained == Spec => []ServerErrorsExplained
<1>1. AnswerInv => ServerErrorsExplained
  BY DEF AnswerInv, Known, ServerErrorsExplained
<1> QED BY <1>1, AnswersInvariance, PTL

\* Whatever requests, runs and failures interleave, all that is under way can go on or
\* waits for a process that can: the service never deadlocks.
THEOREM NeverStuck == Spec => []NobodyStuck
<1>1. Inv /\ AnswerInv => NobodyStuck
  <2> SUFFICES ASSUME Inv, AnswerInv, NEW p \in Procs,
                      pc[p] \notin {"idle", "done"} \/ tx[p] # "none", ~Runnable(p)
               PROVE  \E q \in Procs : WaitsFor(p, q) /\ Runnable(q)
    BY DEF NobodyStuck
  <2>1. pc[p] \in Labels /\ tx[p] \in {"none", "open", "orphan", "indoubt"}
    BY DEF Inv, TypeOK
  <2>2. pc[p] # "pick"
    <3>1. Pickable(p) \in SUBSET Orders
      BY DEF Pickable
    <3> QED BY <3>1, BatchExists DEF Runnable
  <2>3. pc[p] # "log" /\ pc[p] # "read"
    BY DEF Inv, TxShape, AnswerInv, Trace, Runnable
  <2>4. pc[p] \in {"insert", "cancel", "update"}
    BY <2>1, <2>2, <2>3 DEF Inv, TxShape, Runnable, Labels
  <2>5. \E q \in Procs : WaitsFor(p, q)
    BY <2>4 DEF Runnable, PendingDuplicate, LockedByOther, WaitsFor
  <2> QED BY <2>5, HolderRuns
<1> QED BY <1>1, Invariance, AnswersInvariance, PTL
=============================================================================
