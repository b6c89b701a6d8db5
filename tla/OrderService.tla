---------------------------- MODULE OrderService ----------------------------
(***************************************************************************)
(* The order service: HTTP requests that create, read, cancel and update   *)
(* orders (internal/orders/handler.go, service.go), the worker runs that   *)
(* move PENDING orders to PROCESSING in batches, and the PostgreSQL        *)
(* transactions both make (repository.go, db/orders.sql.go).               *)
(*                                                                         *)
(* A process is one request or one worker run.  Every call to the database *)
(* is a step of its own, so that steps of other processes come between any *)
(* two calls.  What a transaction wrote stays private to it (wOrders,      *)
(* wItems, wEvents) until the step that commits it; the orders it wrote    *)
(* stay locked until it ends, which may be after its process answered.     *)
(*                                                                         *)
(* The transactions are READ COMMITTED (withTx passes the zero TxOptions): *)
(* an UPDATE whose condition the committed row does not meet finds no row, *)
(* one that matches a row another transaction wrote waits for its end.     *)
(*                                                                         *)
(* An order identifier is the rank of the order in the worker's sort order *)
(* (created_at, id).  created_at is the time the transaction began and id  *)
(* is random, so ranks are taken in any order.                             *)
(***************************************************************************)
EXTENDS OrderStateMachine, Naturals, Sequences, FiniteSets

CONSTANTS Requests,    \* HTTP requests, each served once
          Runs,        \* worker runs, of one replica after another or of several
          Orders,      \* the order identifiers newUUID may return, as ranks
          Customers,
          Subjects,    \* subject identifiers of privileged callers
          Keys,        \* idempotency keys
          Inputs,      \* the requests that clients send
          BatchSize,   \* WORKER_BATCH_SIZE
          Faulty,      \* the processes whose database calls may fail
          None         \* an absent value: SQL NULL, nil, an unknown order

Procs == Requests \cup Runs

Ops == {"create", "get", "cancel", "update"}
Roles == {"CUSTOMER", "ADMIN", "SYSTEM"}

\* A request: the identity that the auth middleware put in its context (role
\* None: none, the middleware refused it), the route, the order in the path and
\* what the body says.  form "malformed": a path or body that decoding or
\* validation refuses; "overflow": a total that does not fit in int64.
Input == [op: Ops, role: Roles \cup {None}, customer: Customers \cup {None},
          subject: Subjects \cup {None}, order: Orders \cup {None},
          key: Keys, target: validStatuses, form: {"ok", "malformed", "overflow"}]

ASSUME ProcessesAssumption == Requests \cap Runs = {} /\ Faulty \subseteq Procs
ASSUME OrdersAssumption == Orders \subseteq Nat /\ IsFiniteSet(Orders)
ASSUME NoneAssumption == /\ None \notin Orders
                         /\ None \notin Customers
                         /\ None \notin Subjects
                         /\ None \notin Keys
                         /\ None \notin Roles
ASSUME InputsAssumption == Inputs \subseteq Input
ASSUME BatchSizeAssumption == BatchSize \in Nat \ {0}

VARIABLES orders,    \* the orders table, committed rows
          items,     \* the orders whose order_items rows are committed
          events,    \* order_events per order, in the order they were committed
          pc,        \* the database call each process makes next
          req,       \* the request a process serves
          resp,      \* its HTTP status, 0 before it answers (runs: 200 or 500)
          tx,        \* the state of its transaction in the database
          wOrders,   \* orders its open transaction wrote, and has locked
          wItems,    \* orders whose items its open transaction inserted
          wEvents    \* orders it inserted an audit event for

tables == <<orders, items, events>>
txvars == <<tx, wOrders, wItems, wEvents>>
vars == <<orders, items, events, pc, req, resp, tx, wOrders, wItems, wEvents>>

-----------------------------------------------------------------------------
(* The tables. *)

NoRow == [customer |-> None, key |-> None, status |-> NoStatus]

Row == [customer: Customers, key: Keys, status: validStatuses]

Exists(o) == o \in Orders /\ orders[o].status # NoStatus

\* A row lock that another transaction than p's holds on o.
LockedByOther(p, o) == \E q \in Procs \ {p} : o \in wOrders[q]

\* The request of a worker run, and what a process has before it serves one.
SystemInput(op) == [op |-> op, role |-> "SYSTEM", customer |-> None,
                    subject |-> None, order |-> None, key |-> None,
                    target |-> StatusProcessing, form |-> "ok"]
BatchInput == SystemInput("process")
NoInput == SystemInput("none")

\* The move each operation makes: the constants of the SQL statements for a
\* cancellation and a worker run, the inferred status for the status endpoint.
FromStatus(in) ==
  IF in.op = "create" THEN NoStatus
  ELSE IF in.op = "update" THEN expectedStatusForTarget(in.target)
  ELSE StatusPending

ToStatus(in) ==
  IF in.op = "create" THEN StatusPending
  ELSE IF in.op = "cancel" THEN StatusCancelled
  ELSE IF in.op = "update" THEN in.target
  ELSE StatusProcessing

\* privilegedActorID: only an ADMIN or SYSTEM subject is recorded.
privilegedActorID(in) == IF in.role \in {"ADMIN", "SYSTEM"} THEN in.subject ELSE None

ActionOf(op) ==
  IF op = "create" THEN "CREATED"
  ELSE IF op = "cancel" THEN "CANCELLED"
  ELSE IF op = "update" THEN "STATUS_UPDATED"
  ELSE "WORKER_MOVED_TO_PROCESSING"

\* The order_events row that CreateOrderEvent inserts: the caller of the customer
\* routes is recorded as a CUSTOMER whatever its role, others under their role.
EventOf(p) ==
  LET in == req[p]
      byCustomer == in.op \in {"create", "cancel"}
  IN  [id |-> p,
       actor |-> IF byCustomer THEN "CUSTOMER" ELSE in.role,
       actorId |-> IF byCustomer THEN in.customer ELSE privilegedActorID(in),
       action |-> ActionOf(in.op),
       from |-> FromStatus(in),
       to |-> ToStatus(in)]

\* The orders row that a transaction of p leaves.
RowOf(p, o) ==
  IF req[p].op = "create"
  THEN [customer |-> req[p].customer, key |-> req[p].key, status |-> StatusPending]
  ELSE [customer |-> orders[o].customer, key |-> orders[o].key,
        status |-> ToStatus(req[p])]

-----------------------------------------------------------------------------
(* Steps that the operations share. *)

GoTo(p, label) == pc' = [pc EXCEPT ![p] = label] /\ UNCHANGED resp

Reply(p, code) ==
  /\ pc' = [pc EXCEPT ![p] = "done"]
  /\ resp' = [resp EXCEPT ![p] = code]

\* The transaction of p is over and holds no lock.
EndTx(p) ==
  /\ tx' = [tx EXCEPT ![p] = "none"]
  /\ wOrders' = [wOrders EXCEPT ![p] = {}]
  /\ wItems' = [wItems EXCEPT ![p] = {}]
  /\ wEvents' = [wEvents EXCEPT ![p] = {}]

\* Mutant: withTx without the deferred Rollback.
RollbackLeak(p) == UNCHANGED txvars

\* The deferred Rollback of withTx, run before the error reaches the caller.
Rollback(p) == EndTx(p)

\* The database makes what p's transaction wrote visible, all in one step.
ApplyTx(p) ==
  /\ orders' = [o \in Orders |-> IF o \in wOrders[p] THEN RowOf(p, o) ELSE orders[o]]
  /\ items' = items \cup wItems[p]
  /\ events' = [o \in Orders |-> IF o \in wEvents[p]
                                 THEN Append(events[o], EventOf(p)) ELSE events[o]]
  /\ EndTx(p)

-----------------------------------------------------------------------------
(* Requests arrive. *)

\* An order's id reaches clients only once the order is committed: any other id
\* in a path is that of no order.
KnownOrder(in) == in.order = None \/ Exists(in.order)

Arrive(p, in, code, label) ==
  /\ pc[p] = "idle"
  /\ req' = [req EXCEPT ![p] = in]
  /\ IF code # 0 THEN Reply(p, code) ELSE GoTo(p, label)
  /\ UNCHANGED <<tables, txvars>>

\* The bound on creations: an id is left for every one that may still take it.
IdsLeft ==
  Cardinality({o \in Orders : Exists(o)})
    + Cardinality({p \in Procs : req[p].op = "create"
                                 /\ (pc[p] # "done" \/ tx[p] # "none")})
  < Cardinality(Orders)

CreateOrder(p, in) ==
  /\ in.op = "create"
  /\ IdsLeft
  /\ Arrive(p, in,
            IF in.role = None \/ in.customer = None THEN 401
            ELSE IF in.form = "malformed" THEN 400
            ELSE IF in.form = "overflow" THEN 500
            ELSE 0,
            "begin")

\* GetOrder and CancelOrder read the order first, outside any transaction.
ReadFirst(p, in) ==
  /\ KnownOrder(in)
  /\ Arrive(p, in,
            IF in.role = None \/ in.customer = None THEN 401
            ELSE IF in.form = "malformed" THEN 400
            ELSE 0,
            "read")

GetOrder(p, in) == in.op = "get" /\ ReadFirst(p, in)
CancelOrder(p, in) == in.op = "cancel" /\ ReadFirst(p, in)

\* RequireRole, the handler, UpdateOrderStatusByTarget, and the checks that
\* UpdateOrderStatus makes before its transaction.
UpdateOrderStatus(p, in) ==
  /\ in.op = "update"
  /\ KnownOrder(in)
  /\ Arrive(p, in,
            IF in.role = None THEN 401
            ELSE IF in.role \notin {"ADMIN", "SYSTEM"} THEN 403
            ELSE IF in.form = "malformed" THEN 400
            ELSE IF \/ expectedStatusError(in.target) # "nil"
                    \/ ValidateTransition(FromStatus(in), in.target) # "nil" THEN 409
            ELSE 0,
            "begin")

\* runOnce calls ProcessPendingOrdersBatch.
ProcessPendingOrdersBatch(p) == Arrive(p, BatchInput, 0, "begin")

-----------------------------------------------------------------------------
(* Calls to the database. *)

Owned(p) == Exists(req[p].order) /\ orders[req[p].order].customer = req[p].customer

\* service.GetOrder: the order, and if the caller owns it, its items.
GetRead(p) ==
  /\ pc[p] = "read" /\ req[p].op = "get"
  /\ IF Owned(p) THEN GoTo(p, "hydrate") ELSE Reply(p, 404)
  /\ UNCHANGED <<tables, txvars, req>>

\* service.CancelOrder up to the transaction.
CancelRead(p) ==
  /\ pc[p] = "read" /\ req[p].op = "cancel"
  /\ IF ~Owned(p)
     THEN Reply(p, 404)
     ELSE IF ValidateTransition(orders[req[p].order].status, StatusCancelled) # "nil"
     THEN Reply(p, 409)
     ELSE GoTo(p, "begin")
  /\ UNCHANGED <<tables, txvars, req>>

FirstStatement(op) ==
  IF op = "create" THEN "insert" ELSE IF op = "process" THEN "pick" ELSE op

BeginTx(p) ==
  /\ pc[p] = "begin"
  /\ tx' = [tx EXCEPT ![p] = "open"]
  /\ GoTo(p, FirstStatement(req[p].op))
  /\ UNCHANGED <<tables, req, wOrders, wItems, wEvents>>

SameKey(customer, key, p) == customer = req[p].customer /\ key = req[p].key

CommittedDuplicate(p) ==
  \E o \in Orders : Exists(o) /\ SameKey(orders[o].customer, orders[o].key, p)

\* Mutant: a uniqueness check that sees only committed rows.
PendingDuplicateIgnored(p) == FALSE

\* The unique index also makes an INSERT wait for the end of a transaction that
\* inserted the same key.
PendingDuplicate(p) ==
  \E q \in Procs \ {p} : /\ req[q].op = "create" /\ wOrders[q] # {}
                         /\ SameKey(req[q].customer, req[q].key, p)

\* The INSERT of CreateOrder, with an id that newUUID never returned before.
InsertOrder(p) ==
  /\ pc[p] = "insert"
  /\ ~CommittedDuplicate(p)
  /\ ~PendingDuplicate(p)
  /\ \E o \in Orders :
       /\ ~Exists(o) /\ ~LockedByOther(p, o)
       /\ wOrders' = [wOrders EXCEPT ![p] = {o}]
  /\ GoTo(p, "items")
  /\ UNCHANGED <<tables, req, tx, wItems, wEvents>>

\* The unique violation that isIdempotencyConflictError recognises.
InsertConflict(p) ==
  /\ pc[p] = "insert"
  /\ CommittedDuplicate(p)
  /\ Rollback(p)
  /\ Reply(p, 409)
  /\ UNCHANGED <<tables, req>>

\* The loop of CreateOrderItem: its rows become visible together or not at all.
InsertItems(p) ==
  /\ pc[p] = "items"
  /\ wItems' = [wItems EXCEPT ![p] = wOrders[p]]
  /\ GoTo(p, "log")
  /\ UNCHANGED <<tables, req, tx, wOrders, wEvents>>

\* Mutant: an UPDATE ... WHERE id = $1, without the condition on the status.
MatchesAnyStatus(p) ==
  /\ Exists(req[p].order)
  /\ req[p].op = "cancel" => orders[req[p].order].customer = req[p].customer

\* The WHERE clause of the two UPDATE statements on one order.
Matches(p) ==
  /\ Exists(req[p].order)
  /\ orders[req[p].order].status = FromStatus(req[p])
  /\ req[p].op = "cancel" => orders[req[p].order].customer = req[p].customer

\* The UPDATE has found its row and no other transaction holds it.
WriteOrder(p) ==
  /\ Matches(p)
  /\ ~LockedByOther(p, req[p].order)
  /\ wOrders' = [wOrders EXCEPT ![p] = {req[p].order}]
  /\ GoTo(p, "log")
  /\ UNCHANGED <<tables, req, tx, wItems, wEvents>>

CancelPendingOrder(p) == pc[p] = "cancel" /\ WriteOrder(p)

\* service.CancelOrder returns pgx.ErrNoRows as it is; the handler makes it a 500.
CancelNoRows(p) ==
  /\ pc[p] = "cancel"
  /\ ~Matches(p)
  /\ Rollback(p)
  /\ Reply(p, 500)
  /\ UNCHANGED <<tables, req>>

UpdateOrderStatusIfCurrentStatusMatches(p) == pc[p] = "update" /\ WriteOrder(p)

\* Mutant: pgx.ErrNoRows is not resolved, as in a cancellation.
UpdateNoRowsUnmapped(p) ==
  /\ pc[p] = "update"
  /\ ~Matches(p)
  /\ Rollback(p)
  /\ Reply(p, 500)
  /\ UNCHANGED <<tables, req>>

UpdateNoRows(p) ==
  /\ pc[p] = "update"
  /\ ~Matches(p)
  /\ Rollback(p)
  /\ GoTo(p, "resolve")
  /\ UNCHANGED <<tables, req>>

\* Mutant: every failed update is reported as a missing order.
resolveAlwaysNotFound(p) ==
  /\ pc[p] = "resolve"
  /\ Reply(p, 404)
  /\ UNCHANGED <<tables, txvars, req>>

\* An update that found no row is told apart by the order's audit events.
resolveStatusUpdateNoRows(p) ==
  /\ pc[p] = "resolve"
  /\ Reply(p, IF req[p].order = None THEN 404
              ELSE IF events[req[p].order] = << >> THEN 404 ELSE 409)
  /\ UNCHANGED <<tables, txvars, req>>

\* Mutant: the rows that other transactions hold are picked too.
PickableLocked(p) == {o \in Orders : orders[o].status = StatusPending}

\* FOR UPDATE SKIP LOCKED.
Pickable(p) == {o \in Orders : orders[o].status = StatusPending /\ ~LockedByOther(p, o)}

\* ORDER BY created_at, id LIMIT BatchSize.
OldestOf(S, C) ==
  /\ S \subseteq C
  /\ Cardinality(S) <= BatchSize
  /\ S # C => Cardinality(S) = BatchSize
  /\ \A o \in S, c \in C \ S : o < c

WorkerPickAndMove(p) ==
  /\ pc[p] = "pick"
  /\ \E S \in SUBSET Pickable(p) :
       /\ OldestOf(S, Pickable(p))
       /\ wOrders' = [wOrders EXCEPT ![p] = S]
       /\ GoTo(p, IF S = {} THEN "commit" ELSE "log")
  /\ UNCHANGED <<tables, req, tx, wItems, wEvents>>

\* Mutant: the event is inserted outside the transaction (r.queries for queries).
CreateOrderEventOutsideTx(p) ==
  /\ pc[p] = "log"
  /\ \E o \in wOrders[p] \ wEvents[p] :
       /\ events' = [events EXCEPT ![o] = Append(@, EventOf(p))]
       /\ GoTo(p, "commit")
  /\ UNCHANGED <<orders, items, req, txvars>>

\* CreateOrderEvent, once per order; a worker run loops over its batch.
CreateOrderEvent(p) ==
  /\ pc[p] = "log"
  /\ \E o \in wOrders[p] \ wEvents[p] :
       /\ wEvents' = [wEvents EXCEPT ![p] = @ \cup {o}]
       /\ GoTo(p, IF wOrders[p] \subseteq wEvents[p] \cup {o} THEN "commit" ELSE "log")
  /\ UNCHANGED <<tables, req, tx, wOrders, wItems>>

\* What follows a commit: the responses of a cancellation and of an update still
\* need the order's items.
AfterCommit(p) ==
  IF req[p].op = "create" THEN Reply(p, 201)
  ELSE IF req[p].op = "process" THEN Reply(p, 200)
  ELSE GoTo(p, "hydrate")

Commit(p) ==
  /\ pc[p] = "commit"
  /\ ApplyTx(p)
  /\ AfterCommit(p)
  /\ UNCHANGED req

\* GetOrderItemsByOrderID for the response, after the transaction.
Hydrate(p) ==
  /\ pc[p] = "hydrate"
  /\ Reply(p, 200)
  /\ UNCHANGED <<tables, txvars, req>>

-----------------------------------------------------------------------------
(* Failures: the connection is lost, or the request's context is cancelled. *)

\* A call other than COMMIT fails.  Rollback may fail with it, and the database
\* then ends the transaction on its own time.
CallFails(p) ==
  /\ p \in Faulty
  /\ pc[p] \notin {"idle", "commit", "done"}
  /\ tx' = [tx EXCEPT ![p] = IF @ = "open" THEN "orphan" ELSE @]
  /\ Reply(p, 500)
  /\ UNCHANGED <<tables, req, wOrders, wItems, wEvents>>

\* Mutant: committed = true before the call, a failed COMMIT is a success.
CommitFailsSilently(p) ==
  /\ p \in Faulty
  /\ pc[p] = "commit"
  /\ tx' = [tx EXCEPT ![p] = "indoubt"]
  /\ AfterCommit(p)
  /\ UNCHANGED <<tables, req, wOrders, wItems, wEvents>>

\* Mutant: withTx runs the transaction again when COMMIT fails.
CommitFailsRetried(p) ==
  /\ p \in Faulty
  /\ pc[p] = "commit"
  /\ \/ ApplyTx(p)
     \/ EndTx(p) /\ UNCHANGED tables
  /\ GoTo(p, "begin")
  /\ UNCHANGED req

\* COMMIT fails: whether the database carries it out is not known.
CommitFails(p) ==
  /\ p \in Faulty
  /\ pc[p] = "commit"
  /\ tx' = [tx EXCEPT ![p] = "indoubt"]
  /\ Reply(p, 500)
  /\ UNCHANGED <<tables, req, wOrders, wItems, wEvents>>

\* The database ends a transaction that its client has given up.
Reap(p) ==
  /\ tx[p] \in {"orphan", "indoubt"}
  /\ EndTx(p)
  /\ UNCHANGED <<tables, pc, req, resp>>

\* The COMMIT of a client that has given up arrives after all.
LateCommit(p) ==
  /\ tx[p] = "indoubt"
  /\ ApplyTx(p)
  /\ UNCHANGED <<pc, req, resp>>

-----------------------------------------------------------------------------
Init ==
  /\ orders = [o \in Orders |-> NoRow]
  /\ items = {}
  /\ events = [o \in Orders |-> << >>]
  /\ pc = [p \in Procs |-> "idle"]
  /\ req = [p \in Procs |-> NoInput]
  /\ resp = [p \in Procs |-> 0]
  /\ tx = [p \in Procs |-> "none"]
  /\ wOrders = [p \in Procs |-> {}]
  /\ wItems = [p \in Procs |-> {}]
  /\ wEvents = [p \in Procs |-> {}]

Receive(p, in) ==
  CreateOrder(p, in) \/ GetOrder(p, in) \/ CancelOrder(p, in) \/ UpdateOrderStatus(p, in)

Call(p) ==
  \/ GetRead(p) \/ CancelRead(p) \/ BeginTx(p)
  \/ InsertOrder(p) \/ InsertConflict(p) \/ InsertItems(p)
  \/ CancelPendingOrder(p) \/ CancelNoRows(p)
  \/ UpdateOrderStatusIfCurrentStatusMatches(p) \/ UpdateNoRows(p)
  \/ resolveStatusUpdateNoRows(p)
  \/ WorkerPickAndMove(p)
  \/ CreateOrderEvent(p) \/ Commit(p) \/ Hydrate(p)

Failure(p) == CallFails(p) \/ CommitFails(p)
Recovery(p) == Reap(p) \/ LateCommit(p)

\* Nothing is under way; no client has to send another request.
Quiescent ==
  /\ \A p \in Procs : pc[p] \in {"idle", "done"} /\ tx[p] = "none"
  /\ UNCHANGED vars

Next ==
  \/ \E p \in Requests, in \in Inputs : Receive(p, in)
  \/ \E p \in Runs : ProcessPendingOrdersBatch(p)
  \/ \E p \in Procs : Call(p) \/ Failure(p) \/ Recovery(p)
  \/ Quiescent

Spec == Init /\ [][Next]_vars

\* A process that has a database call to make makes it, and the database ends
\* the transactions of lost connections.  Nobody has to send a request.
Fairness == \A p \in Procs : WF_vars(Call(p)) /\ WF_vars(Recovery(p))

FairSpec == Spec /\ Fairness

-----------------------------------------------------------------------------
(* Properties. *)

Labels == {"idle", "read", "begin", "insert", "items", "cancel", "update",
           "resolve", "pick", "log", "commit", "hydrate", "done"}
Codes == {200, 201, 400, 401, 403, 404, 409, 500}

\* The service implements OrderLifecycle: the status column and the audit rows.
Lifecycle == INSTANCE OrderLifecycle
               WITH EventIds <- Procs,
                    Principals <- Customers \cup Subjects \cup {None},
                    status <- [o \in Orders |-> orders[o].status],
                    trail <- events

\* Every variable has its type: rows, audit events, labels and HTTP statuses.
TypeOK ==
  /\ orders \in [Orders -> Row \cup {NoRow}]
  /\ items \subseteq Orders
  /\ events \in [Orders -> Seq(Lifecycle!Event)]
  /\ pc \in [Procs -> Labels]
  /\ req \in [Procs -> Input \cup {BatchInput, NoInput}]
  /\ resp \in [Procs -> Codes \cup {0}]
  /\ tx \in [Procs -> {"none", "open", "orphan", "indoubt"}]
  /\ wOrders \in [Procs -> SUBSET Orders]
  /\ wItems \in [Procs -> SUBSET Orders]
  /\ wEvents \in [Procs -> SUBSET Orders]

\* The audit trail of an order explains its status: the rows of order, items and
\* events appear together; the first event created it, each later one starts
\* where the one before ended and is an allowed transition, the last one ends in
\* the status column, and a customer who acted on it is its owner.  (The
\* ...WithAudit methods of the repository, CancelOrder's checks of customer_id.)
AuditTrail ==
  \A o \in Orders :
    LET n == Len(events[o]) IN
    /\ Exists(o) <=> n > 0
    /\ Exists(o) <=> o \in items
    /\ n > 0 => events[o][1].from = NoStatus /\ events[o][n].to = orders[o].status
    /\ \A i \in 2..n : /\ events[o][i].from = events[o][i - 1].to
                       /\ CanTransition(events[o][i].from, events[o][i].to)
    /\ \A i \in 1..n : events[o][i].actor = "CUSTOMER"
                         => events[o][i].actorId = orders[o].customer

\* However many creations with one idempotency key race, fail or are retried, at
\* most one order has it (UNIQUE (customer_id, idempotency_key)).
OneOrderPerKey ==
  \A o1, o2 \in Orders :
    Exists(o1) /\ Exists(o2) /\ o1 # o2
      => <<orders[o1].customer, orders[o1].key>> # <<orders[o2].customer, orders[o2].key>>

\* No row is written by two transactions at once, the ones of lost connections
\* included.
LocksExclusive == \A p, q \in Procs : p # q => wOrders[p] \cap wOrders[q] = {}

\* The checks that a request has passed once it is past its handler.
Accepted(in) ==
  /\ in.op \in {"create", "cancel"} => in.customer # None
  /\ in.op = "update" => /\ in.role \in {"ADMIN", "SYSTEM"}
                         /\ CanTransition(FromStatus(in), in.target)

\* What the transaction of p has written, by the call that p makes next.
TxShape(p) ==
  /\ pc[p] = "idle" => req[p] = NoInput
  /\ pc[p] \notin {"idle", "done"} \/ tx[p] # "none" => Accepted(req[p])
  /\ pc[p] \in {"begin", "log", "commit"} \/ tx[p] # "none"
       => req[p].op \in {"create", "cancel", "update", "process"}
  /\ pc[p] \in {"insert", "items"} => req[p].op = "create"
  /\ pc[p] = "cancel" => req[p].op = "cancel"
  /\ pc[p] \in {"update", "resolve"} => req[p].op = "update"
  /\ pc[p] = "pick" => req[p].op = "process"
  /\ tx[p] = "open" <=> pc[p] \in {"insert", "items", "cancel", "update",
                                   "pick", "log", "commit"}
  /\ tx[p] \in {"orphan", "indoubt"} => pc[p] = "done"
  /\ tx[p] = "none" \/ pc[p] \in {"insert", "cancel", "update", "pick"}
       => wOrders[p] = {} /\ wItems[p] = {} /\ wEvents[p] = {}
  /\ pc[p] = "items" => wOrders[p] # {} /\ wItems[p] = {} /\ wEvents[p] = {}
  /\ pc[p] = "log" => wOrders[p] \ wEvents[p] # {}
  /\ wEvents[p] \subseteq wOrders[p]
  /\ pc[p] \in {"log", "commit"} \/ tx[p] = "indoubt"
       => wItems[p] = IF req[p].op = "create" THEN wOrders[p] ELSE {}
  /\ pc[p] = "commit" \/ tx[p] = "indoubt" => wEvents[p] = wOrders[p]
  /\ req[p].op # "process" => \A o1, o2 \in wOrders[p] : o1 = o2

\* What a transaction read of the orders it wrote is still so: nobody changes the
\* status it moves them from, nor the owner it checked.
WritesCurrent ==
  \A p \in Procs : \A o \in wOrders[p] :
    /\ orders[o].status = FromStatus(req[p])
    /\ req[p].op = "cancel" => orders[o].customer = req[p].customer

\* A creation that has inserted its order owns its key, against committed orders
\* and against the other open transactions.
KeysReserved ==
  \A p \in Procs :
    req[p].op = "create" /\ wOrders[p] # {} => ~CommittedDuplicate(p) /\ ~PendingDuplicate(p)

\* The inductive invariant: transactions in progress stay exclusive, current and
\* complete, so that a commit, at once or late, keeps the audit trail and the
\* keys right.
Inv ==
  /\ TypeOK
  /\ LocksExclusive
  /\ \A p \in Procs : TxShape(p)
  /\ WritesCurrent
  /\ AuditTrail
  /\ KeysReserved
  /\ OneOrderPerKey

Writes(p) == req[p].op \in {"create", "cancel", "update"}

\* The positions in the trail of o of the audit events that p's request left.
EventsBy(p, o) == {i \in DOMAIN events[o] : events[o][i].id = p}

Unrecorded(p) == \A o \in Orders : EventsBy(p, o) = {}

\* The request of p left one audit event and no more, on the order it named.
RecordedOnce(p) ==
  \E o \in Orders :
    /\ req[p].op = "create" \/ req[p].order = o
    /\ \E i \in DOMAIN events[o] : EventsBy(p, o) = {i} /\ events[o][i] = EventOf(p)
    /\ \A x \in Orders \ {o} : EventsBy(p, x) = {}

\* Whatever the client of p is told, or is not told yet, its request has taken effect
\* as a whole and once, or not at all: a 500 after a committed change (the read of
\* the items failed) and one before a COMMIT that takes effect late included.
AtMostOnce(p) == Writes(p) => Unrecorded(p) \/ RecordedOnce(p)

\* No request changes orders twice or in part, whatever its answer says of it.
EffectAtMostOnce == \A p \in Procs : AtMostOnce(p)

\* A client told 201, or 200 for a change, finds it in the tables for good: one
\* audit event of its request and no more, on the order it named, and no
\* transaction left to undo or repeat it (withTx answers only after COMMIT).
SuccessIsDurable ==
  \A p \in Procs :
    pc[p] = "done" /\ Writes(p) /\ resp[p] \in {200, 201}
      => tx[p] = "none" /\ RecordedOnce(p)

Rejections == {400, 401, 403, 404, 409}

\* A client told 4xx changed nothing, and will not: no audit event of its request
\* and no transaction left that could still commit or hold a lock.
RejectionHasNoEffect ==
  \A p \in Procs :
    resp[p] \in Rejections => Unrecorded(p) /\ tx[p] = "none" /\ wOrders[p] = {}

\* What an answer says of the order is so: a create refused with 409 lost to
\* another request's order with its key; 404 names an order that does not exist
\* or, unless a privileged caller asked, is not the caller's; 409 to a
\* cancellation or an update names an order that exists and, for the former, is
\* the caller's and no longer PENDING; 200 to a read is the caller's order.
Truthful(p) ==
  LET o == req[p].order IN
  /\ resp[p] = 409 /\ req[p].op = "create" => CommittedDuplicate(p)
  /\ resp[p] = 404 => IF req[p].op = "update" THEN ~Exists(o) ELSE ~Owned(p)
  /\ resp[p] = 409 /\ req[p].op = "cancel"
       => Owned(p) /\ orders[o].status # StatusPending
  /\ resp[p] = 409 /\ req[p].op = "update"
       => Exists(o) \/ req[p].target = StatusPending
  /\ resp[p] = 200 /\ req[p].op = "get" => Owned(p)

\* Every answer is truthful, and stays so however the order moves on.
AnswersAreTruthful == \A p \in Procs : Truthful(p)

\* A 500 without a failing call is a total that overflows, or a cancellation that
\* lost a race after it read a PENDING order.
Explained(p) ==
  resp[p] = 500 => \/ req[p].op = "create" /\ req[p].form = "overflow"
                   \/ /\ req[p].op = "cancel" /\ Owned(p)
                      /\ orders[req[p].order].status # StatusPending

\* Without a failing call, a 500 has one of these two causes (the errors that
\* writeHandlerError does not know).
ServerErrorsExplained == \A p \in Procs \ Faulty : Explained(p)

\* What the request of p has left in the tables, by how far it has come: nothing
\* before its commit, nothing if it is refused, one event if it succeeds.
Trace(p) ==
  /\ pc[p] # "done" => resp[p] = 0
  /\ pc[p] = "read" => req[p].op \in {"get", "cancel"}
  /\ pc[p] = "hydrate" => req[p].op \in {"get", "cancel", "update"}
  /\ req[p].op \in {"cancel", "update"} => wOrders[p] \subseteq {req[p].order}
  /\ pc[p] \in {"items", "log", "commit"} \/ tx[p] = "indoubt"
       => req[p].op = "process" \/ wOrders[p] # {}
  /\ resp[p] \in {200, 201} \cup Rejections => tx[p] = "none"
  /\ \/ pc[p] \notin {"hydrate", "done"} \/ tx[p] # "none"
     \/ resp[p] \in Rejections
     => Unrecorded(p)
  /\ Writes(p) /\ (pc[p] = "hydrate" \/ resp[p] \in {200, 201}) => RecordedOnce(p)
  /\ AtMostOnce(p)

\* What p has learnt of the order it names, which no other process undoes.
Known(p) ==
  /\ pc[p] # "idle" /\ req[p].op \in {"get", "cancel", "update"} => KnownOrder(req[p])
  /\ req[p].op = "get" /\ pc[p] = "hydrate" => Owned(p)
  /\ req[p].op = "cancel" /\ pc[p] \in {"begin", "cancel"} => Owned(p)
  /\ resp[p] = 404 => req[p].op \in {"get", "cancel", "update"}
  /\ Truthful(p)
  /\ p \notin Faulty => Explained(p)

\* With Inv, the inductive invariant of what requests are told.
AnswerInv == \A p \in Procs : Trace(p) /\ Known(p)

\* What a step never does: remove an order, change its owner or its key, or move it
\* against the state machine (no query of db/orders.sql.go deletes a row, or sets the
\* former).
RowsKept ==
  \A o \in Orders :
    Exists(o) => /\ Exists(o)'
                 /\ orders'[o].customer = orders[o].customer
                 /\ orders'[o].key = orders[o].key
                 /\ \/ orders'[o].status = orders[o].status
                    \/ CanTransition(orders[o].status, orders'[o].status)

\* Nor does it change an audit event, or one's place in the trail.
TrailsKept ==
  \A o \in Orders : \A i \in DOMAIN events[o] :
    i \in DOMAIN events'[o] /\ events'[o][i] = events[o][i]

\* The audit events of q stay where they are in every trail, and none is added.
EventsKept(q) ==
  \A o \in Orders : /\ EventsBy(q, o)' = EventsBy(q, o)
                    /\ \A i \in EventsBy(q, o) : events'[o][i] = events[o][i]

\* The call that p makes next waits for the end of q's transaction: for a row that
\* q has written, or for a key that it has inserted.
WaitsFor(p, q) ==
  /\ q # p
  /\ \/ /\ pc[p] \in {"cancel", "update"}
        /\ Matches(p)
        /\ req[p].order \in wOrders[q]
     \/ /\ pc[p] = "insert"
        /\ req[q].op = "create" /\ wOrders[q] # {}
        /\ SameKey(req[q].customer, req[q].key, p)

\* Whoever is waited for waits for nobody: its next call writes nothing that is
\* locked, or it has none left to make and the database ends its transaction.  (No
\* transaction of repository.go updates a second row after it has locked one.)
NobodyWaitsForAWaiter ==
  \A p, q \in Procs :
    WaitsFor(p, q) => /\ \/ pc[q] \in {"items", "log", "commit"}
                         \/ tx[q] \in {"orphan", "indoubt"}
                      /\ \A r \in Procs : ~WaitsFor(q, r)

\* The call that p makes next, or the end of its transaction, waits for nothing.
Runnable(p) ==
  \/ pc[p] = "read" /\ req[p].op \in {"get", "cancel"}
  \/ pc[p] \in {"begin", "items", "commit", "hydrate", "resolve"}
  \/ pc[p] = "insert" /\ (CommittedDuplicate(p) \/ ~PendingDuplicate(p))
  \/ pc[p] \in {"cancel", "update"} /\ (Matches(p) => ~LockedByOther(p, req[p].order))
  \/ pc[p] = "pick" /\ \E S \in SUBSET Pickable(p) : OldestOf(S, Pickable(p))
  \/ pc[p] = "log" /\ wOrders[p] \ wEvents[p] # {}
  \/ tx[p] \in {"orphan", "indoubt"}

\* Whatever is under way can go on, or waits for one that can: no set of requests
\* and runs is stuck, as long as newUUID returns new identifiers.
NobodyStuck ==
  \A p \in Procs :
    pc[p] \notin {"idle", "done"} \/ tx[p] # "none"
      => Runnable(p) \/ \E q \in Procs : WaitsFor(p, q) /\ Runnable(q)

\* README: cancelling an owned order that is PROCESSING, SHIPPED, DELIVERED or
\* already CANCELLED answers 409 Conflict (service.CancelOrder).
LateCancelIsConflict ==
  \A p \in Procs \ Faulty :
    pc[p] = "done" /\ req[p].op = "cancel" /\ req[p].form = "ok" /\ Owned(p)
      => resp[p] \in {200, 409}

\* The service implements the abstract lifecycle: every change of a status is
\* one entitled move, in one step with its audit record (withTx).
ImplementsLifecycle == Lifecycle!Spec

\* Every request and every worker run ends, and so does its transaction: no
\* process waits for ever for a row or key that another holds.
EveryoneFinishes ==
  \A p \in Procs : pc[p] # "idle" ~> pc[p] = "done" /\ tx[p] = "none"
=============================================================================
