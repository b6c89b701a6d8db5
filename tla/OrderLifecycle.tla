--------------------------- MODULE OrderLifecycle ---------------------------
(***************************************************************************)
(* What the order management system promises about its orders, whatever    *)
(* the number of concurrent requests, worker runs and failures: an order   *)
(* is created PENDING, then moves only along the allowed transitions;      *)
(* every move happens in one step together with one record of the audit    *)
(* trail, and only an actor that is entitled to the move makes it.         *)
(***************************************************************************)
EXTENDS OrderStateMachine, Naturals, Sequences

CONSTANTS Orders,      \* order identifiers
          EventIds,    \* identities of audit records
          Principals   \* values of the actor_id column, NULL included

VARIABLES status,      \* status[o]: the order's status, NoStatus before creation
          trail        \* trail[o]: its audit records, in the order they took effect

vars == <<status, trail>>

\* The audit records: who may record which move, and under which action name.
CreatedEvent ==
  [id: EventIds, actor: {"CUSTOMER"}, actorId: Principals, action: {"CREATED"},
   from: {NoStatus}, to: {StatusPending}]

CancelledEvent ==
  [id: EventIds, actor: {"CUSTOMER"}, actorId: Principals, action: {"CANCELLED"},
   from: {StatusPending}, to: {StatusCancelled}]

StatusUpdatedEvent ==
  UNION {[id: EventIds, actor: {"ADMIN", "SYSTEM"}, actorId: Principals,
          action: {"STATUS_UPDATED"}, from: {t[1]}, to: {t[2]}] :
           t \in allowedTransitions}

WorkerEvent ==
  [id: EventIds, actor: {"SYSTEM"}, actorId: Principals,
   action: {"WORKER_MOVED_TO_PROCESSING"},
   from: {StatusPending}, to: {StatusProcessing}]

Event == CreatedEvent \cup CancelledEvent \cup StatusUpdatedEvent \cup WorkerEvent

Init ==
  /\ status = [o \in Orders |-> NoStatus]
  /\ trail = [o \in Orders |-> << >>]

\* The orders whose trail a step adds to.
Recorded == {o \in Orders : trail'[o] # trail[o]}

\* The orders in S make the move that e records: one order for a request, any
\* number of them, all in one step, for a worker run.
Move(S, e) ==
  /\ e \in WorkerEvent \/ \E o \in Orders : S = {o}
  /\ \A o \in S : status[o] = e.from
  /\ status' = [o \in Orders |-> IF o \in S THEN e.to ELSE status[o]]
  /\ trail' = [o \in Orders |-> IF o \in S THEN Append(trail[o], e) ELSE trail[o]]

Next == Recorded # {} /\ \E e \in Event : Move(Recorded, e)

Spec == Init /\ [][Next]_vars
=============================================================================
