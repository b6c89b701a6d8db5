--------------------------- MODULE MCOrderService ---------------------------
(***************************************************************************)
(* Values for the constants of OrderService: the requests that the runs    *)
(* let clients send.                                                       *)
(***************************************************************************)
EXTENDS OrderService, TLC

CONSTANTS alice, bob, admin, k1

\* Requests of a customer about an order; fields a route ignores are fixed.
In(op, role, customer, o, target, form) ==
  [op |-> op, role |-> role, customer |-> customer,
   subject |-> IF role = "ADMIN" THEN admin ELSE None, order |-> o, key |-> k1,
   target |-> target, form |-> form]

Create(c) == In("create", "CUSTOMER", c, None, StatusPending, "ok")
Get(c, o) == In("get", "CUSTOMER", c, o, StatusPending, "ok")
Cancel(c, o) == In("cancel", "CUSTOMER", c, o, StatusPending, "ok")
Update(role, o, target) == In("update", role, None, o, target, "ok")

\* Two customers who share a key, a privileged caller, two orders, one of them on its
\* way through every status, and every refusal of a handler on the way.
RequestInputs ==
  {Create(alice), Create(bob), Cancel(alice, 1), Cancel(bob, 1), Cancel(alice, None),
   Get(alice, 1), Get(bob, 1)}
    \cup {Update("SYSTEM", 1, t) : t \in validStatuses}
    \cup {Update("ADMIN", 1, StatusProcessing), Update("ADMIN", None, StatusShipped),
          Update("CUSTOMER", 1, StatusShipped), Update(None, 1, StatusShipped)}
    \cup {In(op, "CUSTOMER", alice, None, StatusShipped, "malformed") :
            op \in {"create", "get"}}
    \cup {In("update", "ADMIN", None, None, StatusShipped, "malformed"),
          In("create", "ADMIN", None, None, StatusPending, "ok"),
          In("cancel", None, None, None, StatusPending, "ok"),
          In("create", "CUSTOMER", alice, None, StatusPending, "overflow")}

\* A few customers and a batch: what may still fail or wait.
FaultInputs == {Create(alice), Cancel(alice, 1), Update("ADMIN", 1, StatusProcessing)}

Interchangeable == Permutations(Requests) \cup Permutations(Runs)
InterchangeableRequests == Permutations(Requests)
=============================================================================
