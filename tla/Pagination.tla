----------------------------- MODULE Pagination -----------------------------
(***************************************************************************)
(* GET /orders: a customer reads a list of orders page by page, newest     *)
(* first, while creations commit and statuses change between any two       *)
(* steps.  A page is one SELECT bounded by the cursor of the page before   *)
(* (keyset pagination on created_at and id); then the items are read,      *)
(* order by order, outside any transaction; then the handler decides       *)
(* whether there is a next page.  Every call may fail and every answer may *)
(* be lost; the client asks again with the cursor it has.  Listings only   *)
(* read, so one of them stands for any number.                             *)
(***************************************************************************)
EXTENDS OrderStateMachine, Integers, FiniteSets

CONSTANTS Orders,            \* identifiers of orders, numbers as UUIDs are
          Customers,
          customer,          \* the one whose identity the requests carry
          Times,             \* the values of created_at
          Filters,           \* values of the status parameter, NoStatus if absent
          Limits, NoLimit,   \* values of the limit parameter, NoLimit if absent
          defaultListLimit,
          maxListLimit,
          MaxFaults          \* bound on failed calls and lost answers

ASSUME PaginationAssumption ==
  /\ IsFiniteSet(Orders) /\ Orders \subseteq Nat
  /\ Times \subseteq Nat
  /\ customer \in Customers
  /\ Filters \subseteq validStatuses \cup {NoStatus}
  /\ Limits \subseteq Int \cup {NoLimit}
  /\ maxListLimit \in Nat \ {0} /\ defaultListLimit \in 1 .. maxListLimit
  /\ MaxFaults \in Nat

VARIABLES
  \* The table orders.  No statement updates customer_id or created_at: they
  \* are chosen at the start, for the orders that are not committed yet too.
  stored,       \* the orders whose creation is committed
  owner,
  createdAt,
  status,
  \* The client and the handler that serves its request.
  pc,           \* "idle", "ask", "query", "hydrate" or "over"
  filter, limit, cursor,
  page,         \* the orders of the page: their status as the query read it
  hydrated,     \* how many of them have their items
  faults,
  \* What the client has seen, for the properties.
  listed,       \* the orders of the pages received
  steady        \* the orders that belonged to the listing when it began and since

table == <<stored, owner, createdAt, status>>
request == <<filter, limit, cursor>>
vars == <<table, request, pc, page, hydrated, faults, listed, steady>>

NoCursor == [valid |-> FALSE, at |-> 0, id |-> 0]

\* parseListLimit: 0 where it answers 400.
parseListLimit(raw) ==
  IF raw = NoLimit THEN defaultListLimit ELSE IF raw \in 1 .. maxListLimit THEN raw ELSE 0

\* encodeCursor and parseCursor: RFC3339Nano keeps every microsecond of
\* timestamptz, so what one writes the other reads.
encodeCursor(o) == [valid |-> TRUE, at |-> createdAt[o], id |-> o]

\* ORDER BY created_at DESC, id DESC: a comes before b.
Newer(a, b) ==
  createdAt[a] > createdAt[b] \/ (createdAt[a] = createdAt[b] /\ a > b)

\* Mutant: id <= in place of id <.
BehindInclusive(o, c) ==
  ~c.valid \/ createdAt[o] < c.at \/ (createdAt[o] = c.at /\ o <= c.id)

\* Mutant: the cursor without its tie-break.
BehindByTime(o, c) == ~c.valid \/ createdAt[o] < c.at

\* The condition of both queries on the cursor.
Behind(o, c) ==
  ~c.valid \/ createdAt[o] < c.at \/ (createdAt[o] = c.at /\ o < c.id)

\* The rows the two queries select from: the customer's orders behind the cursor,
\* all of them or those with one status.
ListOrdersByCustomerID == {o \in stored : owner[o] = customer /\ Behind(o, cursor)}

\* Mutant: the status filter is forgotten.
ListOrdersByStatusForgotten == {o \in stored : owner[o] = customer /\ Behind(o, cursor)}

ListOrdersByCustomerIDAndStatus ==
  {o \in stored : owner[o] = customer /\ status[o] = filter /\ Behind(o, cursor)}

\* LIMIT: the first rows of the candidates C, as many as there are up to n.
IsFirst(P, C, n) ==
  /\ P \subseteq C
  /\ Cardinality(P) = IF Cardinality(C) < n THEN Cardinality(C) ELSE n
  /\ \A a \in P, b \in C \ P : Newer(a, b)

IsLast(o, P) == o \in P /\ \A a \in P \ {o} : Newer(a, o)

Init ==
  /\ stored = {}
  /\ owner \in [Orders -> Customers]
  /\ createdAt \in [Orders -> Times]
  /\ status = [o \in Orders |-> StatusPending]
  /\ pc = "idle"
  /\ filter = NoStatus /\ limit = 0 /\ cursor = NoCursor
  /\ page = << >> /\ hydrated = 0
  /\ faults = 0
  /\ listed = {} /\ steady = {}

-----------------------------------------------------------------------------
(* The rest of the system. *)

\* A creation commits.  created_at is the start of its transaction, so it may
\* lie before that of orders committed, and listed, long ago.
CommitOrder(o) ==
  /\ o \notin stored
  /\ stored' = stored \cup {o}
  /\ UNCHANGED <<owner, createdAt, status, request, pc, page, hydrated, faults, listed, steady>>

\* A request or a worker run changes a status; an order never gets back to the
\* status it left.
ChangeStatus(o) ==
  /\ o \in stored
  /\ \E to \in validStatuses : CanTransition(status[o], to)
                               /\ status' = [status EXCEPT ![o] = to]
  /\ steady' = IF filter = NoStatus THEN steady ELSE steady \ {o}
  /\ UNCHANGED <<stored, owner, createdAt, request, pc, page, hydrated, faults, listed>>

-----------------------------------------------------------------------------
(* The client and the handler. *)

\* The client begins a listing; what belongs to it from now on must be in it.
Begin ==
  /\ pc \in {"idle", "over"}
  /\ pc' = "ask"
  /\ filter' \in Filters
  /\ cursor' = NoCursor
  /\ listed' = {}
  /\ steady' = {o \in stored : /\ owner[o] = customer
                               /\ filter' = NoStatus \/ status[o] = filter'}
  /\ UNCHANGED <<table, limit, page, hydrated, faults>>

\* It asks for the next page, with any limit.  A limit, a status or a cursor
\* that does not parse is answered 400, which leaves everything as it is.
Ask ==
  /\ pc = "ask"
  /\ pc' = "query"
  /\ \E raw \in Limits : parseListLimit(raw) # 0 /\ limit' = parseListLimit(raw)
  /\ UNCHANGED <<table, filter, cursor, page, hydrated, faults, listed, steady>>

\* ListOrders: one statement, on what is committed when it starts.
ListOrders ==
  /\ pc = "query"
  /\ pc' = "hydrate"
  /\ LET C == IF filter = NoStatus THEN ListOrdersByCustomerID
              ELSE ListOrdersByCustomerIDAndStatus
     IN \E P \in SUBSET C : IsFirst(P, C, limit) /\ page' = [o \in P |-> status[o]]
  /\ hydrated' = 0
  /\ UNCHANGED <<table, request, faults, listed, steady>>

\* hydrateOrderDetails reads the items of one order after the other.  Order and
\* items were committed together and items never change.
hydrateOrderDetails ==
  /\ pc = "hydrate" /\ hydrated < Cardinality(DOMAIN page)
  /\ hydrated' = hydrated + 1
  /\ UNCHANGED <<table, request, pc, page, faults, listed, steady>>

\* Mutant: a next page only when there are more orders than the limit allows.
RespondShort ==
  /\ pc = "hydrate" /\ hydrated = Cardinality(DOMAIN page)
  /\ listed' = listed \cup DOMAIN page
  /\ IF Cardinality(DOMAIN page) > limit
     THEN pc' = "ask" /\ \E o \in DOMAIN page : IsLast(o, DOMAIN page) /\ cursor' = encodeCursor(o)
     ELSE pc' = "over" /\ UNCHANGED cursor
  /\ page' = << >> /\ hydrated' = 0
  /\ UNCHANGED <<table, filter, limit, faults, steady>>

\* Mutant: the next cursor is the one of the request.
RespondSameCursor ==
  /\ pc = "hydrate" /\ hydrated = Cardinality(DOMAIN page)
  /\ listed' = listed \cup DOMAIN page
  /\ pc' = IF Cardinality(DOMAIN page) = limit THEN "ask" ELSE "over"
  /\ page' = << >> /\ hydrated' = 0
  /\ UNCHANGED <<table, request, faults, steady>>

\* The handler answers 200.  A full page carries the cursor of its last order;
\* a shorter one ends the listing.
Respond ==
  /\ pc = "hydrate" /\ hydrated = Cardinality(DOMAIN page)
  /\ listed' = listed \cup DOMAIN page
  /\ IF Cardinality(DOMAIN page) = limit
     THEN pc' = "ask" /\ \E o \in DOMAIN page : IsLast(o, DOMAIN page) /\ cursor' = encodeCursor(o)
     ELSE pc' = "over" /\ UNCHANGED cursor
  /\ page' = << >> /\ hydrated' = 0
  /\ UNCHANGED <<table, filter, limit, faults, steady>>

\* Any of the reads fails and the client is told 500, or the answer is lost: no
\* part of the page is kept, and the cursor stays.
Fail ==
  /\ pc \in {"query", "hydrate"}
  /\ faults < MaxFaults
  /\ faults' = faults + 1
  /\ pc' = "ask"
  /\ page' = << >> /\ hydrated' = 0
  /\ UNCHANGED <<table, request, listed, steady>>

Serve == Ask \/ ListOrders \/ hydrateOrderDetails \/ Respond

Next ==
  \/ \E o \in Orders : CommitOrder(o) \/ ChangeStatus(o)
  \/ Begin \/ Serve \/ Fail

Spec == Init /\ [][Next]_vars

\* The client keeps asking and its requests are served.
FairSpec == Spec /\ WF_vars(Serve)

-----------------------------------------------------------------------------
(* Properties. *)

Cursor == [valid : BOOLEAN, at : Nat, id : Nat]

\* Whether o is the customer's and has the status asked for, now.
Belongs(o) == owner[o] = customer /\ (filter = NoStatus \/ status[o] = filter)

TypeOK ==
  /\ stored \subseteq Orders
  /\ owner \in [Orders -> Customers]
  /\ createdAt \in [Orders -> Times]
  /\ status \in [Orders -> validStatuses]
  /\ pc \in {"idle", "ask", "query", "hydrate", "over"}
  /\ filter \in Filters \cup {NoStatus}
  /\ limit \in 0 .. maxListLimit
  /\ cursor \in Cursor
  /\ DOMAIN page \subseteq stored /\ \A o \in DOMAIN page : page[o] \in validStatuses
  /\ hydrated \in Nat /\ faults \in Nat
  /\ listed \subseteq stored /\ steady \subseteq stored

\* A page is wholly older than every page received before it: no order comes
\* twice, and the pages put together are in the order of one query (the cursor
\* condition of the queries, encodeCursor of the last order).
NewestFirst ==
  \A a \in listed, b \in DOMAIN page : Newer(a, b)

\* A listing that ended without an error has every order that belonged to it
\* all the while, whatever was committed or changed between its pages and however
\* often a page had to be asked for again (next_cursor is missing only after the
\* last page).
NothingSkipped == pc = "over" => steady \subseteq listed

\* Where a status leads along the allowed transitions.
Successors[s \in validStatuses] == {s} \cup {t \in validStatuses :
  \/ s = StatusPending
  \/ s = StatusProcessing /\ t \in {StatusShipped, StatusDelivered}
  \/ s = StatusShipped /\ t = StatusDelivered}

\* An order is shown to its owner only, with the status asked for; the status
\* shown may be old when the items are read, but is one the order had and from
\* which it went only forward (hydrateOrderDetails uses the row of the query).
ShownHonestly ==
  /\ \A o \in listed \cup DOMAIN page : owner[o] = customer
  /\ \A o \in DOMAIN page : /\ filter # NoStatus => page[o] = filter
                            /\ status[o] \in Successors[page[o]]

\* What is received lies before the cursor, what is still due lies behind it.
CursorBetween ==
  /\ pc \in {"ask", "query", "hydrate"} => \A o \in listed : ~Behind(o, cursor)
  /\ pc = "idle" => listed = {} /\ steady = {}
  /\ \A o \in steady : Belongs(o) /\ (o \in listed \/ Behind(o, cursor))

\* A page is the first part of what is due: what is still due and not on it is
\* older than all of it, and there is such an order only if the page is full.
PageFirst ==
  /\ pc # "hydrate" => DOMAIN page = {}
  /\ pc \in {"query", "hydrate"} => limit >= 1
  /\ \A o \in DOMAIN page : Behind(o, cursor)
  /\ pc = "hydrate" =>
       \A o \in steady : Behind(o, cursor) =>
         \/ o \in DOMAIN page
         \/ /\ Cardinality(DOMAIN page) = limit
            /\ \A a \in DOMAIN page : Newer(a, o)

\* No page is longer than the limit that its request asks for, and no more items
\* are read than there are orders on it (LIMIT in the queries, the loop of
\* hydrateOrderDetails).
WithinLimit ==
  /\ Cardinality(DOMAIN page) <= limit /\ limit <= maxListLimit
  /\ hydrated <= Cardinality(DOMAIN page)

\* The inductive invariant.
Inv ==
  /\ TypeOK /\ WithinLimit /\ PageFirst /\ CursorBetween
  /\ ShownHonestly /\ NewestFirst /\ NothingSkipped

\* A listing ends: each full page brings the client closer to the last.
ListingEnds == (pc = "ask") ~> (pc = "over")
=============================================================================
