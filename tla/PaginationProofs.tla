-------------------------- MODULE PaginationProofs --------------------------
(***************************************************************************)
(* Proofs about Pagination, for any number of orders, any times and any    *)
(* limits: a listing never repeats and never skips an order.               *)
(***************************************************************************)
EXTENDS Pagination, FiniteSetTheorems, TLAPS

USE DEF validStatuses, StatusPending, StatusProcessing, StatusShipped,
        StatusDelivered, StatusCancelled, NoStatus

\* Keys are pairs of numbers.
LEMMA Keys ==
  ASSUME TypeOK
  PROVE  /\ \A o \in Orders : o \in Nat /\ createdAt[o] \in Nat
         /\ cursor.at \in Nat /\ cursor.id \in Nat /\ cursor.valid \in BOOLEAN
<1>1. Orders \subseteq Nat /\ Times \subseteq Nat
  BY PaginationAssumption
<1>2. createdAt \in [Orders -> Times] /\ cursor \in Cursor
  BY DEF TypeOK
<1> QED
  BY <1>1, <1>2 DEF Cursor

\* An order is behind the cursor of an order exactly if that one is newer.
LEMMA CursorOfOrder ==
  ASSUME TypeOK, NEW a \in Orders, NEW o \in Orders
  PROVE  /\ encodeCursor(a) \in Cursor
         /\ Behind(o, encodeCursor(a)) <=> Newer(a, o)
<1>1. /\ a \in Nat /\ o \in Nat /\ createdAt[a] \in Nat /\ createdAt[o] \in Nat
  BY Keys
<1> QED
  BY <1>1 DEF encodeCursor, Cursor, Behind, Newer

\* What is not behind the cursor is newer than what is.
LEMMA Across ==
  ASSUME TypeOK, NEW a \in Orders, NEW b \in Orders, ~Behind(a, cursor), Behind(b, cursor)
  PROVE  Newer(a, b)
<1>1. a \in Nat /\ b \in Nat /\ createdAt[a] \in Nat /\ createdAt[b] \in Nat
  BY Keys
<1>2. cursor.at \in Nat /\ cursor.id \in Nat
  BY Keys
<1>3. ~(createdAt[a] < cursor.at) /\ ~(createdAt[a] = cursor.at /\ a < cursor.id)
  BY DEF Behind
<1>4. createdAt[b] < cursor.at \/ (createdAt[b] = cursor.at /\ b < cursor.id)
  BY DEF Behind
<1> QED
  BY <1>1, <1>2, <1>3, <1>4 DEF Newer

LEMMA NewerIsStrict ==
  ASSUME TypeOK, NEW a \in Orders, NEW b \in Orders, Newer(a, b)
  PROVE  ~Newer(b, a)
<1>1. a \in Nat /\ b \in Nat /\ createdAt[a] \in Nat /\ createdAt[b] \in Nat
  BY Keys
<1> QED
  BY <1>1 DEF Newer

\* A first part that is smaller than the limit is the whole.
LEMMA ShortPageIsAll ==
  ASSUME NEW P, NEW C, NEW n \in Nat, IsFiniteSet(C), IsFirst(P, C, n),
         Cardinality(P) # n
  PROVE  P = C
<1>1. P \subseteq C /\ IsFiniteSet(P) /\ Cardinality(C) \in Nat
  BY FS_Subset, FS_CardinalityType DEF IsFirst
<1>2. Cardinality(P) = Cardinality(C)
  BY <1>1 DEF IsFirst
<1> QED
  BY <1>1, <1>2, FS_Subset

LEMMA EmptyDomain == DOMAIN << >> = {}
  OBVIOUS

\* The page is finite, and an empty one is within every limit.
LEMMA PageFinite ==
  ASSUME TypeOK
  PROVE  /\ IsFiniteSet(DOMAIN page) /\ Cardinality(DOMAIN page) \in Nat
         /\ limit \in Nat /\ hydrated \in Nat /\ limit <= maxListLimit
<1>1. DOMAIN page \subseteq Orders /\ IsFiniteSet(Orders)
  BY PaginationAssumption DEF TypeOK
<1> QED
  BY <1>1, PaginationAssumption, FS_Subset, FS_CardinalityType DEF TypeOK

\* Within the limit, when there is no page.
LEMMA NoPage ==
  ASSUME TypeOK', (DOMAIN page)' = {}, hydrated' = 0
  PROVE  WithinLimit'
<1>1. Cardinality((DOMAIN page)') = 0
  BY FS_EmptySet
<1>2. limit' \in Nat /\ limit' <= maxListLimit
  BY PaginationAssumption DEF TypeOK
<1> QED
  BY <1>1, <1>2 DEF WithinLimit

\* Nor does a step disturb it that leaves page and limit alone.
LEMMA SamePage ==
  ASSUME WithinLimit, UNCHANGED <<page, limit, hydrated>>
  PROVE  WithinLimit'
  BY DEF WithinLimit

LEMMA InitInv == Init => Inv
<1> SUFFICES ASSUME Init PROVE Inv
  OBVIOUS
<1>1. DOMAIN page = {}
  BY EmptyDomain DEF Init
<1>2. TypeOK
  BY <1>1, PaginationAssumption DEF Init, TypeOK, Cursor, NoCursor
<1>3. ShownHonestly /\ CursorBetween /\ PageFirst /\ NewestFirst /\ NothingSkipped
  BY <1>1 DEF Init, ShownHonestly, CursorBetween, PageFirst, NewestFirst, NothingSkipped
<1>4. WithinLimit
  BY <1>1, FS_EmptySet, PaginationAssumption DEF Init, WithinLimit
<1> QED
  BY <1>2, <1>3, <1>4 DEF Inv

\* A status goes forward: where it goes next is among its successors' successors.
LEMMA Forward ==
  ASSUME NEW s \in validStatuses, NEW t \in Successors[s], NEW u \in validStatuses,
         CanTransition(t, u)
  PROVE  u \in Successors[s]
  BY DEF Successors, CanTransition, IsValidStatus, allowedTransitions

USE DEF table, request

\* A commit adds to what is stored, and to nothing a listing has taken note of.
LEMMA CommitOrderInv ==
  ASSUME Inv, NEW o \in Orders, CommitOrder(o)
  PROVE  Inv'
<1>1. TypeOK'
  BY DEF Inv, TypeOK, CommitOrder
<1>2. (ShownHonestly /\ CursorBetween /\ PageFirst /\ NewestFirst /\ NothingSkipped)'
  BY DEF Inv, CommitOrder, ShownHonestly, CursorBetween, PageFirst, NewestFirst,
         NothingSkipped, Belongs, Behind, Newer
<1>3. WithinLimit'
  BY SamePage DEF Inv, CommitOrder
<1> QED
  BY <1>1, <1>2, <1>3 DEF Inv

\* A status change takes the order out of a filtered listing's duties; a page
\* keeps the status it has read, which the new one follows.
LEMMA ChangeStatusInv ==
  ASSUME Inv, NEW o \in Orders, ChangeStatus(o)
  PROVE  Inv'
<1>1. PICK to \in validStatuses : CanTransition(status[o], to)
                                  /\ status' = [status EXCEPT ![o] = to]
  BY DEF ChangeStatus
<1>2. TypeOK'
  BY <1>1 DEF Inv, TypeOK, ChangeStatus
<1>3. steady' \subseteq steady /\ (filter # NoStatus => o \notin steady')
  BY DEF ChangeStatus
<1>4. \A a \in Orders : a # o => status'[a] = status[a]
  BY <1>1 DEF Inv, TypeOK
<1>5. steady \subseteq Orders /\ DOMAIN page \subseteq Orders
  BY DEF Inv, TypeOK
<1>6. ShownHonestly'
  <2>1. ASSUME NEW a \in DOMAIN page PROVE status'[a] \in Successors[page[a]]
    <3>1. page[a] \in validStatuses /\ status[a] \in Successors[page[a]]
      BY DEF Inv, TypeOK, ShownHonestly
    <3>2. CASE a # o
      BY <1>4, <1>5, <3>1, <3>2
    <3>3. CASE a = o
      <4>1. status'[a] = to
        BY <1>1, <3>3 DEF Inv, TypeOK
      <4> QED
        BY <1>1, <3>1, <3>3, <4>1, Forward
    <3> QED
      BY <3>2, <3>3
  <2> QED
    BY <2>1 DEF Inv, ChangeStatus, ShownHonestly
<1>7. CursorBetween'
  BY <1>3, <1>4, <1>5 DEF Inv, ChangeStatus, CursorBetween, Belongs, Behind
<1>8. (PageFirst /\ NewestFirst /\ NothingSkipped)'
  BY <1>3 DEF Inv, ChangeStatus, PageFirst, NewestFirst, NothingSkipped, Behind, Newer
<1>9. WithinLimit'
  BY SamePage DEF Inv, ChangeStatus
<1> QED
  BY <1>2, <1>6, <1>7, <1>8, <1>9 DEF Inv

LEMMA BeginInv ==
  ASSUME Inv, Begin
  PROVE  Inv'
<1>1. DOMAIN page = {} /\ pc' = "ask" /\ listed' = {} /\ page' = page
  BY DEF Inv, PageFirst, Begin
<1>2. TypeOK'
  BY DEF Inv, TypeOK, Begin, NoCursor, Cursor
<1>3. CursorBetween'
  BY <1>1 DEF Begin, CursorBetween, Belongs, Behind, NoCursor
<1>4. (ShownHonestly /\ PageFirst /\ NewestFirst /\ NothingSkipped)'
  BY <1>1 DEF ShownHonestly, PageFirst, NewestFirst, NothingSkipped
<1>5. WithinLimit'
  BY SamePage DEF Inv, Begin
<1> QED
  BY <1>2, <1>3, <1>4, <1>5 DEF Inv

LEMMA AskInv ==
  ASSUME Inv, Ask
  PROVE  Inv'
<1>1. limit' \in 1 .. maxListLimit
  BY PaginationAssumption DEF Ask, parseListLimit
<1>2. TypeOK'
  BY <1>1 DEF Inv, TypeOK, Ask
<1>3. (ShownHonestly /\ CursorBetween /\ PageFirst /\ NewestFirst /\ NothingSkipped)'
  BY <1>1 DEF Inv, Ask, ShownHonestly, CursorBetween, PageFirst, NewestFirst,
              NothingSkipped, Belongs, Behind, Newer
<1>4. WithinLimit'
  <2>1. (DOMAIN page)' = {} /\ Cardinality(DOMAIN page) = 0 /\ hydrated' = hydrated
    BY FS_EmptySet DEF Inv, PageFirst, Ask
  <2>2. hydrated' = 0
    BY <2>1, PageFinite DEF Inv, WithinLimit
  <2> QED
    BY <1>2, <2>1, <2>2, NoPage
<1> QED
  BY <1>2, <1>3, <1>4 DEF Inv

\* The query: the page is the first part of the candidates, and every order still
\* due is a candidate.
LEMMA ListOrdersInv ==
  ASSUME Inv, ListOrders
  PROVE  Inv'
<1> DEFINE C == {o \in stored : Belongs(o) /\ Behind(o, cursor)}
<1>0. C = IF filter = NoStatus THEN ListOrdersByCustomerID
          ELSE ListOrdersByCustomerIDAndStatus
  BY DEF Belongs, ListOrdersByCustomerID, ListOrdersByCustomerIDAndStatus
<1>1. PICK P \in SUBSET C : IsFirst(P, C, limit) /\ page' = [o \in P |-> status[o]]
  BY <1>0 DEF ListOrders
<1>2. DOMAIN page' = P /\ \A o \in P : page'[o] = status[o]
  BY <1>1
<1>3. P \subseteq C /\ C \subseteq Orders /\ C \subseteq stored
  BY <1>1 DEF Inv, TypeOK
<1>4. TypeOK'
  BY <1>2, <1>3 DEF Inv, TypeOK, ListOrders
<1>5. ShownHonestly'
  <2>1. \A o \in P : status[o] \in validStatuses /\ owner[o] = customer
                     /\ (filter # NoStatus => status[o] = filter)
    BY <1>3 DEF Inv, TypeOK, Belongs
  <2>2. \A s \in validStatuses : s \in Successors[s]
    BY DEF Successors
  <2> QED
    BY <1>2, <2>1, <2>2 DEF Inv, ListOrders, ShownHonestly
<1>6. CursorBetween'
  BY DEF Inv, ListOrders, CursorBetween, Belongs, Behind
<1>7. PageFirst'
  <2>1. limit \in Nat /\ limit >= 1
    BY PaginationAssumption DEF Inv, TypeOK, PageFirst, ListOrders
  <2>2. IsFiniteSet(C)
    BY <1>3, PaginationAssumption, FS_Subset
  <2>3. ASSUME NEW o \in steady, Behind(o, cursor)
        PROVE  o \in P \/ (Cardinality(P) = limit /\ \A a \in P : Newer(a, o))
    <3>1. o \in C
      BY <2>3 DEF Inv, TypeOK, CursorBetween
    <3>2. CASE Cardinality(P) = limit
      BY <1>1, <3>1, <3>2 DEF IsFirst
    <3>3. CASE Cardinality(P) # limit
      BY <1>1, <2>1, <2>2, <3>1, <3>3, ShortPageIsAll
    <3> QED
      BY <3>2, <3>3
  <2>4. \A o \in P : Behind(o, cursor)
    BY <1>3
  <2> QED
    BY <1>2, <2>1, <2>3, <2>4 DEF ListOrders, PageFirst, Behind, Newer
<1>8. NewestFirst'
  <2>1. ASSUME NEW a \in listed, NEW b \in P PROVE Newer(a, b)
    <3>1. ~Behind(a, cursor) /\ a \in Orders
      BY DEF Inv, CursorBetween, TypeOK, ListOrders
    <3>2. Behind(b, cursor) /\ b \in Orders
      BY <1>3
    <3> QED
      BY <3>1, <3>2, Across DEF Inv
  <2> QED
    BY <1>2, <2>1 DEF ListOrders, NewestFirst, Newer
<1>9. NothingSkipped'
  BY DEF ListOrders, NothingSkipped
<1>10. WithinLimit'
  <2>1. limit' = limit /\ limit \in Nat /\ limit <= maxListLimit /\ hydrated' = 0
    BY PageFinite DEF Inv, ListOrders
  <2>2. IsFiniteSet(C) /\ Cardinality(C) \in Nat
    BY <1>3, PaginationAssumption, FS_Subset, FS_CardinalityType
  <2>3. Cardinality(P) <= limit /\ Cardinality(P) >= 0
    BY <1>1, <2>1, <2>2 DEF IsFirst
  <2> QED
    BY <1>2, <2>1, <2>3 DEF WithinLimit
<1> QED
  BY <1>4, <1>5, <1>6, <1>7, <1>8, <1>9, <1>10 DEF Inv

LEMMA HydrateInv ==
  ASSUME Inv, hydrateOrderDetails
  PROVE  Inv'
<1>1. TypeOK'
  BY DEF Inv, TypeOK, hydrateOrderDetails
<1>2. (ShownHonestly /\ CursorBetween /\ PageFirst /\ NewestFirst /\ NothingSkipped)'
  BY DEF Inv, hydrateOrderDetails, ShownHonestly, CursorBetween, PageFirst, NewestFirst,
         NothingSkipped, Belongs, Behind, Newer
<1>3. WithinLimit'
  BY PageFinite DEF Inv, hydrateOrderDetails, WithinLimit
<1> QED
  BY <1>1, <1>2, <1>3 DEF Inv

\* The answer: the cursor moves to the last order of a full page, a shorter page
\* held everything that was due.
LEMMA RespondInv ==
  ASSUME Inv, Respond
  PROVE  Inv'
<1> DEFINE P == DOMAIN page
<1>1. DOMAIN page' = {} /\ listed' = listed \cup P /\ P \subseteq Orders /\ listed \subseteq Orders
  BY EmptyDomain DEF Respond, Inv, TypeOK
<1>2. pc = "hydrate"
  BY DEF Respond
<1>3. CASE Cardinality(P) = limit
  <2>1. PICK o \in P : IsLast(o, P) /\ cursor' = encodeCursor(o)
    BY <1>3 DEF Respond
  <2>2. pc' = "ask"
    BY <1>3 DEF Respond
  <2>3. TypeOK'
    <3>1. cursor' \in Cursor
      BY <1>1, <2>1, CursorOfOrder DEF Inv
    <3> QED
      BY <1>1, <2>2, <3>1 DEF Inv, TypeOK, Respond
  <2>4. \A a \in Orders : Behind(a, cursor)' <=> Newer(o, a)
    <3>1. \A a \in Orders : Behind(a, cursor') <=> Newer(o, a)
      BY <1>1, <2>1, CursorOfOrder DEF Inv
    <3>2. \A a \in Orders : Behind(a, cursor)' <=> Behind(a, cursor')
      BY DEF Behind, Respond
    <3> QED
      BY <3>1, <3>2
  <2>5. ASSUME NEW a \in listed' PROVE ~Behind(a, cursor)'
    <3>1. CASE a = o
      <4>1. ~Newer(o, o)
        BY <1>1, NewerIsStrict DEF Inv
      <4> QED
        BY <1>1, <2>4, <3>1, <4>1
    <3>2. CASE a # o
      <4>1. Newer(a, o)
        BY <1>1, <2>1, <3>2 DEF IsLast, Inv, NewestFirst
      <4> QED
        BY <1>1, <2>4, <4>1, NewerIsStrict DEF Inv
    <3> QED
      BY <3>1, <3>2
  <2>6. ASSUME NEW a \in steady PROVE a \in listed' \/ Behind(a, cursor)'
    <3>1. a \in Orders /\ (a \in listed \/ Behind(a, cursor))
      BY DEF Inv, TypeOK, CursorBetween
    <3>2. CASE Behind(a, cursor)
      <4>1. a \in P \/ Newer(o, a)
        BY <1>2, <3>2 DEF Inv, PageFirst
      <4> QED
        BY <1>1, <2>4, <3>1, <4>1
    <3> QED
      BY <1>1, <3>1, <3>2
  <2>7. CursorBetween'
    <3>1. steady' = steady /\ \A a \in steady : Belongs(a)'
      BY DEF Inv, CursorBetween, Respond, Belongs
    <3> QED
      BY <2>2, <2>5, <2>6, <3>1 DEF CursorBetween
  <2>8. (ShownHonestly /\ PageFirst /\ NewestFirst /\ NothingSkipped)'
    BY <1>1, <2>2 DEF Inv, Respond, ShownHonestly, PageFirst, NewestFirst, NothingSkipped
  <2>9. WithinLimit'
    BY <1>1, <2>3, NoPage DEF Respond
  <2> QED
    BY <2>3, <2>7, <2>8, <2>9 DEF Inv
<1>4. CASE Cardinality(P) # limit
  <2>1. pc' = "over" /\ cursor' = cursor
    BY <1>4 DEF Respond
  <2>2. TypeOK'
    BY <1>1, <2>1 DEF Inv, TypeOK, Respond
  <2>3. steady \subseteq listed'
    BY <1>1, <1>2, <1>4 DEF Inv, CursorBetween, PageFirst
  <2>4. CursorBetween'
    BY <2>1, <2>3 DEF Inv, CursorBetween, Respond, Belongs
  <2>5. (ShownHonestly /\ PageFirst /\ NewestFirst /\ NothingSkipped)'
    BY <1>1, <2>1, <2>3 DEF Inv, Respond, ShownHonestly, PageFirst, NewestFirst, NothingSkipped
  <2>6. WithinLimit'
    BY <1>1, <2>2, NoPage DEF Respond
  <2> QED
    BY <2>2, <2>4, <2>5, <2>6 DEF Inv
<1> QED
  BY <1>3, <1>4

LEMMA FailInv ==
  ASSUME Inv, Fail
  PROVE  Inv'
<1>1. DOMAIN page' = {} /\ pc' = "ask"
  BY EmptyDomain DEF Fail
<1>2. TypeOK'
  BY <1>1 DEF Inv, TypeOK, Fail
<1>3. CursorBetween'
  BY DEF Inv, Fail, CursorBetween, Belongs, Behind
<1>4. (ShownHonestly /\ PageFirst /\ NewestFirst /\ NothingSkipped)'
  BY <1>1 DEF Inv, Fail, ShownHonestly, PageFirst, NewestFirst, NothingSkipped
<1>5. WithinLimit'
  BY <1>1, <1>2, NoPage DEF Fail
<1> QED
  BY <1>2, <1>3, <1>4, <1>5 DEF Inv

LEMMA NextInv == Inv /\ [Next]_vars => Inv'
<1> SUFFICES ASSUME Inv, [Next]_vars PROVE Inv'
  OBVIOUS
<1>1. ASSUME NEW o \in Orders, CommitOrder(o) PROVE Inv'
  BY <1>1, CommitOrderInv
<1>2. ASSUME NEW o \in Orders, ChangeStatus(o) PROVE Inv'
  BY <1>2, ChangeStatusInv
<1>3. CASE Begin
  BY <1>3, BeginInv
<1>4. CASE Serve
  BY <1>4, AskInv, ListOrdersInv, HydrateInv, RespondInv DEF Serve
<1>5. CASE Fail
  BY <1>5, FailInv
<1>6. CASE UNCHANGED vars
  BY <1>6 DEF vars, Inv, TypeOK, ShownHonestly, CursorBetween, PageFirst, NewestFirst,
              NothingSkipped, WithinLimit, Belongs, Behind, Newer
<1> QED
  BY <1>1, <1>2, <1>3, <1>4, <1>5, <1>6 DEF Next

\* The inductive invariant of a listing holds for any number of orders, any times,
\* ties included, and any limits the handler accepts.
THEOREM Invariance == Spec => []Inv
<1> QED
  BY InitInv, NextInv, PTL DEF Spec

\* Pages do not overlap and come newest first (cursor condition of the queries).
THEOREM PagesNewestFirst == Spec => []NewestFirst
<1>1. Inv => NewestFirst
  BY DEF Inv
<1> QED
  BY <1>1, Invariance, PTL

\* A listing that is over has every order that belonged to it all the while
\* (next_cursor is missing only after the last page).
THEOREM ListingComplete == Spec => []NothingSkipped
<1>1. Inv => NothingSkipped
  BY DEF Inv
<1> QED
  BY <1>1, Invariance, PTL

\* Only the customer's own orders are shown, with a status they had
\* (hydrateOrderDetails uses the row of the query).
THEOREM ListingHonest == Spec => []ShownHonestly
<1>1. Inv => ShownHonestly
  BY DEF Inv
<1> QED
  BY <1>1, Invariance, PTL

\* A page is no longer than the limit of its request, which is maxListLimit at most,
\* and no more items are read than there are orders on it (parseListLimit, LIMIT in the
\* queries, the loop of hydrateOrderDetails).
THEOREM PagesWithinLimit == Spec => []WithinLimit
<1>1. Inv => WithinLimit
  BY DEF Inv
<1> QED
  BY <1>1, Invariance, PTL
=============================================================================
