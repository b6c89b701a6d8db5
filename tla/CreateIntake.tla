---------------------------- MODULE CreateIntake ----------------------------
(***************************************************************************)
(* What happens to the body of POST /orders before the database is asked:  *)
(* it is read up to a limit, decoded, validated, and its total computed in *)
(* int64, item by item, with overflow found after the fact.  The widths    *)
(* and the limit are parameters, so that small ones can be checked and     *)
(* every one proved.                                                       *)
(***************************************************************************)
EXTENDS Integers, Sequences

CONSTANTS maxBytes,     \* DefaultRequestBodyLimit
          Sizes,        \* lengths of bodies
          maxInt64, maxInt32,
          Prices, Quantities,  \* the numbers in a body, as JSON writes them
          MaxItems      \* bound on the number of items

ASSUME IntakeAssumption ==
  /\ maxBytes \in Nat /\ Sizes \subseteq Nat
  /\ maxInt64 \in Nat /\ maxInt32 \in Nat
  /\ Prices \subseteq Int /\ Quantities \subseteq Int
  /\ MaxItems \in Nat

VARIABLES size,    \* the length of the body
          got,     \* how much of it ReadAll has read
          pc,      \* "read", "decode", "validate", "total", "ids", "insert" or "done"
          items,   \* the items of the request
          i,       \* the next item to add
          total,
          err,     \* the error that ended it, "nil" if none
          exact    \* for the properties: the sum so far, in integers without width

vars == <<size, got, pc, items, i, total, err, exact>>

Item == [price : Prices, quantity : Quantities]

\* Go's int64 arithmetic: two's complement of the width maxInt64 stands for.
Wrap(n) == ((n + maxInt64 + 1) % (2 * (maxInt64 + 1))) - (maxInt64 + 1)

Init ==
  /\ size \in Sizes
  /\ got = 0
  /\ pc = "read"
  /\ items = << >>
  /\ i = 1
  /\ total = 0 /\ exact = 0
  /\ err = "nil"

Refuse(e) == pc' = "done" /\ err' = e

\* io.ReadAll of a LimitReader one byte longer than the limit, in reads of any size.
Read ==
  /\ pc = "read" /\ got < size /\ got < maxBytes + 1
  /\ \E n \in 1 .. size - got : got + n <= maxBytes + 1 /\ got' = got + n
  /\ UNCHANGED <<size, pc, items, i, total, err, exact>>

\* The connection breaks: "read request body", an error of no class.
ReadFails ==
  /\ pc = "read"
  /\ Refuse("read request body")
  /\ UNCHANGED <<size, got, items, i, total, exact>>

\* Mutant: the reader stops at the limit itself, so that longer bodies are cut.
ReadAllCut ==
  /\ pc = "read" /\ (got = size \/ got = maxBytes)
  /\ pc' = "decode"
  /\ UNCHANGED <<size, got, items, i, total, err, exact>>

\* The end of the body or of the limit; only then is the length compared.
ReadAll ==
  /\ pc = "read" /\ (got = size \/ got = maxBytes + 1)
  /\ IF got > maxBytes THEN Refuse("ErrRequestBodyTooLarge")
     ELSE pc' = "decode" /\ UNCHANGED err
  /\ UNCHANGED <<size, got, items, i, total, exact>>

Fits(it) == /\ it.price \in -maxInt64 - 1 .. maxInt64
            /\ it.quantity \in -maxInt32 - 1 .. maxInt32

\* One JSON value without unknown fields, or an error.  A number that does not fit
\* its field is an error of the decoder; items may be missing.
Decode ==
  /\ pc = "decode"
  /\ \/ \E e \in {"ErrMalformedJSON", "ErrUnknownJSONField"} : Refuse(e) /\ UNCHANGED items
     \/ /\ got > 0
        /\ \E n \in 0 .. MaxItems : items' \in [1 .. n -> {it \in Item : Fits(it)}]
        /\ pc' = "validate" /\ UNCHANGED err
  /\ UNCHANGED <<size, got, i, total, exact>>

\* Mutant: a quantity of zero passes.
ValidItemZero(it) == it.quantity >= 0 /\ it.price >= 0

ValidItem(it) == ~(it.quantity <= 0) /\ ~(it.price < 0)

\* ValidateCreateOrderRequest; the key, the currency and the texts of the items may
\* be refused as well.
ValidateCreateOrderRequest ==
  /\ pc = "validate"
  /\ \/ Refuse("ValidationErrors")
     \/ /\ Len(items) # 0 /\ \A k \in DOMAIN items : ValidItem(items[k])
        /\ pc' = "total" /\ UNCHANGED err
  /\ UNCHANGED <<size, got, items, i, total, exact>>

\* Mutant: the product is checked after it was computed.
multiplyOverflowsLate(price, quantity) == Wrap(price * quantity) < 0

\* Mutant: >= for >.
multiplyOverflowsAtLimit(price, quantity) ==
  price > 0 /\ quantity > 0 /\ price >= maxInt64 \div quantity

\* multiplyCents refuses, before it multiplies; the quotient of positive numbers.
multiplyOverflows(price, quantity) ==
  price > 0 /\ quantity > 0 /\ price > maxInt64 \div quantity

multiplyCents(price, quantity) ==
  IF price = 0 \/ quantity = 0 THEN 0 ELSE Wrap(price * quantity)

\* The sign of a wrapped sum gives the overflow away.
addOverflows(line, next) ==
  (line > 0 /\ next < total) \/ (line < 0 /\ next > total)

\* calculateTotalCents, one item.
AddItem ==
  /\ pc = "total" /\ i <= Len(items)
  /\ LET it == items[i]
         line == multiplyCents(it.price, it.quantity)
         next == Wrap(total + line)
     IN  /\ exact' = exact + it.price * it.quantity
         /\ IF multiplyOverflows(it.price, it.quantity) \/ addOverflows(line, next)
            THEN Refuse("ErrTotalCentsOverflow") /\ UNCHANGED <<total, i>>
            ELSE total' = next /\ i' = i + 1 /\ UNCHANGED <<pc, err>>
  /\ UNCHANGED <<size, got, items>>

Totalled ==
  /\ pc = "total" /\ i > Len(items)
  /\ pc' = "ids"
  /\ UNCHANGED <<size, got, items, i, total, err, exact>>

\* The product identifiers are parsed last; then the transaction begins.
ParseIDs ==
  /\ pc = "ids"
  /\ \/ Refuse("ValidationErrors")
     \/ pc' = "insert" /\ UNCHANGED err
  /\ UNCHANGED <<size, got, items, i, total, exact>>

Finished == pc \in {"insert", "done"} /\ UNCHANGED vars

Next == \/ Read \/ ReadFails \/ ReadAll \/ Decode \/ ValidateCreateOrderRequest
        \/ AddItem \/ Totalled \/ ParseIDs \/ Finished

Spec == Init /\ [][Next]_vars

-----------------------------------------------------------------------------
(* Properties. *)

TypeOK ==
  /\ size \in Nat /\ got \in 0 .. size
  /\ pc \in {"read", "decode", "validate", "total", "ids", "insert", "done"}
  /\ items \in Seq(Item) /\ i \in 1 .. Len(items) + 1
  /\ total \in 0 .. maxInt64 /\ exact \in Nat
  /\ err \in {"nil", "read request body", "ErrRequestBodyTooLarge", "ErrMalformedJSON",
              "ErrUnknownJSONField", "ValidationErrors", "ErrTotalCentsOverflow"}

\* What is decoded is the whole body, and a body is refused for its length exactly
\* if it is longer than the limit (the reader of limit + 1 bytes, then len).
WholeBody ==
  /\ pc \notin {"read", "done"} => got = size /\ size <= maxBytes
  /\ err = "ErrRequestBodyTooLarge" => size > maxBytes
  /\ got <= maxBytes + 1

\* The total that is stored is the sum of price times quantity, exactly: no wrapped
\* product or sum gets through (multiplyCents and calculateTotalCents).
TotalExact == pc \in {"total", "ids", "insert"} => total = exact

\* An overflow is reported only if the sum does not fit in int64.
OverflowReal == err = "ErrTotalCentsOverflow" => exact > maxInt64

\* What reaches the transaction satisfies every CHECK of the tables: a request is
\* refused with 400 before the database would refuse it with 500.
ChecksHold ==
  pc = "insert" =>
    /\ total >= 0 /\ total <= maxInt64
    /\ items # << >>
    /\ \A k \in DOMAIN items : items[k].quantity > 0 /\ items[k].price >= 0
                               /\ items[k].quantity <= maxInt32 /\ items[k].price <= maxInt64

\* The inductive invariant: besides the properties, what holds where.
Inv ==
  /\ TypeOK /\ WholeBody /\ TotalExact /\ OverflowReal /\ ChecksHold
  /\ pc # "done" => err = "nil"
  /\ \A k \in DOMAIN items : Fits(items[k])
  /\ pc \in {"read", "decode", "validate"} => i = 1 /\ total = 0 /\ exact = 0
  /\ pc \in {"total", "ids", "insert"} =>
       Len(items) # 0 /\ \A k \in DOMAIN items : ValidItem(items[k])
=============================================================================
