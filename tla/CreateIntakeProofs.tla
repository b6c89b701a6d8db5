------------------------- MODULE CreateIntakeProofs -------------------------
(***************************************************************************)
(* Proofs about CreateIntake, for every width of the integers and every    *)
(* limit: the total that passes the overflow tests is the exact sum.       *)
(***************************************************************************)
EXTENDS CreateIntake, TLAPS

\* Within the width, and in the range of one wrapped sum above it.
LEMMA WrapSmall ==
  ASSUME NEW n \in 0 .. maxInt64
  PROVE  Wrap(n) = n
  BY IntakeAssumption DEF Wrap

LEMMA WrapSum ==
  ASSUME NEW n \in Nat, n > maxInt64, n <= 2 * maxInt64
  PROVE  Wrap(n) < 0
  BY IntakeAssumption DEF Wrap

\* The test of multiplyCents is exact.
LEMMA QuotientTest ==
  ASSUME NEW p \in Nat, NEW q \in Nat \ {0}, NEW m \in Nat
  PROVE  p > m \div q <=> p * q > m
  OBVIOUS

\* A line of valid numbers that passes the test is their product, and fits.
LEMMA Line ==
  ASSUME NEW p \in Nat, NEW q \in Nat \ {0}
  PROVE  /\ multiplyOverflows(p, q) <=> p * q > maxInt64
         /\ ~multiplyOverflows(p, q) => multiplyCents(p, q) = p * q
         /\ p * q \in Nat
<1>1. maxInt64 \in Nat /\ p * q \in Nat
  BY IntakeAssumption
<1>2. multiplyOverflows(p, q) <=> p * q > maxInt64
  <2>1. p = 0 => p * q = 0
    OBVIOUS
  <2>2. p > maxInt64 \div q <=> p * q > maxInt64
    BY <1>1, QuotientTest
  <2> QED
    BY <1>1, <2>1, <2>2 DEF multiplyOverflows
<1>3. ASSUME ~multiplyOverflows(p, q) PROVE multiplyCents(p, q) = p * q
  <2>1. p * q \in 0 .. maxInt64
    BY <1>1, <1>2, <1>3
  <2>2. Wrap(p * q) = p * q
    BY <2>1, WrapSmall
  <2>3. p = 0 => p * q = 0
    OBVIOUS
  <2> QED
    BY <2>2, <2>3 DEF multiplyCents
<1> QED
  BY <1>1, <1>2, <1>3

\* The sign test of calculateTotalCents is exact for lines that fit.
LEMMA SignTest ==
  ASSUME total \in 0 .. maxInt64, NEW n \in 0 .. maxInt64
  PROVE  /\ addOverflows(n, Wrap(total + n)) <=> total + n > maxInt64
         /\ total + n <= maxInt64 => Wrap(total + n) = total + n
<1>1. maxInt64 \in Nat
  BY IntakeAssumption
<1>2. CASE total + n <= maxInt64
  <2>1. Wrap(total + n) = total + n
    BY <1>1, <1>2, WrapSmall
  <2> QED
    BY <1>1, <1>2, <2>1 DEF addOverflows
<1>3. CASE total + n > maxInt64
  <2>1. Wrap(total + n) < 0 /\ Wrap(total + n) \in Int
    BY <1>1, <1>3, WrapSum DEF Wrap
  <2>2. n > 0
    BY <1>1, <1>3
  <2> QED
    BY <1>1, <1>3, <2>1, <2>2 DEF addOverflows
<1> QED
  BY <1>1, <1>2, <1>3

LEMMA InitInv == Init => Inv
<1> SUFFICES ASSUME Init PROVE Inv
  OBVIOUS
<1> QED
  BY IntakeAssumption DEF Init, Inv, TypeOK, WholeBody, TotalExact, OverflowReal, ChecksHold, Item

\* The steps that leave items and sums alone.
LEMMA ReadingInv ==
  ASSUME Inv, Read \/ ReadFails \/ ReadAll
  PROVE  Inv'
<1>1. maxBytes \in Nat /\ size \in Nat /\ got \in 0 .. size
  BY IntakeAssumption DEF Inv, TypeOK
<1>2. UNCHANGED <<size, items, i, total, exact>> /\ pc = "read"
  BY DEF Read, ReadFails, ReadAll
<1>3. err = "nil"
  BY <1>2 DEF Inv
<1>4. CASE Read
  <2>1. got' \in 0 .. size /\ got' <= maxBytes + 1 /\ pc' = pc /\ err' = err
    BY <1>1, <1>4 DEF Read
  <2> QED
    BY <1>2, <1>3, <2>1 DEF Inv, TypeOK, WholeBody, TotalExact, OverflowReal, ChecksHold, Fits
<1>5. CASE ReadFails
  <2>1. got' = got /\ pc' = "done" /\ err' = "read request body"
    BY <1>5 DEF ReadFails, Refuse
  <2> QED
    BY <1>2, <2>1 DEF Inv, TypeOK, WholeBody, TotalExact, OverflowReal, ChecksHold, Fits
<1>6. CASE ReadAll /\ got > maxBytes
  <2>1. got' = got /\ pc' = "done" /\ err' = "ErrRequestBodyTooLarge" /\ size > maxBytes
    BY <1>1, <1>6 DEF ReadAll, Refuse
  <2> QED
    BY <1>2, <2>1 DEF Inv, TypeOK, WholeBody, TotalExact, OverflowReal, ChecksHold, Fits
<1>7. CASE ReadAll /\ ~(got > maxBytes)
  <2>1. got' = got /\ pc' = "decode" /\ err' = err
    BY <1>7 DEF ReadAll
  <2>2. got = size /\ size <= maxBytes
    BY <1>1, <1>7 DEF ReadAll
  <2> QED
    BY <1>2, <1>3, <2>1, <2>2 DEF Inv, TypeOK, WholeBody, TotalExact, OverflowReal, ChecksHold, Fits
<1> QED
  BY <1>4, <1>5, <1>6, <1>7

LEMMA DecodeInv ==
  ASSUME Inv, Decode
  PROVE  Inv'
<1>1. /\ UNCHANGED <<size, got, i, total, exact>> /\ pc = "decode" /\ err = "nil" /\ i = 1
      /\ total = 0 /\ exact = 0
  BY DEF Inv, Decode
<1>2. CASE \E e \in {"ErrMalformedJSON", "ErrUnknownJSONField"} : Refuse(e) /\ UNCHANGED items
  <2>1. pc' = "done" /\ err' \in {"ErrMalformedJSON", "ErrUnknownJSONField"} /\ items' = items
    BY <1>2 DEF Refuse
  <2> QED
    BY <1>1, <2>1 DEF Inv, TypeOK, WholeBody, TotalExact, OverflowReal, ChecksHold, Fits
<1>3. CASE /\ pc' = "validate" /\ UNCHANGED err
           /\ \E n \in 0 .. MaxItems : items' \in [1 .. n -> {it \in Item : Fits(it)}]
  <2>1. PICK n \in 0 .. MaxItems : items' \in [1 .. n -> {it \in Item : Fits(it)}]
    BY <1>3
  <2>2. n \in Nat
    BY IntakeAssumption
  <2>3. items' \in Seq(Item) /\ DOMAIN items' = 1 .. Len(items') /\ Len(items') \in Nat
    BY <2>1, <2>2
  <2>4. \A k \in DOMAIN items' : Fits(items'[k])
    BY <2>1, <2>2
  <2>5. TypeOK'
    BY <1>1, <1>3, <2>3 DEF Inv, TypeOK
  <2>6. (\A k \in DOMAIN items : Fits(items[k]))'
    BY <2>4 DEF Fits
  <2> QED
    BY <1>1, <1>3, <2>5, <2>6 DEF Inv, WholeBody, TotalExact, OverflowReal, ChecksHold
<1> QED
  BY <1>2, <1>3 DEF Decode

LEMMA ValidateInv ==
  ASSUME Inv, ValidateCreateOrderRequest
  PROVE  Inv'
<1>1. UNCHANGED <<size, got, items, i, total, exact>> /\ pc = "validate" /\ err = "nil"
  BY DEF Inv, ValidateCreateOrderRequest
<1>2. CASE Refuse("ValidationErrors")
  BY <1>1, <1>2 DEF Refuse, Inv, TypeOK, WholeBody, TotalExact, OverflowReal, ChecksHold, Fits
<1>3. CASE /\ pc' = "total" /\ UNCHANGED err
           /\ Len(items) # 0 /\ \A k \in DOMAIN items : ValidItem(items[k])
  BY <1>1, <1>3 DEF Inv, TypeOK, WholeBody, TotalExact, OverflowReal, ChecksHold, Fits, ValidItem
<1> QED
  BY <1>2, <1>3 DEF ValidateCreateOrderRequest

\* One item: the tests refuse exactly what does not fit, and what passes is added
\* without wrapping.
LEMMA AddItemInv ==
  ASSUME Inv, AddItem
  PROVE  Inv'
<1> DEFINE p == items[i].price
           q == items[i].quantity
           line == multiplyCents(p, q)
           next == Wrap(total + line)
<1>1. /\ UNCHANGED <<size, got, items>> /\ pc = "total" /\ err = "nil"
      /\ i \in 1 .. Len(items) /\ i \in DOMAIN items /\ total = exact
      /\ total \in 0 .. maxInt64 /\ maxInt64 \in Nat
  BY IntakeAssumption DEF Inv, AddItem, TypeOK, TotalExact
<1>2. p \in Nat /\ q \in Nat \ {0}
  <2>1. items[i] \in Item /\ ValidItem(items[i])
    BY <1>1 DEF Inv, TypeOK
  <2>2. p \in Int /\ q \in Int
    BY <2>1, IntakeAssumption DEF Item
  <2> QED
    BY <2>1, <2>2 DEF ValidItem
<1>3. exact' = exact + p * q /\ p * q \in Nat
  BY <1>2, Line DEF AddItem
<1>4. CASE multiplyOverflows(p, q) \/ addOverflows(line, next)
  <2>1. pc' = "done" /\ err' = "ErrTotalCentsOverflow" /\ UNCHANGED <<total, i>>
    BY <1>4 DEF AddItem, Refuse
  <2>2. exact' > maxInt64
    <3>1. CASE multiplyOverflows(p, q)
      <4>1. p * q > maxInt64
        BY <1>2, <3>1, Line
      <4> QED
        BY <1>1, <1>3, <4>1
    <3>2. CASE ~multiplyOverflows(p, q)
      <4>1. line = p * q /\ line \in 0 .. maxInt64 /\ addOverflows(line, next)
        BY <1>1, <1>2, <1>4, <3>2, Line
      <4>2. total + line > maxInt64
        BY <1>1, <4>1, SignTest
      <4> QED
        BY <1>1, <1>3, <4>1, <4>2
    <3> QED
      BY <3>1, <3>2
  <2>3. exact' \in Nat
    BY <1>1, <1>3
  <2> QED
    BY <1>1, <2>1, <2>2, <2>3
       DEF Inv, TypeOK, WholeBody, TotalExact, OverflowReal, ChecksHold, Fits
<1>5. CASE ~(multiplyOverflows(p, q) \/ addOverflows(line, next))
  <2>1. total' = next /\ i' = i + 1 /\ UNCHANGED <<pc, err>>
    BY <1>5 DEF AddItem
  <2>2. line = p * q /\ line \in 0 .. maxInt64 /\ ~addOverflows(line, next)
    BY <1>1, <1>2, <1>5, Line
  <2>3. total' = total + line /\ total + line <= maxInt64
    BY <1>1, <2>1, <2>2, SignTest
  <2>4. total' \in 0 .. maxInt64 /\ exact' = total' /\ exact' \in Nat
    BY <1>1, <1>3, <2>2, <2>3
  <2>5. i' \in 1 .. Len(items) + 1
    <3>1. Len(items) \in Nat
      <4>1. items \in Seq(Item)
        BY DEF Inv, TypeOK
      <4> QED
        BY <4>1
    <3> QED
      BY <1>1, <2>1, <3>1
  <2> QED
    BY <1>1, <2>1, <2>4, <2>5
       DEF Inv, TypeOK, WholeBody, TotalExact, OverflowReal, ChecksHold, Fits, ValidItem
<1> QED
  BY <1>4, <1>5

\* The last steps, up to the transaction.
LEMMA EndInv ==
  ASSUME Inv, Totalled \/ ParseIDs
  PROVE  Inv'
<1>1. UNCHANGED <<size, got, items, i, total, exact>> /\ pc \in {"total", "ids"} /\ err = "nil"
  BY DEF Inv, Totalled, ParseIDs
<1>2. CASE Refuse("ValidationErrors")
  BY <1>1, <1>2 DEF Refuse, Inv, TypeOK, WholeBody, TotalExact, OverflowReal, ChecksHold, Fits
<1>3. CASE pc' \in {"ids", "insert"} /\ UNCHANGED err
  <2>1. items # << >> /\ \A k \in DOMAIN items : /\ items[k].quantity > 0 /\ items[k].price >= 0
          /\ items[k].quantity <= maxInt32 /\ items[k].price <= maxInt64
    <3>1. Len(items) # 0 /\ \A k \in DOMAIN items : ValidItem(items[k]) /\ Fits(items[k])
      BY <1>1 DEF Inv
    <3>2. \A k \in DOMAIN items : items[k].quantity \in Int /\ items[k].price \in Int
      <4>1. items \in Seq(Item)
        BY DEF Inv, TypeOK
      <4>2. \A k \in DOMAIN items : items[k] \in Item
        BY <4>1
      <4> QED
        BY <4>2, IntakeAssumption DEF Item
    <3> QED
      BY <3>1, <3>2, IntakeAssumption DEF ValidItem, Fits
  <2>2. ChecksHold'
    BY <1>1, <2>1, IntakeAssumption DEF Inv, TypeOK, ChecksHold
  <2>3. TypeOK' /\ WholeBody' /\ TotalExact' /\ OverflowReal'
    BY <1>1, <1>3 DEF Inv, TypeOK, WholeBody, TotalExact, OverflowReal
  <2> QED
    BY <1>1, <1>3, <2>2, <2>3 DEF Inv, Fits, ValidItem
<1> QED
  BY <1>2, <1>3 DEF Totalled, ParseIDs

LEMMA NextInv == Inv /\ [Next]_vars => Inv'
<1> SUFFICES ASSUME Inv, [Next]_vars PROVE Inv'
  OBVIOUS
<1>1. CASE UNCHANGED vars
  BY <1>1 DEF vars, Inv, TypeOK, WholeBody, TotalExact, OverflowReal, ChecksHold, Fits, ValidItem
<1> QED
  BY <1>1, ReadingInv, DecodeInv, ValidateInv, AddItemInv, EndInv DEF Next, Finished

\* Everything a request that reaches the database relies on, for every width, limit
\* and number of items.
THEOREM IntakeCorrect == Spec => []Inv
<1> QED
  BY InitInv, NextInv, PTL DEF Spec

\* A total that is stored is the exact sum of its lines (calculateTotalCents).
THEOREM TotalIsExact == Spec => []TotalExact
<1>1. Inv => TotalExact
  BY DEF Inv
<1> QED
  BY <1>1, IntakeCorrect, PTL

\* An overflow is reported only when there is one (multiplyCents, and the sign test
\* of calculateTotalCents).
THEOREM OverflowIsReal == Spec => []OverflowReal
<1>1. Inv => OverflowReal
  BY DEF Inv
<1> QED
  BY <1>1, IntakeCorrect, PTL

\* A body is decoded whole or refused for its length (decodeJSONStrict).
THEOREM BodyWhole == Spec => []WholeBody
<1>1. Inv => WholeBody
  BY DEF Inv
<1> QED
  BY <1>1, IntakeCorrect, PTL

\* No request that passes validation is refused by a CHECK of the tables.
THEOREM ChecksAreMet == Spec => []ChecksHold
<1>1. Inv => ChecksHold
  BY DEF Inv
<1> QED
  BY <1>1, IntakeCorrect, PTL

\* Every variable keeps its type; the total never leaves the range of int64's
\* naturals.
THEOREM IntakeTypes == Spec => []TypeOK
<1>1. Inv => TypeOK
  BY DEF Inv
<1> QED
  BY <1>1, IntakeCorrect, PTL
=============================================================================
