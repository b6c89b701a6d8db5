------------------------ MODULE JWTMetadataProofs ------------------------
(***************************************************************************)
(* The reader of the metadata documents is exact for every limit, every    *)
(* length of a body and every size of the reads: Inv of JWTMetadata is     *)
(* inductive as it stands.                                                 *)
(***************************************************************************)
EXTENDS JWTMetadata, TLAPS

LEMMA InitInv == Init => Inv
<1> SUFFICES ASSUME Init PROVE Inv
  OBVIOUS
<1> USE MetadataAssumption DEF Init
<1>1. TypeOK
  <2>1. httpTimeout \in Timeouts /\ pc = "start"
    OBVIOUS
  <2>2. doc \in {"discovery", "jwks", "refresh"}
    OBVIOUS
  <2>3. size \in Nat /\ end \in 0 .. size /\ pos \in 0 .. size
    OBVIOUS
  <2>4. limit \in Nat
    OBVIOUS
  <2>5. delivered \in 0 .. limit
    BY <2>4
  <2>6. remaining \in 0 .. limit
    BY <2>4
  <2>7. err \in Errors /\ accepted \in BOOLEAN
    BY DEF Errors
  <2> QED
    BY ONLY <2>1, <2>2, <2>3, <2>5, <2>6, <2>7 DEF TypeOK
<1>2. LimitExact /\ OnlyWholeDocuments
  BY DEF LimitExact, OnlyWholeDocuments
<1> QED
  BY <1>1, <1>2 DEF Inv

\* A Read past the limit takes at most one byte and hands nothing on.
LEMMA ReadExtraInv == Inv /\ ReadExtra => Inv'
<1> SUFFICES ASSUME Inv, ReadExtra PROVE Inv'
  OBVIOUS
<1>1. /\ remaining = 0 /\ delivered = limit /\ pos = delivered /\ err = "nil"
      /\ pos \in Nat /\ size \in Nat /\ limit \in Nat
  BY MetadataAssumption
     DEF Inv, TypeOK, LimitExact, ReadExtra, Wants
<1>2. PICK n \in {0, 1}, e \in {"nil", "EOF", "other"} :
        /\ n <= size - pos /\ (e = "EOF" => pos + n = size)
        /\ pos' = pos + n
        /\ err' = IF n > 0 THEN "TooLarge" ELSE e
  BY DEF ReadExtra, BaseRead
<1>3. UNCHANGED <<httpTimeout, pc, doc, size, end, delivered, remaining, accepted>>
  BY DEF ReadExtra
<1>4. CASE n = 0
  BY <1>1, <1>2, <1>3, <1>4
     DEF Inv, TypeOK, LimitExact, OnlyWholeDocuments, Errors
<1>5. CASE n = 1
  <2>1. pos' = limit + 1 /\ err' = "TooLarge" /\ size > limit
    BY <1>1, <1>2, <1>5
  <2> QED
    BY <1>1, <1>2, <1>3, <1>5, <2>1
       DEF Inv, TypeOK, LimitExact, OnlyWholeDocuments, Errors
<1> QED
  BY <1>4, <1>5

\* A Read within the limit hands on what it took, unless that is one byte too many.
LEMMA ReadWithinInv == Inv /\ ReadWithin => Inv'
<1> SUFFICES ASSUME Inv, ReadWithin PROVE Inv'
  OBVIOUS
<1>1. /\ remaining = limit - delivered /\ remaining > 0 /\ pos = delivered /\ err = "nil"
      /\ pos \in Nat /\ delivered \in Nat /\ remaining \in Nat
      /\ size \in Nat /\ limit \in Nat /\ MaxBuf \in Nat
  BY MetadataAssumption
     DEF Inv, TypeOK, LimitExact, ReadWithin, Wants
<1>2. PICK p \in 1 .. MaxBuf : \E n \in 0 .. p, e \in {"nil", "EOF", "other"} :
        /\ BaseRead(IF p > remaining + 1 THEN remaining + 1 ELSE p, n, e)
        /\ pos' = pos + n
        /\ IF TooMuch(n)
           THEN delivered' = delivered + remaining /\ remaining' = 0 /\ err' = "TooLarge"
           ELSE delivered' = delivered + n /\ remaining' = remaining - n /\ err' = e
  BY DEF ReadWithin
<1>3. PICK n \in 0 .. p, e \in {"nil", "EOF", "other"} :
        /\ n <= remaining + 1 /\ n <= size - pos /\ (e = "EOF" => pos + n = size)
        /\ pos' = pos + n
        /\ IF n > remaining
           THEN delivered' = delivered + remaining /\ remaining' = 0 /\ err' = "TooLarge"
           ELSE delivered' = delivered + n /\ remaining' = remaining - n /\ err' = e
  BY <1>1, <1>2 DEF BaseRead, TooMuch
<1>4. n \in Nat
  BY <1>1
<1>5. UNCHANGED <<httpTimeout, pc, doc, size, end, accepted>>
  BY DEF ReadWithin
<1>6. pc = "read" /\ (accepted => end # 0 /\ end <= delivered)
  BY DEF ReadWithin, Inv, OnlyWholeDocuments
<1>7. CASE n > remaining
  <2>1. /\ n = remaining + 1 /\ pos' = limit + 1 /\ delivered' = limit /\ remaining' = 0
        /\ err' = "TooLarge" /\ size > limit
    BY <1>1, <1>3, <1>4, <1>7
  <2> QED
    BY <1>1, <1>3, <1>4, <1>5, <1>6, <1>7, <2>1
       DEF Inv, TypeOK, LimitExact, OnlyWholeDocuments, Errors
<1>8. CASE n <= remaining
  <2>1. /\ pos' = pos + n /\ delivered' = delivered + n /\ remaining' = remaining - n
        /\ err' = e
    BY <1>1, <1>3, <1>4, <1>8
  <2> QED
    BY <1>1, <1>3, <1>4, <1>5, <1>6, <1>8, <2>1
       DEF Inv, TypeOK, LimitExact, OnlyWholeDocuments, Errors
<1> QED
  BY <1>1, <1>4, <1>7, <1>8

\* A document is accepted with all of its bytes, or given up.
LEMMA ConsumeInv == Inv /\ Consume => Inv'
<1> SUFFICES ASSUME Inv, Consume PROVE Inv'
  OBVIOUS
<1> USE MetadataAssumption DEF Inv, TypeOK, LimitExact, OnlyWholeDocuments, Errors, body
<1>1. CASE AcceptDiscovery
  BY <1>1 DEF AcceptDiscovery, Complete
<1>2. CASE AcceptJWKS
  BY <1>2 DEF AcceptJWKS, Complete
<1>3. CASE Refuse
  BY <1>3 DEF Refuse, GiveUp
<1>4. CASE AcceptKeys
  BY <1>4 DEF AcceptKeys
<1>5. CASE RefuseKeys
  BY <1>5 DEF RefuseKeys, GiveUp
<1> QED
  BY <1>1, <1>2, <1>3, <1>4, <1>5 DEF Consume

LEMMA NextInv == Inv /\ [Next]_vars => Inv'
<1> SUFFICES ASSUME Inv, [Next]_vars PROVE Inv'
  OBVIOUS
<1> USE MetadataAssumption DEF Inv, TypeOK, LimitExact, OnlyWholeDocuments, Errors, body
<1>1. CASE Start
  BY <1>1 DEF Start
<1>2. CASE RequestFails
  BY <1>2 DEF RequestFails, GiveUp
<1>3. CASE RoundTrip
  <2> USE <1>3 DEF RoundTrip
  <2>1. size' \in Nat /\ end' \in 0 .. size' /\ pos' = 0 /\ delivered' = 0
    OBVIOUS
  <2>2. remaining' = limit /\ err' = "nil" /\ ~accepted' /\ pc' = "read"
    OBVIOUS
  <2>3. TypeOK'
    <3>1. limit \in Nat
      OBVIOUS
    <3>2. remaining' \in 0 .. limit /\ delivered' \in 0 .. limit
      BY <2>1, <2>2, <3>1
    <3>3. pos' \in 0 .. size'
      BY <2>1
    <3>4. err' \in Errors /\ accepted' \in BOOLEAN
      BY <2>2
    <3> QED
      BY <2>1, <2>2, <3>2, <3>3, <3>4
  <2>4. (LimitExact /\ OnlyWholeDocuments)'
    BY <2>1, <2>2
  <2> QED
    BY <2>1, <2>2, <2>3, <2>4
<1>4. CASE Timeout
  <2>1. CASE pc = "request"
    BY <1>4, <2>1 DEF Timeout, GiveUp
  <2>2. CASE pc # "request"
    BY <1>4, <2>2 DEF Timeout, Wants
  <2> QED
    BY <2>1, <2>2
<1>5. CASE ReadExtra
  BY <1>5, ReadExtraInv
<1>6. CASE ReadWithin
  BY <1>6, ReadWithinInv
<1>7. CASE Consume
  BY <1>7, ConsumeInv
<1>8. CASE BeginRefresh
  BY <1>8 DEF BeginRefresh
<1>9. CASE UNCHANGED vars
  BY <1>9 DEF vars
<1> QED
  BY <1>1, <1>2, <1>3, <1>4, <1>5, <1>6, <1>7, <1>8, <1>9 DEF Next, Failed

\* The invariant that gives the reader its exactness (maxBytesReadCloser.Read with the
\* decoder and io.ReadAll on top of it).
THEOREM MetadataInvariance == Spec => []Inv
<1>1. Init => Inv
  BY InitInv
<1>2. Inv /\ [Next]_vars => Inv'
  BY NextInv
<1> QED
  BY <1>1, <1>2, PTL DEF Spec

\* For every limit and every size of the reads, "too large" is said of longer bodies
\* only, and "the end" of bodies that were handed on whole (maxBytesReadCloser.Read).
THEOREM ReaderExact == Spec => []LimitExact
<1>1. Inv => LimitExact
  BY DEF Inv
<1> QED
  BY <1>1, MetadataInvariance, PTL

\* No document is accepted whose value was cut by the limit (fetchMetadataDocument and
\* the refresh of the keys).
THEOREM DocumentsWhole == Spec => []OnlyWholeDocuments
<1>1. Inv => OnlyWholeDocuments
  BY DEF Inv
<1> QED
  BY <1>1, MetadataInvariance, PTL
=============================================================================
