---------------------------- MODULE JWTMetadata ----------------------------
(***************************************************************************)
(* The documents JWT mode fetches: the discovery document and the keys     *)
(* when the process starts, the keys again whenever a token names one that *)
(* is not known.  Every body is read through maxBytesReadCloser, which has *)
(* to stop at a limit in reads of any size and still tell a body of        *)
(* exactly that length from a longer one; every request is bounded in time *)
(* by the client's timeout.  The documents' contents are abstracted to the *)
(* byte at which their first JSON value is complete.                       *)
(***************************************************************************)
EXTENDS Integers

CONSTANTS limit,     \* maxJWTMetadataResponseBytes
          Sizes,     \* lengths of bodies
          MaxBuf,    \* bound on the buffer a consumer passes to Read
          Timeouts   \* values of Config.HTTPTimeout

ASSUME MetadataAssumption ==
  /\ limit \in Nat
  /\ Sizes \subseteq Nat
  /\ MaxBuf \in Nat
  /\ Timeouts \subseteq Int

VARIABLES httpTimeout, \* Config.HTTPTimeout
          pc,          \* "start", "request", "read", "serving" or "failed"
          doc,         \* "discovery", "jwks" or "refresh": what is being fetched
          size,        \* the length of the body under way
          end,         \* where its first JSON value is complete, 0 if it never is
          pos,         \* bytes taken from the connection
          delivered,   \* bytes handed to the consumer
          remaining,   \* maxBytesReadCloser.remaining
          err,         \* what the last Read returned with its bytes
          accepted     \* whether the last body ended in an accepted document

body == <<size, end, pos, delivered, remaining, err>>
vars == <<httpTimeout, pc, doc, size, end, pos, delivered, remaining, err, accepted>>

Errors == {"nil", "EOF", "TooLarge", "other"}

Init ==
  /\ httpTimeout \in Timeouts
  /\ pc = "start"
  /\ doc \in {"discovery", "jwks"}
  /\ size = 0 /\ end = 0 /\ pos = 0 /\ delivered = 0 /\ remaining = limit
  /\ err = "nil"
  /\ accepted = FALSE

\* Mutant: a timeout of zero is taken, which net/http understands as none.
StartUnchecked ==
  /\ pc = "start"
  /\ pc' = "request"
  /\ UNCHANGED <<httpTimeout, doc, body, accepted>>

Start ==
  /\ pc = "start"
  /\ pc' = IF httpTimeout <= 0 THEN "failed" ELSE "request"
  /\ UNCHANGED <<httpTimeout, doc, body, accepted>>

\* An error while starting ends the process; one of a refresh costs the request a 401.
GiveUp ==
  /\ pc' = IF doc = "refresh" THEN "serving" ELSE "failed"
  /\ accepted' = FALSE

\* The request cannot be made or is cancelled, or the status is not 200.
RequestFails ==
  /\ pc = "request"
  /\ GiveUp
  /\ UNCHANGED <<httpTimeout, doc, body>>

\* The response's header: its body gets a reader with the whole limit.
RoundTrip ==
  /\ pc = "request"
  /\ pc' = "read"
  /\ size' \in Sizes /\ end' \in 0 .. size'
  /\ pos' = 0 /\ delivered' = 0 /\ remaining' = limit /\ err' = "nil"
  /\ accepted' = FALSE
  /\ UNCHANGED <<httpTimeout, doc>>

\* A Read of the connection's body into a buffer of length len: n bytes and e.
BaseRead(len, n, e) ==
  /\ n <= len /\ n <= size - pos
  /\ e = "EOF" => pos + n = size

\* The consumer stops at the first error.  A json.Decoder also stops once the value
\* it was asked for is complete; io.ReadAll goes on to the end.
Wants == err = "nil" /\ (doc = "refresh" \/ end = 0 \/ delivered < end)

\* http.Client.Timeout covers the reading of the body; zero is no timeout.
Timeout ==
  /\ httpTimeout > 0
  /\ \/ pc = "request" /\ GiveUp /\ UNCHANGED <<httpTimeout, doc, body>>
     \/ /\ pc = "read" /\ Wants
        /\ err' = "other"
        /\ UNCHANGED <<httpTimeout, pc, doc, size, end, pos, delivered, remaining, accepted>>

\* Mutant: the end of the limit is the end of the body, as for an io.LimitReader.
ReadExtraCut ==
  /\ pc = "read" /\ Wants /\ remaining <= 0
  /\ err' = "EOF"
  /\ UNCHANGED <<httpTimeout, pc, doc, size, end, pos, delivered, remaining, accepted>>

\* maxBytesReadCloser.Read after the limit: one more byte decides.
ReadExtra ==
  /\ pc = "read" /\ Wants /\ remaining <= 0
  /\ \E n \in {0, 1}, e \in {"nil", "EOF", "other"} :
       /\ BaseRead(1, n, e)
       /\ pos' = pos + n
       /\ err' = IF n > 0 THEN "TooLarge" ELSE e
  /\ UNCHANGED <<httpTimeout, pc, doc, size, end, delivered, remaining, accepted>>

\* Mutant: >= for >, a body of exactly the limit is too large.
TooMuchEarly(n) == n >= remaining

\* Mutant: what is over the limit is not cut off.
TooMuchNever(n) == FALSE

TooMuch(n) == n > remaining

\* maxBytesReadCloser.Read within the limit, the buffer cut to one byte more.
ReadWithin ==
  /\ pc = "read" /\ Wants /\ remaining > 0
  /\ \E p \in 1 .. MaxBuf : \E n \in 0 .. p, e \in {"nil", "EOF", "other"} :
       /\ BaseRead(IF p > remaining + 1 THEN remaining + 1 ELSE p, n, e)
       /\ pos' = pos + n
       /\ IF TooMuch(n)
          THEN delivered' = delivered + remaining /\ remaining' = 0 /\ err' = "TooLarge"
          ELSE delivered' = delivered + n /\ remaining' = remaining - n /\ err' = e
  /\ UNCHANGED <<httpTimeout, pc, doc, size, end, accepted>>

\* The decoder looks at the bytes before it looks at the error that came with them.
Complete == doc # "refresh" /\ end # 0 /\ delivered >= end

\* The discovery document has the configured issuer and an HTTPS jwks_uri.
AcceptDiscovery ==
  /\ pc = "read" /\ doc = "discovery" /\ Complete
  /\ pc' = "request" /\ doc' = "jwks" /\ accepted' = TRUE
  /\ UNCHANGED <<httpTimeout, body>>

\* The JWKS document has a key: the middleware is ready.
AcceptJWKS ==
  /\ pc = "read" /\ doc = "jwks" /\ Complete
  /\ pc' = "serving" /\ accepted' = TRUE
  /\ UNCHANGED <<httpTimeout, doc, body>>

\* A broken value, the end or an error before a value is complete, or a value that
\* is not what it should be: the wrong issuer, no URL, no keys.
Refuse ==
  /\ pc = "read" /\ doc # "refresh"
  /\ end = 0 \/ Complete \/ err # "nil"
  /\ GiveUp
  /\ UNCHANGED <<httpTimeout, doc, body>>

\* A token is signed by a key that is not known.
BeginRefresh ==
  /\ pc = "serving"
  /\ pc' = "request" /\ doc' = "refresh"
  /\ UNCHANGED <<httpTimeout, body, accepted>>

\* The refreshed keys: io.ReadAll has returned without an error.
AcceptKeys ==
  /\ pc = "read" /\ doc = "refresh" /\ err = "EOF" /\ end # 0
  /\ pc' = "serving" /\ accepted' = TRUE
  /\ UNCHANGED <<httpTimeout, doc, body>>

RefuseKeys ==
  /\ pc = "read" /\ doc = "refresh" /\ err # "nil"
  /\ GiveUp
  /\ UNCHANGED <<httpTimeout, doc, body>>

Failed == pc = "failed" /\ UNCHANGED vars

Consume == AcceptDiscovery \/ AcceptJWKS \/ Refuse \/ AcceptKeys \/ RefuseKeys

Next == \/ Start \/ RequestFails \/ RoundTrip \/ Timeout \/ ReadExtra \/ ReadWithin
        \/ Consume \/ BeginRefresh \/ Failed

Spec == Init /\ [][Next]_vars

\* The process runs and timers expire; nothing is asked of the remote server.
FairSpec == Spec /\ WF_vars(Start) /\ WF_vars(Timeout) /\ WF_vars(Consume)

-----------------------------------------------------------------------------
(* Properties. *)

TypeOK ==
  /\ httpTimeout \in Timeouts
  /\ pc \in {"start", "request", "read", "serving", "failed"}
  /\ doc \in {"discovery", "jwks", "refresh"}
  /\ size \in Nat /\ end \in 0 .. size
  /\ pos \in 0 .. size /\ delivered \in 0 .. limit /\ remaining \in 0 .. limit
  /\ err \in Errors
  /\ accepted \in BOOLEAN

\* Whatever the sizes of the reads, a body is reported too large only if it is longer
\* than the limit, and then one byte more than the limit was taken from the connection
\* and exactly the limit handed on; its end is reported only when all of it was handed
\* on (maxBytesReadCloser.Read).
LimitExact ==
  /\ pos <= limit + 1
  /\ err = "TooLarge" => size > limit /\ delivered = limit
  /\ err = "EOF" => delivered = size

\* A document is accepted only if the value it was decoded from lay within the limit
\* and was handed on to its last byte, and refreshed keys only from a whole body
\* (fetchMetadataDocument; go-oidc's refresh through the same client).
OnlyWholeDocuments ==
  accepted => /\ end # 0 /\ end <= delivered /\ delivered <= limit
              /\ doc = "refresh" /\ pc = "serving" => delivered = size

\* The start and every refresh come to an end, even if the remote server stops in the
\* middle of a body (boundedJWTHTTPClient; the refusal of a timeout that is not positive).
FetchEnds == pc \in {"start", "request", "read"} ~> pc \in {"serving", "failed"}

\* The inductive invariant.
Inv ==
  /\ TypeOK /\ LimitExact /\ OnlyWholeDocuments
  /\ remaining = limit - delivered
  /\ err = "TooLarge" => pos = limit + 1
  /\ err # "TooLarge" => pos = delivered
=============================================================================
