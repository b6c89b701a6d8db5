------------------------------- MODULE Access -------------------------------
(***************************************************************************)
(* From the environment to the identity of a request: the configuration is *)
(* loaded (module Config), the identity middleware built from it, and then *)
(* each request goes through the middleware of that mode, the role the     *)
(* route requires and what the handler asks of the identity.  A header or  *)
(* a claim is chosen where it is read.  A token's signature, issuer,       *)
(* audience and expiry are checked by the OIDC library.                    *)
(***************************************************************************)
EXTENDS Config

CONSTANTS Customers,   \* customer identifiers
          Subjects,    \* subjects that are UUIDs
          OtherValue,  \* a role value that no configuration uses
          MaxValues,   \* bound on the length of a role claim
          None         \* an absent identifier

ASSUME AccessAssumption ==
  /\ OtherValue \notin RoleValues
  /\ None \notin Customers \cup Subjects
  /\ MaxValues \in Nat

\* What an entry of a role claim may be.
ClaimValues == RoleValues \cup {"empty", OtherValue}

VARIABLES route,     \* "customer" (create, list, get, cancel) or "status"
          alg,       \* the algorithm of the request's token, "empty" if it has none
          subject,   \* its subject claim: a UUID or "text"
          values,    \* its role claim, split into the values resolveRole goes through
          j,         \* how many of them have been looked at
          matched,   \* the role found so far, "empty" if none
          customer,  \* its customer claim, or the customer header of dev mode
          identity,  \* what the middleware puts in the context
          resp       \* the answer: 401, 403, 200 for what reaches the service, or 0

reqVars == <<route, alg, subject, values, j, matched, customer, identity, resp>>
vars == <<pc, configVars, reqVars>>

NoIdentity == [role |-> "empty", customer |-> None, subject |-> None]

AccessInit ==
  /\ Init
  /\ route = "customer" /\ alg = "empty" /\ subject = "empty" /\ values = << >> /\ j = 0
  /\ matched = "empty" /\ customer = None /\ identity = NoIdentity /\ resp = 0

Load == LoadConfig /\ UNCHANGED reqVars

\* NewIdentityMiddleware; JWT mode also fetches its documents (module JWTMetadata).
NewIdentityMiddleware ==
  /\ pc = "loaded"
  /\ \/ pc' = "serving"
     \/ mode = "jwt" /\ Fail
  /\ UNCHANGED <<configVars, reqVars>>

Answer(status) == pc' = "serving" /\ resp' = status

Arrive ==
  /\ pc = "serving"
  /\ pc' = "identify"
  /\ route' \in {"customer", "status"}
  /\ alg' = "empty" /\ subject' = "empty" /\ values' = << >> /\ j' = 0
  /\ matched' = "empty" /\ customer' = None /\ identity' = NoIdentity /\ resp' = 0
  /\ UNCHANGED configVars

\* IdentityMiddleware without dev mode.
Locked ==
  /\ pc = "identify" /\ mode = "locked"
  /\ Answer(401)
  /\ UNCHANGED <<configVars, route, alg, subject, values, j, matched, customer, identity>>

\* identityFromHeaders: a role, and a customer which only a CUSTOMER must have; no
\* subject is ever set.  Missing and unparsable headers are refused.
identityFromHeaders ==
  /\ pc = "identify" /\ mode = "dev"
  /\ \/ Answer(401) /\ UNCHANGED <<customer, identity>>
     \/ \E role \in Roles, c \in Customers \cup {None} :
          /\ role = "CUSTOMER" => c # None
          /\ customer' = c
          /\ identity' = [role |-> role, customer |-> c, subject |-> None]
          /\ pc' = "route" /\ UNCHANGED resp
  /\ UNCHANGED <<configVars, route, alg, subject, values, j, matched>>

\* bearerToken and verifier.Verify: a token signed with an allowed algorithm, or 401.
VerifyToken ==
  /\ pc = "identify" /\ mode = "jwt"
  /\ \/ Answer(401) /\ UNCHANGED alg
     \/ \E n \in DOMAIN algs : alg' = algs[n] /\ pc' = "claims" /\ UNCHANGED resp
  /\ UNCHANGED <<configVars, route, subject, values, j, matched, customer, identity>>

\* The subject and role claims: missing, blank or of another type, or a subject and a
\* list of role values.  A single string is a list of one, null one of the empty string.
ReadClaims ==
  /\ pc = "claims"
  /\ \/ Answer(401) /\ UNCHANGED <<subject, values>>
     \/ /\ subject' \in Subjects \cup {"text"}
        /\ \E n \in 0 .. MaxValues :
             values' \in [1 .. n -> ClaimValues]
        /\ pc' = "role" /\ UNCHANGED resp
  /\ UNCHANGED <<configVars, route, alg, j, matched, customer, identity>>

\* The switch of resolveRole: the first configured value that is equal, "empty" if none.
RoleOf(value) ==
  IF value = roles["CUSTOMER"] THEN "CUSTOMER"
  ELSE IF value = roles["ADMIN"] THEN "ADMIN"
  ELSE IF value = roles["SYSTEM"] THEN "SYSTEM"
  ELSE "empty"

\* Mutant: the last value that stands for a role wins.
ConflictIgnored(role) == FALSE

\* Two values of the claim mean different roles.
Conflict(role) == matched # "empty" /\ matched # role

\* resolveRole, one value.
ResolveValue ==
  /\ pc = "role" /\ j < Len(values)
  /\ LET role == RoleOf(values[j + 1]) IN
       IF role # "empty" /\ Conflict(role)
       THEN Answer(401) /\ UNCHANGED <<j, matched>>
       ELSE /\ j' = j + 1
            /\ matched' = IF role = "empty" THEN matched ELSE role
            /\ UNCHANGED <<pc, resp>>
  /\ UNCHANGED <<configVars, route, alg, subject, values, customer, identity>>

\* Mutant: the subject of an ADMIN or SYSTEM token is not parsed.
SubjectAny == TRUE
SubjectIsUUID == subject \in Subjects

\* identityFromJWT after the role: a CUSTOMER's customer claim is a UUID, and so is the
\* subject of the privileged roles.
identityFromJWT ==
  /\ pc = "role" /\ j = Len(values)
  /\ \/ /\ matched \notin {"ADMIN", "SYSTEM"} \/ ~SubjectIsUUID
        /\ Answer(401) /\ UNCHANGED <<customer, identity>>
     \/ /\ matched = "CUSTOMER"
        /\ customer' \in Customers
        /\ identity' = [role |-> matched, customer |-> customer', subject |-> None]
        /\ pc' = "route" /\ UNCHANGED resp
     \/ /\ matched \in {"ADMIN", "SYSTEM"} /\ SubjectIsUUID
        /\ identity' = [role |-> matched, customer |-> None, subject |-> subject]
        /\ pc' = "route" /\ UNCHANGED <<resp, customer>>
  /\ UNCHANGED <<configVars, route, alg, subject, values, j, matched>>

\* RequireRole on the status route.
RequireRole ==
  /\ pc = "route" /\ route = "status"
  /\ Answer(IF identity.role \in {"ADMIN", "SYSTEM"} THEN 200 ELSE 403)
  /\ UNCHANGED <<configVars, route, alg, subject, values, j, matched, customer, identity>>

\* The other handlers ask for the customer of the identity.
CustomerIDFromContext ==
  /\ pc = "route" /\ route = "customer"
  /\ Answer(IF identity.customer = None THEN 401 ELSE 200)
  /\ UNCHANGED <<configVars, route, alg, subject, values, j, matched, customer, identity>>

Stopped == pc = "error" /\ UNCHANGED vars

Next == \/ Load \/ NewIdentityMiddleware \/ Arrive \/ Locked \/ identityFromHeaders
        \/ VerifyToken \/ ReadClaims \/ ResolveValue \/ identityFromJWT
        \/ RequireRole \/ CustomerIDFromContext \/ Stopped

Spec == AccessInit /\ [][Next]_vars

-----------------------------------------------------------------------------
(* Properties. *)

Served == resp = 200

\* The OMS roles whose values occur in the token's claim.
NamedRoles == {r \in Roles : \E n \in DOMAIN values : values[n] = roles[r]}

TypeOK ==
  /\ pc \in {"durations", "database", "batch", "mode", "jwt", "split", "algs", "loaded",
             "error", "serving", "identify", "claims", "role", "route"}
  /\ shutdown \in {"default", "positive", "nonpositive"}
  /\ asked \in Int /\ batch \in Int
  /\ mode \in {"locked", "dev", "jwt"}
  /\ jwksURL \in URLs /\ discoveryURL \in URLs
  /\ roles \in [Roles -> RoleValues \cup {"empty"}]
  /\ parts \in Seq(AlgorithmTexts) /\ k \in 0 .. Len(parts)
  /\ algs \in Seq(Symmetric \cup Asymmetric)
  /\ route \in {"customer", "status"}
  /\ alg \in AlgorithmTexts
  /\ subject \in Subjects \cup {"empty", "text"}
  /\ values \in Seq(ClaimValues) /\ j \in 0 .. Len(values)
  /\ matched \in Roles \cup {"empty"}
  /\ customer \in Customers \cup {None}
  /\ identity \in [role : Roles \cup {"empty"}, customer : Customers \cup {None},
                   subject : Subjects \cup {None}]
  /\ resp \in {0, 200, 401, 403}

\* In JWT mode the role a request is served under is the only OMS role that its token's
\* claim names, in whatever order and however often the claim names it: no
\* configuration that loads makes one value mean two roles (resolveRole's switch with
\* the checks of loadAuthConfig).
RoleUnambiguous ==
  Served /\ mode = "jwt" => NamedRoles = {identity.role}

\* No request is served in locked mode, and in JWT mode only one whose token is signed
\* with one of the asymmetric algorithms that were configured (IdentityMiddleware,
\* parseAllowedAlgorithms).
OnlyProven ==
  Served => /\ mode # "locked"
            /\ mode = "jwt" => alg \in Asymmetric

\* What a served request does can be attributed: on the customer routes to a customer, in
\* JWT mode the one its token names, in the CUSTOMER role; on the status route to a
\* privileged role, in JWT mode with a UUID as subject (identityFromJWT,
\* identityFromHeaders, RequireRole, CustomerIDFromContext).
Attributable ==
  Served =>
    IF route = "customer"
    THEN /\ identity.customer \in Customers
         /\ mode = "jwt" => identity.role = "CUSTOMER" /\ identity.customer = customer
    ELSE /\ identity.role \in {"ADMIN", "SYSTEM"}
         /\ mode = "jwt" => identity.subject \in Subjects

\* README.md:420: WORKER_BATCH_SIZE is the maximum of orders in one batch; config.go:83:
\* it must be a positive integer.
BatchAsAsked == pc = "serving" => batch = asked /\ batch > 0

\* What is known of the configuration while it is loaded and after.
ConfigInv ==
  /\ pc \in {"jwt", "split", "algs"} => mode = "jwt"
  /\ mode = "jwt" /\ pc \notin {"jwt", "error"} => Distinct(roles)
  /\ \A n \in DOMAIN algs : algs[n] \in Asymmetric

\* What resolveRole has found in the values it has gone through.
Resolved ==
  /\ \A n \in 1 .. j : RoleOf(values[n]) \in {"empty", matched}
  /\ matched # "empty" => \E n \in 1 .. j : RoleOf(values[n]) = matched

TokenInv ==
  /\ pc \in {"claims", "role"} => mode = "jwt"
  /\ pc \in {"claims", "role", "route"} /\ mode = "jwt" => alg \in Asymmetric
  /\ pc = "role" => subject \in Subjects \cup {"text"} /\ Resolved
  /\ pc = "claims" => j = 0 /\ matched = "empty"
  /\ pc = "identify" => j = 0 /\ matched = "empty"

\* What an identity says of its token before the route is taken.
IdentityInv ==
  pc = "route" =>
    /\ mode # "locked" /\ identity.role \in Roles
    /\ mode = "jwt" =>
         /\ NamedRoles = {identity.role}
         /\ identity.role = "CUSTOMER" => identity.customer = customer
                                          /\ customer \in Customers
         /\ identity.role # "CUSTOMER" => identity.customer = None
                                          /\ identity.subject \in Subjects

\* The inductive invariant: the properties with what the steps before them establish.
Inv ==
  /\ TypeOK /\ ConfigInv /\ TokenInv /\ IdentityInv
  /\ RoleUnambiguous /\ OnlyProven /\ Attributable
  /\ Served => pc = "serving"
=============================================================================
