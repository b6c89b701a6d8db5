---------------------------- MODULE AccessProofs ----------------------------
(***************************************************************************)
(* For every set of role values, every list of algorithms and every length *)
(* of a role claim: what a loaded configuration and the identity           *)
(* middleware make sure of before a request is served.                     *)
(***************************************************************************)
EXTENDS Access, TLAPS

\* With distinct values the order of the cases in resolveRole's switch is immaterial.
LEMMA RoleOfValue ==
  ASSUME Distinct(roles), NEW v, NEW r \in Roles
  PROVE  RoleOf(v) = r <=> v = roles[r]
  BY DEF Distinct, Roles, RoleOf

LEMMA RoleOfType == \A v : RoleOf(v) \in Roles \cup {"empty"}
  BY DEF RoleOf, Roles

\* At the end of the loop the one role found is the only one the claim names.
LEMMA ResolvedNames ==
  ASSUME TypeOK, Distinct(roles), Resolved, j = Len(values), matched \in Roles
  PROVE  NamedRoles = {matched}
<1>1. values \in Seq(ClaimValues)
  BY DEF TypeOK
<1>2. DOMAIN values = 1 .. j
  BY <1>1
<1>3. matched # "empty"
  BY DEF Roles
<1>4. ASSUME NEW r \in NamedRoles PROVE r = matched
  <2>1. r \in Roles /\ r # "empty"
    BY DEF NamedRoles, Roles
  <2>2. PICK n \in 1 .. j : values[n] = roles[r]
    BY <1>2, <1>4 DEF NamedRoles
  <2>3. RoleOf(values[n]) = r
    BY <2>1, <2>2, RoleOfValue
  <2> QED
    BY <2>1, <2>3 DEF Resolved
<1>5. matched \in NamedRoles
  <2>1. PICK n \in 1 .. j : RoleOf(values[n]) = matched
    BY <1>3 DEF Resolved
  <2>2. values[n] = roles[matched]
    BY <2>1, RoleOfValue
  <2> QED
    BY <1>2, <2>1, <2>2 DEF NamedRoles
<1> QED
  BY <1>4, <1>5

LEMMA InitInv == AccessInit => Inv
<1> SUFFICES ASSUME AccessInit PROVE Inv
  OBVIOUS
<1>1. /\ pc = "durations" /\ shutdown = "default" /\ asked = 500 /\ batch = 500
      /\ mode = "locked" /\ jwksURL = "empty" /\ discoveryURL = "empty"
      /\ route = "customer" /\ alg = "empty" /\ subject = "empty" /\ matched = "empty"
      /\ customer = None /\ resp = 0
  BY DEF AccessInit, Init
<1>2. roles \in [Roles -> RoleValues \cup {"empty"}]
  BY DEF AccessInit, Init
<1>3. identity \in [role : Roles \cup {"empty"}, customer : Customers \cup {None},
                    subject : Subjects \cup {None}]
  BY DEF AccessInit, NoIdentity
<1>4. parts \in Seq(AlgorithmTexts) /\ k \in 0 .. Len(parts)
  <2>1. parts = << >> /\ k = 0
    BY DEF AccessInit, Init
  <2> QED
    BY <2>1
<1>5. values \in Seq(ClaimValues) /\ j \in 0 .. Len(values) /\ j = 0
  <2>1. values = << >> /\ j = 0
    BY DEF AccessInit
  <2> QED
    BY <2>1
<1>6. algs \in Seq(Symmetric \cup Asymmetric) /\ \A n \in DOMAIN algs : algs[n] \in Asymmetric
  <2>1. algs = << >>
    BY DEF AccessInit, Init
  <2> QED
    BY <2>1
<1>8. TypeOK
  <2>1. alg \in AlgorithmTexts
    BY <1>1 DEF AlgorithmTexts
  <2>2. jwksURL \in URLs /\ discoveryURL \in URLs
    BY <1>1 DEF URLs
  <2>3. customer \in Customers \cup {None}
    BY <1>1
  <2> QED
    BY <1>1, <1>2, <1>3, <1>4, <1>5, <1>6, <2>1, <2>2, <2>3 DEF TypeOK
<1>9. ConfigInv /\ TokenInv /\ IdentityInv
  BY <1>1, <1>5, <1>6 DEF ConfigInv, TokenInv, IdentityInv
<1>7. ~Served
  BY <1>1 DEF Served
<1> QED
  BY <1>7, <1>8, <1>9 DEF Inv, RoleUnambiguous, OnlyProven, Attributable

\* Loading happens before the first request: nothing of a request changes.
LEMMA LoadInv == Inv /\ Load => Inv'
<1> SUFFICES ASSUME Inv, Load PROVE Inv'
  OBVIOUS
<1>1. pc \notin {"serving", "claims", "role", "route", "identify"} /\ ~Served
  BY DEF Inv, Load, LoadConfig, ReadDurations, ReadDatabaseURL, ReadBatchSize, ReadMode,
         LoadAuthConfig, SplitAlgorithms, ParseAlgorithm, AlgorithmsParsed
<1>2. UNCHANGED reqVars
  BY DEF Load
<1>3. /\ pc' \in {"database", "batch", "mode", "jwt", "split", "algs", "loaded", "error"}
      /\ shutdown' \in {"default", "positive", "nonpositive"}
      /\ asked' \in Int /\ batch' \in Int /\ mode' \in {"locked", "dev", "jwt"}
      /\ jwksURL' \in URLs /\ discoveryURL' \in URLs
      /\ roles' \in [Roles -> RoleValues \cup {"empty"}]
      /\ parts' \in Seq(AlgorithmTexts) /\ k' \in 0 .. Len(parts')
      /\ algs' \in Seq(Symmetric \cup Asymmetric)
      /\ ConfigInv'
  <2> USE DEF Inv, TypeOK, ConfigInv, configVars, Fail
  <2>1. CASE ReadDurations
    BY <2>1 DEF ReadDurations, Durations
  <2>2. CASE ReadDatabaseURL
    BY <2>2 DEF ReadDatabaseURL
  <2>3. CASE ReadBatchSize
    BY <2>3, ConfigAssumption DEF ReadBatchSize, int32
  <2>4. CASE ReadMode
    BY <2>4 DEF ReadMode
  <2>5. CASE LoadAuthConfig
    BY <2>5 DEF LoadAuthConfig
  <2>6. CASE SplitAlgorithms
    <3>1. CASE UNCHANGED <<parts, k, algs>>
      BY <2>6, <3>1 DEF SplitAlgorithms
    <3>2. CASE k' = 0 /\ algs' = << >>
      <4>1. parts' \in Seq(AlgorithmTexts)
        BY <2>6, ConfigAssumption DEF SplitAlgorithms
      <4>2. k' \in 0 .. Len(parts')
        BY <3>2, <4>1
      <4>3. algs' \in Seq(Symmetric \cup Asymmetric) /\ DOMAIN algs' = {}
        BY <3>2
      <4> QED
        BY <2>6, <3>2, <4>1, <4>2, <4>3 DEF SplitAlgorithms
    <3> QED
      BY <2>6, <3>1, <3>2 DEF SplitAlgorithms
  <2>7. CASE ParseAlgorithm
    <3>1. k + 1 \in DOMAIN parts /\ parts[k + 1] \in AlgorithmTexts /\ parts' = parts
      BY <2>7 DEF ParseAlgorithm
    <3>2. CASE UNCHANGED <<k, algs>>
      BY <2>7, <3>2 DEF ParseAlgorithm
    <3>3. CASE k' = k + 1 /\ algs' = algs
      BY <2>7, <3>1, <3>3 DEF ParseAlgorithm
    <3>4. CASE /\ k' = k + 1 /\ algs' = Append(algs, parts[k + 1])
               /\ parts[k + 1] # "empty" /\ parts[k + 1] \notin Symmetric
      <4>1. parts[k + 1] \in Asymmetric
        BY <3>1, <3>4 DEF AlgorithmTexts
      <4>2. algs' \in Seq(Symmetric \cup Asymmetric)
        BY <3>4, <4>1
      <4>3. \A n \in DOMAIN algs' : algs'[n] \in Asymmetric
        BY <3>4, <4>1
      <4> QED
        BY <2>7, <3>1, <3>4, <4>2, <4>3 DEF ParseAlgorithm
    <3> QED
      BY <2>7, <3>2, <3>3, <3>4 DEF ParseAlgorithm, Unsupported
  <2>8. CASE AlgorithmsParsed
    BY <2>8 DEF AlgorithmsParsed
  <2> QED
    BY <2>1, <2>2, <2>3, <2>4, <2>5, <2>6, <2>7, <2>8 DEF Load, LoadConfig
<1>4. ~Served'
  BY <1>1, <1>2 DEF Served, reqVars
<1>5. TypeOK'
  BY <1>2, <1>3 DEF Inv, TypeOK, reqVars
<1>6. TokenInv' /\ IdentityInv'
  BY <1>3 DEF TokenInv, IdentityInv
<1> QED
  BY <1>3, <1>4, <1>5, <1>6 DEF Inv, RoleUnambiguous, OnlyProven, Attributable

\* A request that does not touch the configuration keeps what is known of it.
LEMMA ConfigKept ==
  ASSUME Inv, UNCHANGED configVars, pc \notin {"jwt", "error", "split", "algs"},
         pc' \notin {"jwt", "split", "algs"}
  PROVE  ConfigInv'
  BY DEF Inv, ConfigInv, configVars, Distinct

\* RoleOf depends on the configuration alone.
LEMMA RoleOfKept == UNCHANGED configVars => \A v : RoleOf(v)' = RoleOf(v)
  BY DEF configVars, RoleOf

\* A request that is refused, or has only begun, leaves no obligation.
LEMMA NotServed ==
  ASSUME Inv, TypeOK', UNCHANGED configVars, resp' # 200,
         pc \notin {"jwt", "error", "split", "algs"},
         pc' \in {"serving", "identify"},
         pc' = "identify" => j' = 0 /\ matched' = "empty"
  PROVE  Inv'
<1>1. ConfigInv'
  BY ConfigKept
<1>2. TokenInv' /\ IdentityInv' /\ ~Served'
  BY DEF TokenInv, IdentityInv, Served
<1> QED
  BY <1>1, <1>2 DEF Inv, RoleUnambiguous, OnlyProven, Attributable

LEMMA NewIdentityMiddlewareInv == Inv /\ NewIdentityMiddleware => Inv'
<1> SUFFICES ASSUME Inv, NewIdentityMiddleware PROVE Inv'
  OBVIOUS
<1>1. UNCHANGED configVars /\ UNCHANGED reqVars /\ pc = "loaded" /\ pc' \in {"serving", "error"}
  BY DEF NewIdentityMiddleware, Fail
<1>2. ~Served /\ ~Served'
  BY <1>1 DEF Inv, Served, reqVars
<1>3. TypeOK'
  BY <1>1 DEF Inv, TypeOK, configVars, reqVars
<1>4. ConfigInv'
  BY <1>1, ConfigKept
<1>5. TokenInv' /\ IdentityInv'
  BY <1>1 DEF TokenInv, IdentityInv
<1> QED
  BY <1>2, <1>3, <1>4, <1>5 DEF Inv, RoleUnambiguous, OnlyProven, Attributable

LEMMA ArriveInv == Inv /\ Arrive => Inv'
<1> SUFFICES ASSUME Inv, Arrive PROVE Inv'
  OBVIOUS
<1>1. values' \in Seq(ClaimValues) /\ j' \in 0 .. Len(values')
  <2>1. values' = << >> /\ j' = 0
    BY DEF Arrive
  <2> QED
    BY <2>1
<1>2. identity' \in [role : Roles \cup {"empty"}, customer : Customers \cup {None},
                     subject : Subjects \cup {None}]
  BY DEF Arrive, NoIdentity
<1>3. TypeOK'
  BY <1>1, <1>2 DEF Inv, TypeOK, Arrive, configVars, AlgorithmTexts
<1>4. /\ pc = "serving" /\ pc' = "identify" /\ UNCHANGED configVars
      /\ resp' = 0 /\ j' = 0 /\ matched' = "empty"
  BY DEF Arrive
<1> QED
  BY <1>3, <1>4, NotServed

LEMMA LockedInv == Inv /\ Locked => Inv'
<1> SUFFICES ASSUME Inv, Locked PROVE Inv'
  OBVIOUS
<1>1. TypeOK'
  BY DEF Inv, TypeOK, Locked, Answer, configVars
<1> QED
  BY <1>1, NotServed DEF Locked, Answer

LEMMA HeadersInv == Inv /\ identityFromHeaders => Inv'
<1> SUFFICES ASSUME Inv, identityFromHeaders PROVE Inv'
  OBVIOUS
<1>1. /\ UNCHANGED <<configVars, route, alg, subject, values, j, matched>>
      /\ pc = "identify" /\ mode = "dev"
  BY DEF identityFromHeaders
<1>2. CASE Answer(401) /\ UNCHANGED <<customer, identity>>
  <2>1. TypeOK'
    BY <1>1, <1>2 DEF Inv, TypeOK, Answer, configVars
  <2> QED
    BY <1>1, <1>2, <2>1, NotServed DEF Answer
<1>3. ASSUME NEW role \in Roles, NEW c \in Customers \cup {None},
             customer' = c, identity' = [role |-> role, customer |-> c, subject |-> None],
             pc' = "route", UNCHANGED resp
      PROVE  Inv'
  <2>1. TypeOK'
    BY <1>1, <1>3 DEF Inv, TypeOK, configVars
  <2>2. ~Served'
    BY <1>1, <1>3 DEF Inv, Served
  <2>3. ConfigInv'
    BY <1>1, <1>3, ConfigKept
  <2>4. TokenInv' /\ IdentityInv'
    BY <1>1, <1>3 DEF TokenInv, IdentityInv, configVars
  <2> QED
    BY <2>1, <2>2, <2>3, <2>4 DEF Inv, RoleUnambiguous, OnlyProven, Attributable
<1> QED
  BY <1>2, <1>3 DEF identityFromHeaders

LEMMA VerifyTokenInv == Inv /\ VerifyToken => Inv'
<1> SUFFICES ASSUME Inv, VerifyToken PROVE Inv'
  OBVIOUS
<1>1. /\ UNCHANGED <<configVars, route, subject, values, j, matched, customer, identity>>
      /\ pc = "identify" /\ mode = "jwt" /\ j = 0 /\ matched = "empty"
  BY DEF VerifyToken, Inv, TokenInv
<1>2. CASE Answer(401) /\ UNCHANGED alg
  <2>1. TypeOK'
    BY <1>1, <1>2 DEF Inv, TypeOK, Answer, configVars
  <2> QED
    BY <1>1, <1>2, <2>1, NotServed DEF Answer
<1>3. ASSUME NEW n \in DOMAIN algs, alg' = algs[n], pc' = "claims", UNCHANGED resp
      PROVE  Inv'
  <2>1. alg' \in Asymmetric
    BY <1>3 DEF Inv, ConfigInv
  <2>2. TypeOK'
    BY <1>1, <1>3, <2>1 DEF Inv, TypeOK, configVars, AlgorithmTexts
  <2>3. ~Served'
    BY <1>1, <1>3 DEF Inv, Served
  <2>4. ConfigInv'
    BY <1>1, <1>3, ConfigKept
  <2>5. TokenInv' /\ IdentityInv'
    BY <1>1, <1>3, <2>1 DEF TokenInv, IdentityInv, configVars
  <2> QED
    BY <2>2, <2>3, <2>4, <2>5 DEF Inv, RoleUnambiguous, OnlyProven, Attributable
<1> QED
  BY <1>2, <1>3 DEF VerifyToken

LEMMA ReadClaimsInv == Inv /\ ReadClaims => Inv'
<1> SUFFICES ASSUME Inv, ReadClaims PROVE Inv'
  OBVIOUS
<1>1. /\ UNCHANGED <<configVars, route, alg, j, matched, customer, identity>>
      /\ pc = "claims" /\ mode = "jwt" /\ j = 0 /\ matched = "empty" /\ alg \in Asymmetric
  BY DEF ReadClaims, Inv, TokenInv
<1>2. CASE Answer(401) /\ UNCHANGED <<subject, values>>
  <2>1. TypeOK'
    BY <1>1, <1>2 DEF Inv, TypeOK, Answer, configVars
  <2> QED
    BY <1>1, <1>2, <2>1, NotServed DEF Answer
<1>3. ASSUME subject' \in Subjects \cup {"text"}, NEW n \in 0 .. MaxValues,
             values' \in [1 .. n -> ClaimValues], pc' = "role", UNCHANGED resp
      PROVE  Inv'
  <2>1. values' \in Seq(ClaimValues)
    BY <1>3, AccessAssumption
  <2>2. j' \in 0 .. Len(values') /\ j' = 0
    BY <1>1, <2>1
  <2>3. TypeOK'
    BY <1>1, <1>3, <2>1, <2>2 DEF Inv, TypeOK, configVars
  <2>4. ~Served'
    BY <1>1, <1>3 DEF Inv, Served
  <2>5. ConfigInv'
    BY <1>1, <1>3, ConfigKept
  <2>6. Resolved'
    BY <1>1, <2>2 DEF Resolved
  <2>7. TokenInv' /\ IdentityInv'
    BY <1>1, <1>3, <2>6 DEF TokenInv, IdentityInv, configVars
  <2> QED
    BY <2>3, <2>4, <2>5, <2>7 DEF Inv, RoleUnambiguous, OnlyProven, Attributable
<1> QED
  BY <1>2, <1>3 DEF ReadClaims

LEMMA ResolveValueInv == Inv /\ ResolveValue => Inv'
<1> SUFFICES ASSUME Inv, ResolveValue PROVE Inv'
  OBVIOUS
<1>1. /\ UNCHANGED <<configVars, route, alg, subject, values, customer, identity>>
      /\ pc = "role" /\ mode = "jwt" /\ alg \in Asymmetric /\ j < Len(values)
      /\ subject \in Subjects \cup {"text"} /\ Resolved
  BY DEF ResolveValue, Inv, TokenInv
<1>2. /\ j \in Nat /\ Len(values) \in Nat /\ j + 1 \in 0 .. Len(values)
      /\ matched \in Roles \cup {"empty"}
  <2>1. values \in Seq(ClaimValues) /\ j \in 0 .. Len(values)
    BY DEF Inv, TypeOK
  <2> QED
    BY <1>1, <2>1 DEF Inv, TypeOK
<1> DEFINE role == RoleOf(values[j + 1])
<1>3. role \in Roles \cup {"empty"}
  BY RoleOfType
<1>4. CASE Answer(401) /\ UNCHANGED <<j, matched>>
  <2>1. TypeOK'
    BY <1>1, <1>4 DEF Inv, TypeOK, Answer, configVars
  <2> QED
    BY <1>1, <1>4, <2>1, NotServed DEF Answer
<1>5. CASE /\ role = "empty" \/ ~Conflict(role)
           /\ j' = j + 1 /\ matched' = (IF role = "empty" THEN matched ELSE role)
           /\ UNCHANGED <<pc, resp>>
  <2>1. matched' \in Roles \cup {"empty"} /\ j' \in 0 .. Len(values')
    BY <1>1, <1>2, <1>3, <1>5
  <2>2. TypeOK'
    BY <1>1, <1>5, <2>1 DEF Inv, TypeOK, configVars
  <2>3. \A n \in 1 .. j + 1 : n = j + 1 \/ n \in 1 .. j
    BY <1>2
  <2>4. \A n \in 1 .. j : n \in 1 .. j + 1
    BY <1>2
  <2>5. matched' = matched \/ matched = "empty"
    BY <1>5 DEF Conflict
  <2>6. role \in {"empty", matched'}
    BY <1>5
  <2>7. \A n \in 1 .. j' : RoleOf(values[n]) \in {"empty", matched'}
    BY <1>1, <1>5, <2>3, <2>5, <2>6 DEF Resolved
  <2>8. matched' # "empty" => \E n \in 1 .. j' : RoleOf(values[n]) = matched'
    <3>1. CASE role = "empty"
      BY <1>1, <1>5, <2>4, <3>1 DEF Resolved
    <3>2. CASE role # "empty"
      <4>1. j + 1 \in 1 .. j' /\ RoleOf(values[j + 1]) = matched'
        BY <1>2, <1>5, <3>2
      <4> QED
        BY <4>1
    <3> QED
      BY <3>1, <3>2
  <2>9. Resolved'
    <3>1. \A v : RoleOf(v)' = RoleOf(v)
      BY <1>1, RoleOfKept
    <3> QED
      BY <1>1, <2>7, <2>8, <3>1 DEF Resolved, RoleOf, configVars
  <2>10. ~Served'
    BY <1>1, <1>5 DEF Inv, Served
  <2>11. ConfigInv'
    BY <1>1, <1>5, ConfigKept
  <2>12. TokenInv' /\ IdentityInv'
    BY <1>1, <1>5, <2>9 DEF TokenInv, IdentityInv, configVars
  <2> QED
    BY <2>2, <2>10, <2>11, <2>12 DEF Inv, RoleUnambiguous, OnlyProven, Attributable
<1> QED
  BY <1>4, <1>5 DEF ResolveValue

LEMMA IdentityFromJWTInv == Inv /\ identityFromJWT => Inv'
<1> SUFFICES ASSUME Inv, identityFromJWT PROVE Inv'
  OBVIOUS
<1>1. /\ UNCHANGED <<configVars, route, alg, subject, values, j, matched>>
      /\ pc = "role" /\ mode = "jwt" /\ alg \in Asymmetric /\ j = Len(values)
      /\ Resolved
  BY DEF identityFromJWT, Inv, TokenInv
<1>2. CASE Answer(401) /\ UNCHANGED <<customer, identity>>
  <2>1. TypeOK'
    BY <1>1, <1>2 DEF Inv, TypeOK, Answer, configVars
  <2> QED
    BY <1>1, <1>2, <2>1, NotServed DEF Answer
<1>3. ASSUME matched \in Roles, pc' = "route", UNCHANGED resp,
             identity'.role = matched,
             customer' \in Customers \cup {None},
             identity' \in [role : Roles \cup {"empty"}, customer : Customers \cup {None},
                            subject : Subjects \cup {None}],
             matched = "CUSTOMER" => identity'.customer = customer' /\ customer' \in Customers,
             matched # "CUSTOMER" => identity'.customer = None /\ identity'.subject \in Subjects
      PROVE  Inv'
  <2>1. TypeOK'
    BY <1>1, <1>3 DEF Inv, TypeOK, configVars
  <2>2. ~Served'
    BY <1>1, <1>3 DEF Inv, Served
  <2>3. ConfigInv'
    BY <1>1, <1>3, ConfigKept
  <2>4. NamedRoles = {matched}
    BY <1>1, <1>3, ResolvedNames DEF Inv, ConfigInv
  <2>5. NamedRoles' = {identity'.role}
    BY <1>1, <1>3, <2>4 DEF NamedRoles, configVars
  <2>6. TokenInv' /\ IdentityInv'
    BY <1>1, <1>3, <2>5 DEF TokenInv, IdentityInv, configVars
  <2> QED
    BY <2>1, <2>2, <2>3, <2>6 DEF Inv, RoleUnambiguous, OnlyProven, Attributable
<1>4. ASSUME matched = "CUSTOMER", customer' \in Customers, pc' = "route", UNCHANGED resp,
             identity' = [role |-> matched, customer |-> customer', subject |-> None]
      PROVE  Inv'
  BY <1>3, <1>4 DEF Roles
<1>5. ASSUME matched \in {"ADMIN", "SYSTEM"}, SubjectIsUUID, pc' = "route",
             UNCHANGED <<resp, customer>>,
             identity' = [role |-> matched, customer |-> None, subject |-> subject]
      PROVE  Inv'
  <2>1. customer' \in Customers \cup {None} /\ subject \in Subjects
    BY <1>5 DEF Inv, TypeOK, SubjectIsUUID
  <2> QED
    BY <1>3, <1>5, <2>1 DEF Roles
<1> QED
  BY <1>2, <1>4, <1>5 DEF identityFromJWT

\* The last check decides, on what is known of the identity.
LEMMA RouteInv == Inv /\ (RequireRole \/ CustomerIDFromContext) => Inv'
<1> SUFFICES ASSUME Inv, RequireRole \/ CustomerIDFromContext PROVE Inv'
  OBVIOUS
<1>1. /\ UNCHANGED <<configVars, route, alg, subject, values, j, matched, customer, identity>>
      /\ pc = "route" /\ pc' = "serving" /\ resp' \in {200, 401, 403}
  BY DEF RequireRole, CustomerIDFromContext, Answer
<1>2. TypeOK'
  BY <1>1 DEF Inv, TypeOK, configVars
<1>3. CASE resp' # 200
  BY <1>1, <1>2, <1>3, NotServed
<1>4. CASE resp' = 200
  <2>1. mode # "locked" /\ (mode = "jwt" => alg \in Asymmetric /\ NamedRoles = {identity.role})
    BY <1>1 DEF Inv, IdentityInv, TokenInv
  <2>2. RoleUnambiguous' /\ OnlyProven'
    BY <1>1, <2>1 DEF RoleUnambiguous, OnlyProven, NamedRoles, configVars
  <2>3. Attributable'
    <3>1. /\ identity.role \in Roles /\ identity.customer \in Customers \cup {None}
          /\ route \in {"customer", "status"}
          /\ mode = "jwt" =>
               /\ identity.role = "CUSTOMER" => identity.customer = customer
               /\ identity.role # "CUSTOMER" => identity.customer = None
                                                /\ identity.subject \in Subjects
      BY <1>1 DEF Inv, IdentityInv, TypeOK
    <3>2. CASE RequireRole
      <4>1. route = "status" /\ identity.role \in {"ADMIN", "SYSTEM"}
        BY <1>4, <3>2 DEF RequireRole, Answer
      <4> QED
        BY <1>1, <3>1, <4>1 DEF Attributable, configVars
    <3>3. CASE CustomerIDFromContext
      <4>1. route = "customer" /\ identity.customer # None
        BY <1>4, <3>3 DEF CustomerIDFromContext, Answer
      <4> QED
        BY <1>1, <3>1, <4>1 DEF Attributable, configVars
    <3> QED
      BY <3>2, <3>3
  <2>4. ConfigInv'
    BY <1>1, ConfigKept
  <2>5. TokenInv' /\ IdentityInv' /\ (Served' => pc' = "serving")
    BY <1>1 DEF TokenInv, IdentityInv
  <2> QED
    BY <1>2, <2>2, <2>3, <2>4, <2>5 DEF Inv
<1> QED
  BY <1>3, <1>4

LEMMA NextInv == Inv /\ [Next]_vars => Inv'
<1> SUFFICES ASSUME Inv, [Next]_vars PROVE Inv'
  OBVIOUS
<1>1. CASE UNCHANGED vars
  <2>1. UNCHANGED pc /\ UNCHANGED configVars /\ UNCHANGED reqVars
    BY <1>1 DEF vars
  <2> QED
    BY <2>1 DEF configVars, reqVars, Inv, TypeOK, ConfigInv, TokenInv, Resolved, IdentityInv,
                RoleUnambiguous, OnlyProven, Attributable, Served, NamedRoles, RoleOf, Distinct
<1> QED
  BY <1>1, LoadInv, NewIdentityMiddlewareInv, ArriveInv, LockedInv, HeadersInv,
     VerifyTokenInv, ReadClaimsInv, ResolveValueInv, IdentityFromJWTInv, RouteInv
     DEF Next, Stopped

\* The invariant behind the three properties.
THEOREM AccessInvariance == Spec => []Inv
<1>1. AccessInit => Inv
  BY InitInv
<1>2. Inv /\ [Next]_vars => Inv'
  BY NextInv
<1> QED
  BY <1>1, <1>2, PTL DEF Spec

\* A role claim of any length gives the one role it names or none: the checks of
\* loadAuthConfig make the order of resolveRole's cases and of the values immaterial.
THEOREM OneRole == Spec => []RoleUnambiguous
<1>1. Inv => RoleUnambiguous
  BY DEF Inv
<1> QED
  BY <1>1, AccessInvariance, PTL

\* Locked mode serves nobody, JWT mode only asymmetric algorithms that were configured.
THEOREM ProvenOnly == Spec => []OnlyProven
<1>1. Inv => OnlyProven
  BY DEF Inv
<1> QED
  BY <1>1, AccessInvariance, PTL

\* Whatever is served can be attributed (identityFromJWT to the handlers).
THEOREM ServedAttributable == Spec => []Attributable
<1>1. Inv => Attributable
  BY DEF Inv
<1> QED
  BY <1>1, AccessInvariance, PTL
=============================================================================
