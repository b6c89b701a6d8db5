------------------------------- MODULE Config -------------------------------
(***************************************************************************)
(* LoadConfig: the environment variables, read once when the process       *)
(* starts, in the order of the code, up to a configuration or an error.  A *)
(* variable's value is chosen where it is read.  Durations and texts are   *)
(* abstracted to what the checks tell apart; numbers keep the widths of    *)
(* int and int32, which are parameters.                                    *)
(***************************************************************************)
EXTENDS Integers, Sequences

CONSTANTS maxInt, maxInt32,
          BatchSizes,  \* the integers WORKER_BATCH_SIZE may be set to
          RoleValues,  \* the texts of role values, "empty" for the empty one
          Symmetric,   \* the algorithms that are none or HS*, in any case
          Asymmetric,  \* the others
          MaxAlgs      \* bound on the length of OMS_JWT_ALLOWED_ALGS

ASSUME ConfigAssumption ==
  /\ maxInt \in Nat /\ maxInt32 \in Nat
  /\ BatchSizes \subseteq Int
  /\ Symmetric \cap Asymmetric = {}
  /\ MaxAlgs \in Nat

VARIABLES pc,
          shutdown,  \* ShutdownTimeout: "default", "positive" or "nonpositive"
          asked,     \* for the properties: the batch size that was asked for
          batch,     \* WorkerBatchSize
          mode,      \* AuthMode: "locked", "dev" or "jwt"
          jwksURL, discoveryURL,
          roles,     \* RoleCustomerValue, RoleAdminValue, RoleSystemValue
          parts,     \* OMS_JWT_ALLOWED_ALGS, split and trimmed
          k,         \* how many of them have been looked at
          algs       \* AllowedAlgorithms

configVars == <<shutdown, asked, batch, mode, jwksURL, discoveryURL, roles, parts, k, algs>>

Roles == {"CUSTOMER", "ADMIN", "SYSTEM"}
Durations == {"unset", "invalid", "nonpositive", "positive"}
URLs == {"empty", "https", "other"}

\* What an entry of OMS_JWT_ALLOWED_ALGS may be; "empty" stands for the empty text.
AlgorithmTexts == Symmetric \cup Asymmetric \cup {"empty"}

Init ==
  /\ pc = "durations"
  /\ shutdown = "default"
  /\ asked = 500 /\ batch = 500
  /\ mode = "locked"
  /\ jwksURL = "empty" /\ discoveryURL = "empty"
  /\ roles = [r \in Roles |-> "empty"]
  /\ parts = << >> /\ k = 0 /\ algs = << >>

Fail == pc' = "error"

\* parsePositiveDurationEnv, whether it returns an error.
Refused(d) == d \in {"invalid", "nonpositive"}

\* SHUTDOWN_TIMEOUT is taken if it parses and passed over if not, whatever its sign;
\* the three HTTP timeouts have to be positive.
ReadDurations ==
  /\ pc = "durations"
  /\ \E d \in Durations :
       shutdown' = IF d \in {"unset", "invalid"} THEN "default" ELSE d
  /\ \E read, write, idle \in Durations :
       IF Refused(read) \/ Refused(write) \/ Refused(idle) THEN Fail ELSE pc' = "database"
  /\ UNCHANGED <<asked, batch, mode, jwksURL, discoveryURL, roles, parts, k, algs>>

ReadDatabaseURL ==
  /\ pc = "database"
  /\ Fail \/ pc' = "batch"
  /\ UNCHANGED configVars

\* The conversion int32(parsed): two's complement of the width of maxInt32.
int32(n) == ((n + maxInt32 + 1) % (2 * (maxInt32 + 1))) - (maxInt32 + 1)

\* strconv.Atoi fails beyond int, then parsed < 1 is refused.  A text that is not a
\* number is refused like the number 0.
ReadBatchSize ==
  /\ pc = "batch"
  /\ \/ pc' = "mode" /\ UNCHANGED <<asked, batch>>
     \/ \E n \in BatchSizes :
          /\ asked' = n
          /\ IF n > maxInt \/ n < 1 THEN Fail /\ UNCHANGED batch
             ELSE pc' = "mode" /\ batch' = int32(n)
  /\ UNCHANGED <<shutdown, mode, jwksURL, discoveryURL, roles, parts, k, algs>>

ReadMode ==
  /\ pc = "mode"
  /\ \/ Fail /\ UNCHANGED mode
     \/ mode' \in {"locked", "dev"} /\ pc' = "loaded"
     \/ mode' = "jwt" /\ pc' = "jwt"
  /\ UNCHANGED <<shutdown, asked, batch, jwksURL, discoveryURL, roles, parts, k, algs>>

\* Mutant: one comparison is missing.
DistinctTwo(rs) == rs["CUSTOMER"] # rs["ADMIN"] /\ rs["CUSTOMER"] # rs["SYSTEM"]

Distinct(rs) == \A r, s \in Roles : r # s => rs[r] # rs[s]

OneSource(jwks, discovery) == (jwks = "empty") # (discovery = "empty")

\* loadAuthConfig up to the algorithms; present: the audience and the claims' names.
LoadAuthConfig ==
  /\ pc = "jwt"
  /\ jwksURL' \in URLs /\ discoveryURL' \in URLs
  /\ roles' \in [Roles -> RoleValues]
  /\ \E timeout \in Durations, issuer \in URLs, present \in BOOLEAN :
       IF /\ ~Refused(timeout)
          /\ present /\ issuer # "empty" /\ \A r \in Roles : roles'[r] # "empty"
          /\ OneSource(jwksURL', discoveryURL')
          /\ {issuer, jwksURL', discoveryURL'} \subseteq {"empty", "https"}
          /\ Distinct(roles')
       THEN pc' = "split" ELSE Fail
  /\ UNCHANGED <<shutdown, asked, batch, mode, parts, k, algs>>

\* parseAllowedAlgorithms: an empty text is refused, any other has at least one part.
SplitAlgorithms ==
  /\ pc = "split"
  /\ \/ Fail /\ UNCHANGED <<parts, k, algs>>
     \/ /\ \E n \in 1 .. MaxAlgs : parts' \in [1 .. n -> AlgorithmTexts]
        /\ k' = 0 /\ algs' = << >>
        /\ pc' = "algs"
  /\ UNCHANGED <<shutdown, asked, batch, mode, jwksURL, discoveryURL, roles>>

\* Mutant: the algorithm is compared as it is written.
UnsupportedExact(a) == a \in {"none", "HS256"}

\* strings.EqualFold and ToUpper: however it is written.
Unsupported(a) == a \in Symmetric

Seen(a) == \E j \in DOMAIN algs : algs[j] = a

ParseAlgorithm ==
  /\ pc = "algs" /\ k < Len(parts)
  /\ LET a == parts[k + 1] IN
       IF a = "empty" \/ Unsupported(a) THEN Fail /\ UNCHANGED <<k, algs>>
       ELSE /\ k' = k + 1
            /\ algs' = IF Seen(a) THEN algs ELSE Append(algs, a)
            /\ UNCHANGED pc
  /\ UNCHANGED <<shutdown, asked, batch, mode, jwksURL, discoveryURL, roles, parts>>

AlgorithmsParsed ==
  /\ pc = "algs" /\ k = Len(parts)
  /\ pc' = "loaded"
  /\ UNCHANGED configVars

LoadConfig == \/ ReadDurations \/ ReadDatabaseURL \/ ReadBatchSize \/ ReadMode
              \/ LoadAuthConfig \/ SplitAlgorithms \/ ParseAlgorithm \/ AlgorithmsParsed
=============================================================================
