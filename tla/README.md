# The order management system in TLA+

This directory models the order management system of this repository (a Go API
over PostgreSQL, with an in-process worker) and verifies it: TLA+ modules, TLC
configurations that check them on small instances, and proofs that TLAPS checks
for every value of the constants. `PROJECT.json` lists the parts, the runs, the
source lines that each definition models, the hazards and the theorems.

    tlc -config OrderServiceRequests.cfg MCOrderService.tla # and the other .cfg files
    tlc -config PendingQueue.cfg PendingQueue.tla
    tlc -config ApplicationStop.cfg Application.tla
    tlc -config Pagination.cfg Pagination.tla
    tlc -config CreateIntake.cfg MCCreateIntake.tla
    tlc -config Access.cfg Access.tla
    tlapm OrderServiceProofs.tla                            # and the other *Proofs.tla

## 1. The system

| Component | State it keeps | Operations | Source |
| --- | --- | --- | --- |
| Order status machine | none (two tables of constants) | `CanTransition`, `ValidateTransition`, `expectedStatusForTarget` | `state_machine.go`, `service.go:390` |
| Request handlers | none | create, get, list, cancel, update status | `handler.go`, `validation.go`, `json.go` |
| Service | none | the checks before and after a transaction, errors to sentinels, details for the response | `service.go` |
| Repository and queries | one transaction per call | order + items + audit event in one transaction; worker batch | `repository.go`, `db/orders.sql.go` |
| Database (external) | `orders`, `order_items`, `order_events`, row locks | READ COMMITTED transactions, unique keys | `db/migrations` |
| Worker loop | `isRunning`, `activeRuns`, the ticker | tick, skip, run, stop | `worker.go` |
| Application | goroutines, contexts, the pool, `runErrCh` | start, signal, shutdown with a time limit | `cmd/api/main.go`, `httpserver.go` |
| Authentication | provider metadata and keys (library) | identity from headers or a JWT, role checks | `auth/` |
| Configuration | none | environment variables to `Config` | `platform/config.go` |
| Listing and cursors | the cursor, which the client keeps | keyset pages by `(created_at, id)` | `service.go:169`, `handler.go:148`, queries |
| Total computation | none | sums of line totals in int64 | `service.go:304` |

**Interaction.** A request passes the identity middleware, then a handler, then
the service, which may read the database before it opens a transaction and again
after it. The worker's ticks start at most one run at a time in a process; a run
calls the same service. Requests and runs, of this and of other replicas, share
nothing but the database. The application starts the HTTP server and the worker,
and stops both through contexts.

**What is hard.** (a) `CancelOrder` and `UpdateOrderStatus` decide on reads that
are old when the transaction runs, and explain a failed UPDATE by another read
after it. (b) The audit event repeats the status that the caller *expected* the
order to have; only the WHERE clause makes it the status the order had. (c) Order,
items and event are separate statements; any of them, and the COMMIT, may fail, a
failed COMMIT may have taken effect or take effect later, and a lost connection
leaves its locks behind for a while. (d) Creations race on the idempotency key,
against open transactions too. (e) Batches of several replicas compete with each
other and with single-row updates for row locks. (f) A worker's tick, the end of a
run and the cancellation come in any order. (g) A listing is several requests; orders
commit late, tie in time and change status between its pages. (h) Limits and widths:
a body or key document is read through a limit in pieces of any size, totals and
the batch size are checked in integers that wrap. (i) The key server answers late,
half or not at all, and a role claim may be a list. `PROJECT.json` has these at
their lines, under `hazards`.

**What makes each component correct.**

- *Service and repository*: the audit trail of an order is a legal history that
  ends in the order's status, whatever fails; one order per key; an answer of
  success is durable and an answer of refusal had no effect; what an answer says
  of the order is so; nobody waits for ever. In one sentence: the system
  implements `OrderLifecycle`.
- *Worker loop*: runs never overlap, none outlives `Run`, the flag never sticks.
- *Application*: when it ends cleanly, no request and no run is under way.
- *Listing*: a client that follows the cursors sees every order that was there
  when it began exactly once.
- *Creation's intake*: a body is decoded whole or not at all; the total is the exact
  sum, and an overflow is reported exactly when there is one.
- *Authentication*: a request is served under one role, which its token alone
  names; what it does can be attributed; fetching keys ends and never takes a
  document that the limit cut short.
- *Configuration*: what is loaded is what was asked for (it is not always, see
  `access_batch`).

## 2. Modules

| Module | What it is |
| --- | --- |
| `OrderStateMachine` | the status machine, as operators |
| `OrderLifecycle` | abstract specification: what the system promises of its orders |
| `OrderService` | requests, worker batches and their transactions, one database call per step |
| `MCOrderService` | the requests that the runs of `OrderService` let clients send |
| `OrderServiceProofs` | theorems about `OrderService` |
| `Worker` | the loop of `worker.go` |
| `WorkerProofs` | theorems about `Worker` |
| `Application` | `main`: start and shutdown, composed with `Worker` |
| `ApplicationProofs` | theorems about `Application`, from those about `Worker` |
| `PendingQueue` | `Worker` composed with the queue of PENDING orders its runs serve |
| `PendingQueueProofs` | theorems about `PendingQueue`, with those about `Worker` |
| `Pagination` | `GET /orders`: pages by cursor while the table changes; uses `OrderStateMachine` |
| `PaginationProofs` | theorems about `Pagination` |
| `CreateIntake` | `POST /orders` before the database: body, decoding, validation, total |
| `MCCreateIntake` | the numbers that its run puts into bodies |
| `CreateIntakeProofs` | theorems about `CreateIntake` |
| `JWTMetadata` | discovery document and keys, read through `maxBytesReadCloser` |
| `JWTMetadataProofs` | theorems about `JWTMetadata` |
| `Config` | `LoadConfig`, variable by variable; extended by `Access` |
| `Access` | from the configuration to the identity and the role of a request |
| `AccessProofs` | theorems about `Access` and `Config` |

### OrderLifecycle

Two variables, the status and the trail of each order, and one action: some
orders make the *same* move, in one step together with one audit record each. A
record is entitled: creations and cancellations are a customer's, status updates
are an ADMIN's or the SYSTEM's along `allowedTransitions`, worker moves are from
PENDING to PROCESSING. Only a worker's move may take several orders at once.

### OrderService

A *process* is one HTTP request or one worker run; `pc[p]` is the database call it
makes next.

| State | In the program |
| --- | --- |
| `orders`, `items`, `events` | the committed rows of the three tables |
| `pc`, `req`, `resp` | where a goroutine is, what it was asked, its HTTP status |
| `tx` | its transaction: `open`, `orphan` (its client gave up), `indoubt` (its COMMIT failed) |
| `wOrders`, `wItems`, `wEvents` | what the open transaction wrote, seen by nobody else; `wOrders` are also its row locks |

| Actions | Code |
| --- | --- |
| `CreateOrder`, `GetOrder`, `CancelOrder`, `UpdateOrderStatus` | handler, middleware and service up to the first call to the database, with every early answer (400, 401, 403, 409, 500) |
| `ProcessPendingOrdersBatch` | `Worker.runOnce`, the service's method |
| `GetRead`, `CancelRead` | `GetOrderByIDAndCustomerID` and the decision on it |
| `BeginTx`, `Commit`, `CallFails`, `CommitFails` | `Repository.withTx` |
| `InsertOrder`, `InsertConflict`, `InsertItems`, `CreateOrderEvent` | the statements of a creation; the event also of the others |
| `CancelPendingOrder`, `CancelNoRows` | the UPDATE of a cancellation |
| `UpdateOrderStatusIfCurrentStatusMatches`, `UpdateNoRows`, `resolveStatusUpdateNoRows` | the UPDATE of the status endpoint and the explanation of its failure |
| `WorkerPickAndMove` | the `FOR UPDATE SKIP LOCKED` batch, then one event per order |
| `Hydrate` | the read of the items for the response |
| `Reap`, `LateCommit` | the database, external: it ends what a lost connection left |

An `UPDATE` that finds its row locked waits (the action is not enabled); when the
lock is gone it looks at the committed row again, as READ COMMITTED does. An
`INSERT` waits for an open transaction with its key.

Abstractions. An order id is the rank of the order in the sort order of the worker
`(created_at, id)`; `created_at` is when the transaction began and the id is
random, so creations take ranks in any order. A client can name an order only
once it is committed (`KnownOrder`): ids are random UUIDs that leave the system
in answers alone. The identity in a request is what the auth middleware resolved.
A body is well-formed, malformed, or sums to more than int64 holds. The rows of
`order_items` of one order are one element. The pick of a batch is one step: it
sees the rows committed at that step. PostgreSQL may take its snapshot a little
earlier, in which case it skips rows that the model picks; they stay PENDING for
the next run. `UpdateOrderStatus`'s check of the actor type cannot fail behind
`RequireRole` and is left out. The crash of a replica is the failure of every
call it has under way: all its processes may take `CallFails` or `CommitFails`,
and nothing else of a replica survives it. `IdsLeft` bounds creations by the
number of `Orders`.

### Worker

`batchSize` is the field that the configuration sets, which `Run` checks before
anything else; `loop` is where the goroutine of `Run` is, `runs` where the goroutines of runs are
(a goroutine that ended gives its place in `RunIds` back, so that the number of
runs is not bounded, only the number alive), `isRunning` and `activeRuns` are the
fields, `tick` is the ticker's channel, of capacity one. Every atomic operation,
wait group operation and channel receive is a step: `SelectTick` is the
`CompareAndSwap`, `Add` and `Go` what follows it, `RunOnce`, `Store`, `Done` the
goroutine and its two deferred calls in their order, `WaitAndReturn` the
`activeRuns.Wait()`. What a run does is in `OrderService`; here it takes any time.
`Worker` is checked as a part of `PendingQueue`, whose runs do something, and of
`Application`.

### Application

`main` is where the main goroutine is; `srv` and `wrk` are the goroutines it
starts, `errs` the errors in `runErrCh`. The worker is an instance of `Worker` over
the same variables: `WorkerLoop` and `RunStep` take its steps, its `Cancel` is
taken by `Signal` and `CancelApp`. `conns` are accepted connections whose request has
not come, `serving` requests inside a handler, `held`
those requests and runs that hold a connection of the pool. External: `Shutdown`
ends the accepting of connections, on those there are a request may still come; it
returns nil once nothing is served, closing what is left, and an error when its limit
passes before; `ListenAndServe` returns when it fails or finds the server shutting
down; `dbPool.Close` refuses new connections and waits for those in use. When
`main` returns, everything stops where it is. The limit on the number of
connections is left out: a request or a run never holds one while it asks for
another. Loading the configuration precedes the model, since no signal is handled
before it.

### PendingQueue

`waiting` holds the orders whose creation began, and `older` relates each of them to
the younger ones: the order of `created_at`, which is the start of a creation's
transaction. `open` are those not committed, `locked` those that a request or a run of
another replica holds. The module extends `Worker`: its
actions change the queue or are steps of the worker, and `Run`'s call of the service
is replaced by what the call does. A run's transaction is `Pick`, then `CommitBatch` or
`FailBatch`; `ReturnFromRun` is the return of `runOnce`. An identifier is reused when
its order has left the queue, so creations never stop: `Orders` bounds only how many
wait at once. The rows a batch of this worker holds are `batch`. `Pick` takes the free
orders that have fewer free ones before them than the batch size.

### Pagination

`stored`, `owner`, `createdAt`, `status` are the table; owner and time of orders that
are still to be committed are chosen at the start, as no statement changes them.
`customer`, a constant, is the client who lists; `pc`, `filter`, `limit`, `cursor`,
`page`, `hydrated` are its request and the handler that serves it: `Ask` (the
handler's parameters), `ListOrders` (one of the two queries, one snapshot), `hydrateOrderDetails` (the items, one order per step),
`Respond` (the next cursor if the page is full) and `Fail` (any error or lost answer,
after which the client asks with the cursor it has). `listed` and `steady` are history:
what the client received, and what belonged to the listing when it began and has
since. An order that commits late with an older time, or changes to the status
filtered by, may be missing from a listing under way; the properties promise only
what was there all the while.

### CreateIntake

`Read`, `ReadFails` and `ReadAll` are `decodeJSONStrict`'s reading through a
`LimitReader` of one byte more than the limit; `Decode` and
`ValidateCreateOrderRequest` follow; `AddItem` is one round of `calculateTotalCents`
in arithmetic that wraps at `maxInt64`; `ParseIDs` the product identifiers, which the
service parses after the total. A read error and an overflow are of no class that the handler's
`writeHandlerError` knows and are answered 500; which status an error gets here is left
out, `OrderService` has it. `exact` is the sum in integers without
width, for the properties. `platform/json.go` is a second copy of the decoder that
nothing calls.

### JWTMetadata

One fetch after the other: `doc` is the document (`discovery`, then `jwks`, then
`refresh` whenever go-oidc meets a key it does not know). A body is its length and
the byte at which its first JSON value is complete. `BaseRead` is what a Go reader may
do: return fewer bytes than asked, none, and an error together with bytes. `Wants`
distinguishes the two consumers: `json.Decoder` stops when the value is complete,
`io.ReadAll` (go-oidc) at the end. So the start accepts a key document whose value
ends within the limit even if the body goes on beyond it, and a later refresh of the
same document fails; neither takes a document that was cut. `Timeout` is
`http.Client.Timeout`.

### Config and Access

`Config` reads one environment variable, or one group of them, per step, with a
value chosen where it is read; an error ends the process. `Access` goes on with
`NewIdentityMiddleware` and then serves requests one after the other, without end:
`Arrive`, the middleware of the mode (`Locked`, `identityFromHeaders`, or
`VerifyToken`, `ReadClaims`, `ResolveValue` for each value of the role claim,
`identityFromJWT`), then `RequireRole` on the status route and
`CustomerIDFromContext` on the others. Requests share nothing but the
configuration, so one at a time stands for any number. `"empty"` stands for the empty
text; `identity.subject` is `SubjectID`, which only privileged tokens have. In JWT mode
ADMIN and SYSTEM never have a customer; in dev mode they may. So in JWT mode an
authenticated ADMIN or SYSTEM that calls a customer route is answered 401
(`CustomerIDFromContext`), where one may expect the 403 that `src/README.md:192`
lists for a caller without the required role.

## 3. Runs

| Run | Instance | Shows |
| --- | --- | --- |
| `requests` | 4 requests of 22 kinds, 1 worker run, 2 orders, 2 customers, batch of 1, no failures | `AuditTrail`, `OneOrderPerKey`, `AnswersAreTruthful`; every 500 is an overflow or a lost cancellation (`ServerErrorsExplained`) |
| `faults` | 4 requests, 2 runs, batch of 2, any call may fail | the inductive invariants `Inv` and `AnswerInv` (with `AtMostOnce` and `Truthful`), `SuccessIsDurable`, `RejectionHasNoEffect`, `NobodyStuck`, `ImplementsLifecycle` |
| `liveness` | 3 requests, 1 run, batch of 2, any call may fail | `EveryoneFinishes` |
| `late_cancel` | 3 requests, 1 run | a violation, see below |
| `application_stop` | 2 requests, up to 2 runs alive, a batch size that is accepted or refused | `Inv`, `CleanMeansStopped`, `NoCallCutOff`, `SignalEnds`, `FailureEnds` |
| `application_timeout` | as `application_stop` | a violation, see below |
| `pending_queue` | 3 orders waiting at once, 2 runs alive, batches of 1 and 2, 1 failure | the worker's `Inv` (with `FlagMeansRun`, `StopsClean`), `NoOverlap`, `CancelStops`, `KeepsRunning`; the queue's `QueueInv`, `HeldOnce`, `NobodyStarves` |
| `pagination` | 3 orders of 2 customers, 2 times, with and without a status filter, pages of 2, 1 failure | `Inv`, `NewestFirst`, `NothingSkipped`, `ShownHonestly`, `ListingEnds` |
| `create_intake` | a limit of 3 bytes, up to 3 items, a five-bit int64, a four-bit int32 | `WholeBody`, `TotalExact`, `OverflowReal`, `ChecksHold` |
| `jwt_metadata` | a limit of 4 bytes, bodies of 0, 1, 4, 5 and 7, buffers up to 6 | `Inv`, `LimitExact`, `OnlyWholeDocuments`, `FetchEnds` |
| `access` | 3 role values and the empty one, role claims of up to 3 values, 2 algorithms in the list | `Inv`, `RoleUnambiguous`, `OnlyProven`, `Attributable` |
| `access_batch` | a four-bit int32 in an eight-bit int | a violation, see below |

**Finding** (`late_cancel`). `LateCancelIsConflict` states `src/README.md:327`: a
cancellation of an owned order that is PROCESSING, SHIPPED, DELIVERED or CANCELLED
answers 409. The code answers 500 when `CancelOrder` read the order as PENDING
and another transaction moved it before the UPDATE: `service.go:202` returns
`pgx.ErrNoRows` unmapped, whereas `UpdateOrderStatus` maps it. The order itself is
right; `ServerErrorsExplained` shows that this is the only such answer.

**Finding** (`application_timeout`). `WorkerStopsOnSignal` states
`src/README.md:377`: the worker stops cleanly when the API receives a shutdown
signal. The code does not wait for the worker when `server.Shutdown` runs into its
time limit (`main.go:97-99` returns before `wg.Wait`), so a slow request decides
whether the worker's run is awaited. The consequence is small: `NoCallCutOff` shows
that the deferred `dbPool.Close` still waits for the run's transaction to end.

**Finding** (`access_batch`). `BatchAsAsked` states `config.go:83` and
`src/README.md:420`: `WORKER_BATCH_SIZE` is a positive integer and the maximum of
orders in a batch. `config.go:86` converts an accepted `int` to `int32` without a
check of its range: 2147483648 becomes negative, 4294967296 zero (both make the
worker refuse to start and the process end, which `application_stop` shows for 0),
4294967297 becomes 1.

**Bounds.** Two transactions suffice for every conflict on a row or a key; the
third and fourth process are there for what happens after the conflict: a retry of
the creation, an explanation read later, a batch that skips. Two orders are needed
for a key conflict, for a batch larger than one and for a batch that leaves an
order over. The moves of one order form a path of at most four, which four
requests make. The batch is 1 where requests of every kind compete for orders and 2
where a batch fails half way; two worker runs compete in `faults`. Faults are not
combined with every kind of request, the race of the kinds is in `requests`. In
`Application`, two requests are one that is served past the limit and one that
comes and goes. `PendingQueue` needs an order in front of another and a third that is
created or locked meanwhile. At most one run is busy; of two places in `RunIds`, one
is for a finished goroutine that lingers between `Store` and `Done` while another
works, and the proofs cover any number. In `Worker` nothing else needs a bound. In
`Pagination`, three orders and pages of two give a full page with and without an
order behind it and an order that commits late; two times give ties and
differences; the limits are none, zero and one above the maximum, both refused; one
failure is as good as many, since nothing of it is kept. That an order leaves the
status listed is seen with the filter PROCESSING; the other statuses differ in name.
Pages of any other length are left to the proofs. `CreateIntake` takes numbers on both
sides of every boundary of its widths, so that one product, and a sum of two or three,
overflow or just fit. `JWTMetadata` has bodies below, at, one over and well over the
limit, and buffers smaller and larger than all of it. `Access` needs three distinct
role values, equal ones, and claims long enough for a conflict after a match and
a foreign value. `maxInt64`, `maxInt32`, `maxInt`, `maxBytes` and `limit` stand for
2^63 - 1, 2^31 - 1, 2^63 - 1, 1 MiB and 1 MiB; the proofs cover every value. Symmetry
(interchangeable requests and runs) is used in runs without liveness only.

**Deadlock** is checked in every run. `Quiescent`, `Stopped` and `Exited` are the
states in which nothing is under way.

**Fairness.** `OrderService`: a process that has a call to make makes it (goroutines
are scheduled and the database answers, or the context of the request ends the
wait), and the database ends transactions of lost connections. No client has to
send anything, and no weak fairness is asked of failures. A waiting UPDATE proceeds
when the lock is free; since no process needs a second attempt, weak fairness is
enough. `Worker`: goroutines are scheduled, the ticker ticks, calls of the
service return (what `EveryoneFinishes` says of them). Strong fairness is asked
of `SelectDone` alone, because Go's select picks at random among ready cases: with
a tick and a cancelled context both ready again and again, it does not choose the
tick for ever. Without it a worker could start run after run once cancelled.
`Application`: the goroutines are scheduled, and database calls end (`Release`,
`RunStep`), on which `dbPool.Close` waits. A served request need not be answered:
the time limit takes the place of that assumption. Listening need not fail.
`PendingQueue`: as `Worker`, and a request that locked a row ends; creations need
neither begin nor end, and failures are bounded (a run that fails for ever serves
nobody). `Pagination`: the client keeps asking and its requests are served; faults are
bounded. `JWTMetadata`: the process takes its steps and its timers expire; nothing is
asked of the key server, which may stop in the middle of a body. `CreateIntake` and
`Access` have no liveness property.

## 4. Proofs

Nothing is assumed but the named assumptions on constants in the modules: distinct
processes, finite sets of natural numbers as order ranks, a finite bound on the orders
that wait at once, `None` not a value of another kind, well-typed inputs, a positive batch size, finitely many run ids, requests
distinct from runs; integers for the worker's batch sizes; natural numbers for
widths and limits; disjoint sets of symmetric and asymmetric algorithms. The number
of requests, runs, orders, customers and keys is arbitrary and any of the processes
may fail.

`OrderServiceProofs`

- `Invariance`: `Spec => []Inv`.
- `TypeCorrect`, `AuditTrailCorrect`, `KeysUnique`: the invariants that users see.
- `Refinement`: `Spec => Lifecycle!Spec`.
- `HistoryKept`: no step removes an order or an audit row, changes an order's owner or
  key, or moves its status off the paths of the state machine.
- `AnswersInvariance`: `Spec => []AnswerInv`; from it `Durable`, `RejectedWithoutEffect`,
  `Truth`, `ErrorsExplained`, one for each property of answers.
- `OneBatch`, `NoWaitCycle`, `NeverStuck`: nobody waits in vain.

`AuditTrail` is not inductive: a commit extends the trail by an event composed
long before. It needs `LocksExclusive` (one writer per row, abandoned transactions
included), `TxShape` (what each transaction has written at each call, so that
order, items and event are committed together or not at all), and `WritesCurrent`
(nobody changes the status from which an open transaction moves an order).
`OneOrderPerKey` needs `KeysReserved`: a creation past its INSERT owns its key
among committed orders and open transactions. `Inv` is their conjunction with
`TypeOK`. A step preserves it by cases over the actions; most leave the
tables alone and only the frame of the process changes, and the two that apply a
transaction (`Commit`, `LateCommit`) share one lemma. The refinement uses `Inv`:
the same lemma shows that an applied transaction is one `Move`, and that all
other steps leave status and trail alone.

The properties of answers need what holds of a process between its reads and its
answer. `AnswerInv` has two parts. `Trace` says which events of a process are in the
tables, by its `pc`: none while its transaction is under way and none if it is refused,
one of a request that was told or is to be told success; once a call has failed,
it says so only until the process's transaction is over, and from then on that the
request has taken effect once or not at all (`AtMostOnce`): a client told 500 may
find its order changed, after `Hydrate` failed or a COMMIT took effect late, but never
twice or in part. `AppliedAtMostOnce` states this by itself. `Known` says what a process
has learnt: past `GetRead` or `CancelRead` its customer owns the order, and with its answer
it has learnt what the answer says. `AnswerInv` is inductive relative to `Inv`. A step of
another process keeps `Known` because what is known is stable, by `StepRowsKept`: rows
and their owners stay, and a status moves only along `CanTransition`, which never leads
back to PENDING. It keeps `Trace` because a transaction adds events of its own
process alone (`ApplyEventsBy`) and the trail keeps what it has (`StepTrailsKept`).
`HistoryKept` states these two facts as a theorem.

`NobodyStuck` is the safety core of `EveryoneFinishes`, for every number of processes:
what is under way can go on (`Runnable`) or waits for a process that can. It follows
from `TxShape` (who holds a row or a key has no lock left to ask for) and from
`OneBatch` (the statement of a run always has a batch to return). `Runnable(p)` states
by hand when a call of `p`, or the end of its transaction, is enabled; that
it agrees with ENABLED was checked by TLC over the instances of `faults` and `requests`,
whose supply of identifiers suffices. It leaves out that newUUID could run out of
identifiers.

`WorkerProofs`

- `Invariance`: `TypeOK`, `NoOverlap`, `FlagMeansRun`, `StopsClean` and
  `CountsRuns` together are inductive. The flag is needed for `NoOverlap` (a tick
  that finds it clear finds no busy run) and the count for `StopsClean` (`Wait`
  returns at zero).
- `WorkerSafe`, `FlagExact`, `NoneLeft`, `RunsCounted`, `WorkerTypes`: each of them by
  itself.
- `RoomForRuns`: runs start only with a positive batch size, which the theorems about
  batches need.

`PendingQueueProofs`

- `QueueImplementsWorker`: the composition implements `Worker`'s specification, so
  `WorkerInvariance` and all the theorems of `WorkerProofs` hold in it.
- `QueueInvariance`: `QueueInv` is inductive relative to the worker's `Inv`. `InOrder`
  (the waiting orders are strictly and totally ordered) survives departures from the
  middle and additions at the end; `HeldOnce` needs that batches are picked from `Free`,
  `NothingLeftOpen` that a transaction lives inside its run, of which `Inv` says that none
  is left when the loop has ended. `RowsHeldOnce` is its second part.
- `PicksOldestFirst`, `PicksFullBatches`: `OldestFirst`, a run passes over no free order
  for a younger one, and takes as many as the batch size and the free orders allow. These are the
  safety core of `NobodyStarves`. `OldestFull` counts: the youngest order of a batch has
  all the others before it, so there are at most `batchSize`; the oldest order left
  over has only picked ones before it, so there are at least `batchSize`.

`ApplicationProofs`

- `WorkerInside`: the application implements `Worker`'s specification; so
  `WorkerSafeInside` carries the theorems of `WorkerProofs` over.
- `Invariance`: `TypeOK` and `Phases`, what has come before each point of `main`.
- `CleanStop`, `CallsComplete`: `CleanMeansStopped` and `NoCallCutOff`. The former
  combines `Phases` (after `wg.Wait` the worker's goroutine is past `Run`) with
  `StopsClean` of the worker (past `Run` no run is left).

`PaginationProofs`

- `Invariance`: `CursorBetween` (what was received lies before the cursor, what is due
  and belongs behind it) and `PageFirst` (a page is the first part of what is due,
  and what is due is not on it only if the page is full) make `NewestFirst` and
  `NothingSkipped` inductive. The lemmas are about the order: `NewerIsStrict`,
  `CursorOfOrder` and `Across` (what follows the last order of a page is behind its
  cursor), `ShortPageIsAll`.
- `PagesNewestFirst`, `ListingComplete`, `ListingHonest`.
- `PagesWithinLimit`: `WithinLimit`, a part of `Inv`, states that a page has no more
  orders than its request's limit, that limit is `maxListLimit` at most, and no more items
  are read than the page has orders.

`CreateIntakeProofs`

- `IntakeCorrect`: `Inv`, from arithmetic lemmas: `QuotientTest` and `Line` (the
  division finds exactly the products that do not fit), `WrapSum` and `SignTest` (the
  sign of a sum of two that fit is wrong exactly if it wrapped).
- `TotalIsExact`, `OverflowIsReal`, `BodyWhole`, `ChecksAreMet`, `IntakeTypes`.

`JWTMetadataProofs`

- `MetadataInvariance`: `remaining = limit - delivered`, and bytes taken are bytes
  handed on but for the one that proves a body too large.
- `ReaderExact`, `DocumentsWhole`.

`AccessProofs`

- `AccessInvariance`: `ConfigInv` (role values distinct in JWT mode, no symmetric
  algorithm), `TokenInv` with `Resolved` (what `resolveRole` found in the values it has
  seen) and `IdentityInv` (what an identity says of its token). `RoleOfValue` and
  `ResolvedNames` say that with distinct values the switch and `NamedRoles` agree.
- `OneRole`, `ProvenOnly`, `ServedAttributable`.

*Counting without induction.* The library's induction theorems take an operator as
a parameter, which the provers cannot instantiate. Where a number or a finite set has to
be exhausted (`BatchExists`, `OldestFull`), the proofs use instead that `<` is
well-founded on the natural numbers (`NatLessThanWellFounded`, `WFMin`): a non-empty set
of natural numbers has a least element, an ordinary first-order fact.

*Only model-checked*: all liveness (`EveryoneFinishes`, `CancelStops`, `KeepsRunning`,
`SignalEnds`, `FailureEnds`, `NobodyStarves`, `ListingEnds`, `FetchEnds`), since liveness
under fairness and ENABLED are beyond the provers used; and the three violations,
which are counterexamples and not theorems. Every invariant and every action
property of a passing run is proved.

## 5. Not modelled

Logging, JSON rendering and generated record types do nothing that a property
could be about. The signature, issuer, audience and expiry of tokens are checked by
the OIDC library, a token is here one that passed or did not. Field formats (UUIDs,
names, currency codes, durations, URLs) are text and abstracted to whether they are
accepted, and so is the text of a cursor. `HTTP_ADDR` is copied. The times of audit
rows are the starts of their transactions, so rows sorted by them may be in
another order than they took effect; nothing in the code reads them back and no
document promises an order, so `events` has them in the order they took effect.

## 6. Plan

1. `OrderStateMachine`, `OrderLifecycle`, `OrderService`, with proofs (done).
2. `Worker`, with proofs (done).
3. `Application`, composed with `Worker`, with proofs (done).
4. `PendingQueue`, composed with `Worker`, with proofs (done).
5. `Pagination`, with proofs (done).
6. `CreateIntake`, `JWTMetadata`, with proofs (done).
7. `Config` and `Access`, with proofs (done).
8. Proofs about the answers of `OrderService` and its waiting (done).
9. The safety cores of the remaining liveness properties as theorems, as `NobodyStuck`
   is that of `EveryoneFinishes`: that a shutdown (`SignalEnds`) and a listing
   (`ListingEnds`) always have a next step, and what each step brings nearer to the end.
10. The times of audit rows, if the code ever reads them back.
