# Logix: specification, model checking and proofs

Logix is a supply-chain platform: an API gateway in front of services for
orders, inventory, billing, logistics, authentication, notifications and
analytics, with a package of shared code. This directory holds TLA+ models of
the parts of it that decide something on state they keep, the TLC
configurations that check them, and TLAPS proofs for any number of orders,
owners, callers, accounts or payments.

Files: `X.tla` models a component, `Y.cfg` is one run, `XProofs.tla` holds
theorems, `Sums.tla` the facts about finite sums they share. An `MC` module gives the constants of one or several components their
values. Where it has several, they share no state and the code does not connect
them: its variable `part` says which of them a behaviour exercises, and the
others stay as they started. `StockBook.tla` and `FixedWindow.tla` are abstract
specifications. `PROJECT.json` lists runs, mutants, theorems, hazards and, for
every definition that models code, the lines it stands for.

## 1. Inventory

Paths are relative to `src/services/`, those of `common` to `src/packages/common/src/`.
"Calls overlap" means: the service object is shared by all requests of a
process, its methods are `async`, and another request can run at each `await`.

| Component | State | Operations | Hard behaviour | What makes it correct |
|---|---|---|---|---|
| Lease locks, `common: concurrency` | one lease per key, fencing sequence | `acquireLease`, `releaseLease` | expiry by the wall clock, late release, clock set back | mutual exclusion; tokens order the grants |
| Stock and reservations, `inventory-service` | stock rows, reservations, movements | `reserveItemsForOrder`, `adjustStock`, `releaseReservation` | calls overlap between check and reservation, and between lookup and insert | nothing oversold; counters agree with reservations and audit trail |
| Product catalog, `inventory-service` | products, warehouses, bins | `createProduct`, `createWarehouse` | check-then-store across awaits | a SKU twice only by overlap |
| Orders and order saga, `order-service` | orders, saga instances | `createOrder`, `cancelOrder`, the saga's steps | the saga is launched and not awaited; cancellation races with it | status backed by the saga; no lost update; orders settle; cancelled is final |
| Fulfilment workflow, `order-service/src/orchestration` | steps, overall status | `initializeWorkflow`, `advanceStep`, `triggerCompensation` | results that arrive late or twice | steps in order, one at a time; status true of the steps; workflows finish |
| Allocation coordinator, `order-service/src/allocation` | a reservation per saga | initiate, commit, roll back | expiry, retries that replace a reservation | a promise is committed at most once, while it stands |
| Event outbox, `order-service/src/events` (copies in six more services) | queue, subscribers | `queueEvent`, `subscribe`, `flushOutbox` | flushes overlap, handlers fail or subscribe during a flush | bounded retries; settled for good; every message settled |
| Circuit breaker, `api-gateway` | state, two counters, last failure | `canPass`, `recordSuccess`, `recordFailure` | reports of calls sent before the state changed | trips and closes on runs of reports; heals |
| Adaptive breaker, `api-gateway` | state, sliding counts | `allowRequest`, `recordResult` | probes below the minimum of requests | failed probes and runs of failures are bounded |
| Rate limiter and token bucket, `api-gateway` | windows, buckets | `middleware`, `cleanup`; `checkRequestAllowance` | boundaries, clean-up timer, fractions of tokens | implements a fixed window; refills exactly; `retryAfter` is enough |
| Invoices, payments and ledger, `billing-service` | invoices, payments, journal | `createInvoice`, `processPayment`, `postJournalEntry` | payments overlap; capture and posting are awaits apart | status and amounts agree; books agree; captured is posted |
| Revenue schedules, `billing-service/src/recognition` | none | the schedule of a contract | rounding, turn of the year | exact to the cent, consecutive months |
| Users and tenants, `auth-service` | users, tenants, audit | `registerUser`, `login`, `provisionTenant` | check-then-store and read-then-write across awaits; a hash rejected after the tenant was stored | duplicates only by overlap; counts sound; logins of the owner; tenants have their administrator unless his hash was rejected |
| Authorization codes, revocations, `auth-service/src/security` | clients, codes, a list with expiry | issue, exchange; revoke, look up, purge | wrong clients and verifiers, late and repeated use, purges at the boundary | a code is used once and not lost; the verifier belongs to the challenge; revoked exactly as long as said |
| Roles and policy rules, `auth-service/src/policies`, `common: security` | roles | register, evaluate | inheritance in circles, order of rules | the least fixed point; first match decides as if denials came first |
| Dock doors, carrier auction, `inventory-service/src/dock`, `logistics-service/src/dispatch` | doors, appointments; auctions, bids | book; create, bid, award | names taken from the clock, awards at any time | overlap only in two known ways; the best bid wins |
| Bay slotting, RFID reads, lots, `inventory-service` | bays; last reads; lots | find and allocate; scan; propose | a proposal that is stale, reads out of order, expiry | refused only if overtaken; location recent; first expired, first out |
| Event bus, ring buffer, trie, B+ tree, `common` | listeners, a ring, trees | publish, insert, look up | listeners that throw or leave, wrap-around, splits | each listener once; agree with a list, a map, a sorted list |
| Throughput samples, 2-opt, bin packing, `analytics-service`, `common: utils` | a window; none | ingest; optimise, pack | late samples, loop bounds | nothing fresh dropped; local optimum; no bin overloaded or wasted |
| The rest | section 7 | | | not modelled |

How they interact. The services do not call one another in this commit: each
`app.ts` wires its own repositories and services, and events between services
go through in-memory buses and outboxes that nothing connects. The interactions
there are, are inside a service: `OrderService` launches
`OrderSagaOrchestrator` and both write the same order; `InventoryService` drives
`StockLevelRepository`; `BillingService` drives the ledger; `AuthService` drives
three repositories; the gateway's callers share one breaker. The models compose
exactly these.

The hazards that follow from this, each at its line, are in `PROJECT.json`.

## 2. How the code is modelled

**Awaits.** A JavaScript process runs one piece of code at a time and switches
only at an `await`. An action is therefore the code from one `await` to the
next, and a call is a small record saying where it is suspended and what it
keeps across the suspension. Which of several suspended calls goes on next is
left open. With the in-memory repositories, continuations of settled promises
run first in, first out, which is one of the orders the models allow. The
counterexamples of section 4 do not depend on the difference: each needs only
calls that are started without waiting for one another, in the order given, or
(`btree_search`, `pkce_verified`) calls one after the other. An engine without an `await` has one
action per method.

**Live references and copies.** The in-memory repositories hand out their own
objects. What the code reads through such a reference after an `await` is
current in the models; what it decided before is kept (the answer "there is
no row" in `upsertStock`, the status that `cancelOrder` read, the count of failed
logins that `login` adds one to).

**Time.** Clocks are ticks. Where only a distance to a deadline matters the model
keeps the distance (`left` of a window, `term` of a reservation) and lets it run
out, so that no bound on time is needed. Engines that name records by
`Date.now()` have a flag for "the clock has not moved since", because two
records of one millisecond get one name.

**Data.** Ids, names, prices, addresses, messages and times that nothing
compares are left out. Quantities and cents are small integers. The token bucket counts in
thirds of a token, so its fractions are exact. No integer in the modelled code wraps.

**Variants.** Most modules have a section "Variants" with definitions that have one
plausible mistake each. They are not used by the specification. Each was put in
place of the real definition to see that the property meant to catch it does;
`PROJECT.json` lists one for every property of every run (`mutants`).

### Modules and code

| Module | Variables | Actions and the code they stand for |
|---|---|---|
| `LeaseLock` | `locks`, `seq` (the manager); `now`, `held`, `setBack` (clock, copies owners keep, history) | `acquireLease`, `releaseLease` whole; `Tick`, `StepBack` are the clock. A refused call changes nothing and is no action |
| `StockReservation` | `stock`, `reservation`, `movements` (repository); `order`, `receipt`, `release` (suspended calls) | `reserveItemsForOrder`, `CheckItem`, `reserveStock`, `PushReservation`: the two loops over the items; `adjustStock`, `upsertStock`, `recordMovement`; `releaseReservation`, `FinishRelease` |
| `StockBook` | `onHand`, `promised` | abstract: `Adjust`, `Promise`, `GiveBack` |
| `ProductCatalog` | `products`, `docks`; `creating`, `seeding` (suspended calls) | `createProduct`, `CreateProduct` around the look-up; `createWarehouse`, `createBin` |
| `OrderSaga` | `order`, `saga` (repositories); `pc`, `cancel` (suspended calls) | `createOrder`; `startOrderSaga`, `LinkSaga`, `executeStepInventory`, `OrderPaymentProcessing`, `executeStepPayment`, `OrderDispatchScheduled`: the saga between its awaits; `cancelOrder`, `FinishCancel` |
| `FulfillmentWorkflow` | `overallStatus`, `step` (orchestrator); `result`, `applied` (services, delivery) | `advanceStep` with `Succeed` and `Fail` (compensation included); `Report` is external |
| `Allocation` | `reservations`; history `term` | `initiateReservation`, `commitReservation`, `rollbackReservation`; `AllocationTick` |
| `Outbox` | `outboxQueue`, `message`, `subscribers`; `received`, `flush` (deliveries, suspended flushes) | `queueEvent`, `subscribe`, `flushOutbox`, `HandlerDone`, `HandlerThrows` (the catch block) |
| `CircuitBreaker` | `state`, `failureCount`, `sinceFailure`, `successCount`; `call`, `healthy`; history `failRun`, `successRun` | `canPass`, `recordSuccess`, `recordFailure`; `Tick`, `Recover` are external |
| `AdaptiveBreaker` | `circuit`, `inFlight`; history `probesFailed`, `failsInRow` | `allowRequest`; `ReportSuccess`, `ReportFailure` are `recordResult` |
| `RateLimiter` | `hits`, `verdict`; history `recent` | `middleware`, `cleanup` (the timer), `LimiterTick` |
| `FixedWindow` | `quota`, `open`, `verdict` | abstract: `Accept`, `Reject`, `Tick` |
| `TokenBucket` | `buckets`; history `steady`, `promise` | `checkRequestAllowance`, `BucketTick` |
| `EventBus` | `listeners`, `publication`, `running`; history `calls`, `audience` | `busSubscribe`, `unsubscribe`, `publish`; `ListenerReturns`, `ListenerThrows` |
| `Billing` | `invoice`, `payment`, `journals` | `createInvoice`, `PostInvoice`; `processPayment`, `ApplyPayment`, `PostPayment`; `adjust` (another caller of the ledger) |
| `RevenueSchedule` | `schedule`, `currentDeferred` and the contract | `RecognizeMonth`: one round of the loop |
| `Auth` | `tenants`, `users`, `audit`; `pc`, `dto`, `found`, `count` per call; history `mark`, `tally` | `Call` starts one of `registerUser`, `login`, `provisionTenant`; `Proceed` runs it to its next await, or `HashFails`: the hash or the comparison it awaits is rejected and it throws |
| `AuthorizationCodes` | `clients`, `authCodes`, `codeTime`; history `issued`, `grants` (the verifiers tokens were given for), `presented` | `registerClient`, `issueAuthorizationCode`, `exchangeCodeForTokens` |
| `RevocationList` | `blacklist`, `listTime`; history `lastEnd` | `revokeToken`, `isRevoked` (which deletes what is over), `purgeExpired` |
| `RoleHierarchy`, `PolicyRules` | `roles`, `ctx`; `request` | `registerRole`, `evaluateAccess`; `evaluate` |
| `DockScheduler` | `doors`, `appointments`, `sameMs`; history `returned`, `replaced` | `registerDoor`, `bookAppointment` |
| `CarrierAuction` | `auctions`, `auctionOfMs`, counts | `createSpotAuction`, `submitBid`, `awardAuction` |
| `Slotting` | `stored`, `best`, `outcome`; history `overtaken` | `findBestBay`, `allocateItemToBay` |
| `TagStream` | `lastSeen`, `location`; history `reads`, `accepted` | `processTagScan` |
| `LotPicking` | `lots`, `lotTime` | `registerLot`; `getNextFefoAllocation` changes nothing and is an operator |
| `RingBuffer`, `SampleWindow` | `buffer`, `sequence`; `samples`, `sampleTime`; histories of what went in | `publishItem`, `get`; `ingestSample` |
| `RadixTrie`, `BPlusTree` | `trieNodes`, the map `entries`, `inserts`; `treeNodes`, `treeRoot`, the counts `filed` | `insert`, `lookup`; `insertKey`, `insertNonFull`, `splitChild`, `search`, with the splits as the code does them |
| `RouteTwoOpt`, `BinPacking` | the input, and the result so far | `Improve`: a round of the outer loop; `PackItem`: one item |

Abstractions worth knowing: `StockReservation` keeps one tenant and one
warehouse, and the rows of a SKU as a sequence of which only the first is ever
found, as `getStock` does. `FulfillmentWorkflow` starts from workflows that
exist. `CircuitBreaker` keeps the failure count up to its threshold and the time
since the last failure up to the timeout, the values from which nothing the
code compares changes. `Billing` takes the two awaits that only look something
up that never changes (accounts, an invoice that exists) with the step that
follows; balances are derived from the journal because no code updates
`balanceCents`. `Auth` abstracts hashing to whether the password is the stored
one and tokens to whose they are; each hash and each comparison may be rejected instead
(`passwordHasher.ts:13` and `:25`). `AuthorizationCodes` has three verifiers: none, the one that
belongs to the challenge of the code, and another. `RouteTwoOpt` takes the distance as a
parameter, where the code computes great circles in floating point.

## 3. Runs that pass

| Run | Instance | What it shows |
|---|---|---|
| `engines` | `MCEngines`, one of fifteen parts at a time; its header names the instance of each | lease locks: `FencingOrder` whatever the clock does, `MutualExclusion` until it is set back; allocation: `CommitOnPromise`; docks: `OverlapExplained`; auction: `WinnerIsBest`; bays: `RefusedIfOvertaken`; tags: `LocationRecent`; catalog: `CatalogAgrees`; `TreeAgrees` for the B+ tree; `AlgorithmsAgree` for the trie, the ring, samples, 2-opt, packing, schedules and FEFO |
| `stock_reservation` | 3 orders over 2 SKUs (two in opposite order, one with a SKU twice), 2 receipts, 1 release | `NoOversell`, `OutcomeExplained`, `ReservedIsActive`, and the code refines `StockBook` (`ImplementsBook`) |
| `stock_shrink` | 2 orders on 1 SKU, two receipts and a write-off, 2 releases that may hit one reservation | `CountersAgree`: `reserved` never negative, `available` the difference, every unit on the audit trail |
| `orders` | 2 orders and 2 cancellations; 2 messages, 2 handlers, 2 overlapping flushes, batches of 1 and 2; 2 workflows of 5 steps, one with results that arrive again | `StatusBacked`, `NoLostUpdate`, `OrderSettles`; `BoundedRedelivery`, `SettledForGood`, `EventuallySettled`; `OverallAgrees` for both workflows, `OneAtATime` and `WorkflowsFinish` for the one whose results arrive once |
| `gateway` | breaker with 4 calls in flight, thresholds 3 and 2; adaptive breaker with 3 in flight and a minimum of 6; 2 clients of a limiter of 2 in 3 ticks; 2 buckets; 3 listeners, 2 publications | `FailuresTrip`, `ClosesOnProbes`; `PassesBounded`; the limiter refines `FixedWindow` (`ImplementsWindow`); `BucketHonest`; `EachOnce`; `EventuallyServed`: the breaker heals, clients are readmitted, `publish` returns |
| `billing` | 2 invoices, 2 payments, over-payment possible, the two journal entries of `tests/unit/ledger.test.ts` | `StatusAgrees`, `BooksAgree`, `CapturedIsPosted` |
| `auth` | 4 overlapping calls of registration, login and provisioning, with hashes that may be rejected; 2 codes, 2 clients, 3 verifiers; 2 tokens; 6 roles, 9 definitions of them; every request the rules tell apart | `DuplicatesOverlap`, `CountSound`, `AccountsAgree`; `SingleUse`; `RevocationAgrees`; `AccessAgrees` |

Properties that are conjunctions (`TreeAgrees`, `AlgorithmsAgree`,
`CountersAgree`, `BooksAgree`, `PassesBounded`, `EventuallyServed`,
`BucketHonest`, `AccountsAgree`, `AccessAgrees`) name their parts, each defined
and explained in its component's module. `PROJECT.json` has one mutant for each, which breaks one of
the parts; for most other parts the component's module has a variant of its own.

Why the bounds are enough. Every race in this code is between two calls on one
object; each instance has two calls for every such pair, and a third where a
bystander matters (the third owner, the order with a SKU twice, the third login
that meets a count two others left). `MaxTime` = 3 lets
a lease of two ticks expire and be replaced; four grants are a grant, a
takeover, a renewal and one more.
The breakers have more calls in flight than it takes to trip or close them, so a full set of late
reports can arrive in one state. Two messages and batches of one and two give
a backlog above the batch and a batch with a message behind the failing one;
five failures of a message fit, with no bound on retries but the code's own.
Data structures are driven past their limits: ten insertions into nodes of three
keys split the root and inner nodes of the B+ tree, four insertions of words of up to three letters
reach every case of the trie's split, six items are three rounds of the ring.

Deadlock is checked in `gateway`. Elsewhere every call made in
the instance may have returned and the system is simply idle; where it matters
that calls do return, a liveness property says so.

Preconditions. `NoOversell` assumes adjustments that only add;
a write-off of reserved units makes `quantityAvailable` negative, as the code
allows (`stock_shrink` has one). `ReservedIsActive` assumes that one
reservation is not released twice at a time (`SerialRelease`): two releases that
overlap both see it `ACTIVE` and give the units back twice. `OneAtATime` and
`WorkflowsFinish` speak of workflows whose results arrive once: a second delivery of the
result of step 1 starts step 3 while step 2 is under way. `MutualExclusion` assumes
that nobody sets the clock back: leases end by `new Date()`, and after a step back an
owner whose lease had expired and was replaced holds an unexpired copy again.
Nothing in the repository says what should happen in these cases, but for one line:
`docs/features/order-saga-orchestration.md:7` has "Idempotency verified" under the order
saga and its orchestrator. It names no operation; read as being about
`advanceStep` with a repeated result, it does not hold of the code.
`BoundedRedelivery` counts one delivery more per overlapping flush.

Properties that describe a weakness exactly rather than its absence:

* `DuplicatesOverlap` and `CatalogAgrees`: duplicates come from overlap and nothing else.
* `CountSound`: which counts of failed logins can be wrong.
* `AccountsAgree`, the part `AdminUnlessRejected`: `provisionTenant` stores the tenant before it awaits
  the hash of the administrator's password (`authService.ts:115` and `:129`). When the hash is rejected
  it throws, the tenant stays, its slug is taken, and that administrator is never stored. This is
  the only way a tenant ends up without him; the part `LoginOfOwner` knows no such exception.
* `OverlapExplained`: the two ways in which appointments come to overlap on a door that the code
  looked up as "conflict-free" (comment in `AutomatedDockDoorAppointmentScheduler.ts:56`).
* `PassesBounded`, the part on the adaptive breaker, whose header says "Sliding-Window" and
  "Netflix Hystrix / Resilience4j state transitions" (`AdaptiveCircuitBreakerEngine.ts:2-3`): nothing slides out
  of the counts, so that a long healthy past delays the trip, and a failed probe does not open the
  circuit again by itself. The property says how many probes may fail and how long a run of failures gets.
* `SingleUse`: the exchange that gets tokens needs a verifier where the code has a challenge, but any will
  do (`pkce_verified` in section 4).

### Fairness

Only steps that the runtime or the environment cannot put off for ever are fair,
and each only in behaviours that exercise its component.

* `OrderSaga`, `Billing`: the event loop runs every continuation of a settled
  promise, so a saga, a cancellation, an invoice or a payment under way goes
  on (weak fairness per call). Creating, cancelling and paying are not fair.
* `FulfillmentWorkflow`: services finish the steps they were given, and every
  result is delivered once. This is the contract `advanceStep` presupposes; the code has no timeout.
* `Outbox`: `flushOutbox` is called again and again, and a handler that was called
  returns or throws; which of the two is not fair, so a handler may fail always.
* `CircuitBreaker`: time passes, callers come again, and calls end. `Recover` is not
  fair; `Heals` speaks of what follows it.
* `RateLimiter`: time passes and clients keep asking, which is what `Readmitted` is about.
  Nothing is asked of the clean-up timer.
* `EventBus`: listeners that were called settle, one way or the other.

No run with a liveness property uses symmetry; `engines`, which has none,
permutes the owners of leases.

## 4. Runs that show a disagreement

| Run | The repository says | What happens |
|---|---|---|
| `stock_all_or_nothing` | "Atomically reserve all items" (`inventoryService.ts:47`) | an order with a SKU on two lines and units for one: each line passes the check alone, the second `reserveStock` throws, the first reservation stays `ACTIVE` |
| `stock_quantity_tracked` | "record inbound stock adjustment and track available quantity" (`tests/unit/inventory.test.ts:37`) | two first adjustments of a SKU overlap and insert two rows; `getStock` finds only one |
| `order_cancelled_final` | `cancelOrder` treats `CANCELLED` as final (`orderService.ts:76`); "automatic compensating transactions" (`docs/features/order-saga-orchestration.md:4`) | the saga's next update overwrites `CANCELLED`, and the order is dispatched |
| `pkce_verified` | "PKCE code challenge verification" (`OAuth2AuthorizationServer.ts:3`) | a code issued with a challenge is exchanged with a verifier that does not belong to it: line 92 asks only whether one was given |
| `btree_search` | "B+ Tree Multi-Way Search Index" (`BPlusTreeDatabaseIndex.ts:2`) | the first split of a leaf parts its values one place before its keys: the middle key is found no more, and keys in the right half return the value of the key before |

`engines` checks the same tree for what a split does get right: the keys stay in order
and the leaves at one depth. `auth` checks the same exchange for what it does ask: the client, the
redirect URI, the time, that the code is new, and that there is a verifier.

## 5. Proofs

Eight modules of theorems, checked by TLAPS, for every value of the constants
that the named assumptions allow. The assumptions are those a caller meets:
positive quantities and thresholds, carts that are not empty, durations that
are integers, reasons and ids that are not the marker for "absent", journal
lines on accounts of the chart with integer amounts, items, routes and lots
whose sizes, distances and dates are natural numbers (`PackingAssumption`,
`RouteAssumption`, `LotAssumption`), words over the trie's alphabet
(`TrieAssumption`), keys that are numbers and a tree of order two or more
(`TreeAssumption`), roles among which are those the code registers itself
(`RolesAssumption`); and, where something is
summed or counted over all calls, that there are finitely many of them
(`CallsAssumption` of stock and billing, the flushers of the outbox, the
putaways of bay slotting, the ids of roles). How many is left open. TLC evaluates every
assumption of a module it runs.

| Module | Inductive invariant and why it is needed | Theorems |
|---|---|---|
| `Sums` | lemmas only: what `SumFunctionOnSet` is on the empty set, and how it changes with an element, with a function, under union, renaming and appending (`SumPick` to `SumPair`); that a stable sort has a rank for every element (`RankFacts`); that a loop over a range has exactly one outcome (`RunExists`), and that a recursive function whose calls all end exists (`LoopFunction`) | (lemmas) |
| `StockReservationProofs` | `Inv`: types, what a suspended call remembers (a row that was found is still there, because rows are never deleted), and the items reserved as a function of where the call is. `NoOversell` follows from the test in `reserveStock`, on the live row in the step of the update. `UnitsRecorded`: the rows' units are the movements' plus those of adjustments suspended before `recordMovement`. `ReleasesInTurn`: a release under way is of an `ACTIVE` reservation and the only one of it; without it `ReservedIsActive` is not inductive. `Moves`: what each step does to the three sums | `AvailableCorrect`, `NoOversellCorrect`, `ReservationBackedCorrect`, `OutcomeCorrect`, `UnitsRecordedCorrect`, `CountersCorrect`, `ReleasesInTurnCorrect`, `ReservedIsActiveCorrect`, `ImplementsBookCorrect` |
| `OrderProofs` | `SagaInv`: saga and order are those of the await the saga is at, up to a cancellation. Without the exact saga state the status claims nothing. For the outbox, `OutboxInv`: as long as a message is not settled, a handler was given it no more often than it failed plus the flushes that are at it (`Givers`); once it is settled, deliveries and the flushes that still have it in their batch (`Owers`) are at most four plus the number of flushes. Neither half is inductive alone, because a batch outlives the settling of its messages. For the workflow, `Agreement` = types and `OverallAgrees`, inductive. `InOrder`: a result not yet applied is of the only step under way; `OneAtATime` is not inductive without it, because `advanceStep` does not look at the step's status | `SagaInvCorrect`, `StatusBackedCorrect`, `NoLostUpdateCorrect`, `OutboxInvCorrect`, `BoundedRedeliveryCorrect`, `SettledForGoodCorrect`, `OverallAgreesCorrect`, `OneAtATimeCorrect` |
| `BillingProofs` | `Inv` = types and `StatusAgrees`; the one fact about data is the lemma `ApplyOK` on `Apply`. `BooksInv`: the receivables account is what was posted for invoices less what was posted for payments, and what is paid is what was applied, in all and per invoice. Capture and posting are awaits apart, so `BooksAgree`, which speaks of the time when nothing is under way, is not inductive | `TypeCorrect`, `StatusAgreesCorrect`, `PaidIsFinalCorrect`, `BooksInvCorrect`, `BooksAgreeCorrect` |
| `GatewayProofs` | `BreakerInv`: `failureCount` never lags behind the failures in a row, and the probes counted in `HALF_OPEN` were in a row. `AdaptiveInv`: a half-open circuit still counts the failures that opened it and has seen too few successes to hide one. `BucketInv`: per key, what is stored plus what the seconds since then add, up to the brim, is the bucket that is refilled all the time. For the refinement of `FixedWindow` the types suffice: `MiddlewareRefines`, `TickRefines` and `CleanupStutters` map each step to a step or a stutter. `SpanInv`: of the requests let in lately, those of the running window and those before it are each within the limit. `BusInv`: nobody is in the set of listeners twice | `BreakerInvCorrect`, `FailuresTripCorrect`, `ClosesOnProbesCorrect`, `ProbesBoundedCorrect`, `RunTripsCorrect`, `SpanBoundCorrect`, `PassesBoundedCorrect`, `BucketHonestCorrect`, `ImplementsWindowCorrect`, `EachOnceCorrect` |
| `EngineProofs` | Locks. `CopiesAgree`: the manager's entry is its owner's copy, and no copy has a token above the sequence; `UnexpiredIsCurrent`: a copy that has not expired is the entry. Mutual exclusion alone says nothing about the manager, whose entry is what `acquireLease` looks at. `AllocationInv`: a `RESERVED` entry is the last promise with as many ticks left. `TagInv`: the last accepted read, and how far `lastSeen` may have moved past it. `CatalogInv`: a suspended `createProduct` remembers what the store was when it looked. `DockInv`: what was returned and not replaced is in the map, and only its last entry can be replaced. `SlottingInv`: a bay found for a putaway that nobody overtook still has room. `AuctionInv`: bids are in order of rank, which insertion keeps (`RankedOK`), and the winner is the first | `TypeCorrect`, `FencingCorrect`, `MutualExclusionCorrect`, `LeaseNotStolenCorrect`, `CommitOnPromiseCorrect`, `RefusedForReasonCorrect`, `LocationRecentCorrect`, `CatalogAgreesCorrect`, `OverlapExplainedCorrect`, `RefusedIfOvertakenCorrect`, `WinnerIsBestCorrect` |
| `EngineProofs`, continued | `ScheduleInv`: the balance is the total less the rounded rate for every month so far, cut off at 0; the last entry takes what is left. `RingInv`: a slot holds the last publication into it. `SamplesInv`: the samples are the end of what arrived, and all before it is stale; the code drops from the front only, so that a fresh sample behind a stale one is kept. `LotsInv` and the loop invariant `LoopAgrees`: after n lots, the first lots of the order are used up but for the last. `PackingInv`: a bin that holds more than it should holds one item, no two bins go into one, and nothing is lost on the way. `RouteInv`: the best route is the given one with stretches turned round, its length is the true one, and it stopped improving only where no reversal helps. `AlgorithmsInv`: these and `TrieInv` together | `ScheduleCorrect`, `RingAgreesCorrect`, `FreshKeptCorrect`, `FefoKeptCorrect`, `PackingCorrect`, `RouteCorrect`, `AlgorithmsAgreeCorrect`, `TreeAgreesCorrect` |
| `IndexProofs` | Both indexes are proved with labels that say what a node stands for. The code has no such thing, so the invariants say that there is a labelling. `TrieInv`: the label of a node is what the prefixes from the root spell (`Spells`: labels are unique, and from every node above another a child leads towards it), a word is filed at the node it labels (`FilesIt`), and a node that is no word has two children (`Forks`). A new node extends the labelling (`HungSpells`), a split in the middle of a prefix adds one label between two (`CutSpells`). `TreeInv`: height, parent, place among the siblings and the interval of keys (`h`, `par`, `pos`, `span`) of every node, its shape, and per key how often it is in the tree. A split halves the child's interval (`HalfLabels`) and is the same for leaves, inner nodes and a full root; `insertNonFull` keeps the tree on the way down by induction on the height of the node it is at (`Lower`) | `TrieCorrect`, `TreeCorrect` |
| `AuthProofs` | `ListInv`: an entry is the last revocation, and one that was purged is over. `CodesInv` with `Follows`: a stored code is as issued and marked as used exactly when it was exchanged, with whatever verifier, and one that was deleted was used or is over. `ServiceInv`: what each suspended call knows (`Registering`, `Provisioning`, `LoggingIn`) about users stored meanwhile; the first user of an address exists because naturals are well-founded. `AdminInv`: every tenant has the call that made it, which awaits a hash, had it rejected or stored the administrator; that no call has stored a user before its hash came back is `Stored`. `CountInv`: the count a suspended login copied is the stored one as long as logins did not overlap. `RolesInv`: the types; what is proved about the roles is about the walk: `traverseRole` visits exactly the least set that is closed under inheritance and has the roles it starts from (`LeastFrom`), with circles and with roles that were never registered | `RevocationAgreesCorrect`, `SingleUseCorrect`, `DuplicatesOverlapCorrect`, `AccountsAgreeCorrect`, `CountSoundCorrect`, `AccessAgreesCorrect` |

Every proof of an invariant has the same shape: `Init` gives it, each action
keeps it (one step or lemma per action), it gives the property, and `PTL` puts
them together.

**Induction.** The induction theorems of the library take an operator as a parameter and
cannot be used here. The few inductions there are go by the least counterexample
instead: the property is a set of numbers, and `WFMin` gives the least number
outside it (`SetInduction` and `SubsetInduction` in `Sums`). From them follow that
the fold behind `SumFunctionOnSet` exists and is unique, hence the lemmas on
sums; in the same way that the filter of the outbox exists and keeps order
(`FilterExists`, `PendingFacts`). For this the models state sums by
`SumFunctionOnSet` and the filter as a recursive function, and insert a bid at
an index instead of sorting. A loop is proved to have one outcome and to keep an
invariant in the same way (the picks of FEFO, the rounds of 2-opt, the length of a
route).

**Recursion.** No module declares a RECURSIVE operator. Where the code recurses (the
look-up and the insertion of the trie, `insertNonFull` of the tree, the walk
over roles), the model has a recursive function, `f[x] == IF ... THEN ... ELSE
f[next(x)]`, which TLA+ reads as "some f that satisfies the equation". That
there is one has to be proved before anything is known of `f`: `LoopFunction`
gives it where a measure falls with every call (the letters that remain, the
height of the node), and where roles inherit in circles the least set closed under
inheritance satisfies the equation. The reference definitions `Depths` and
`KeysBelow` recurse through all children; the heights in the label satisfy the one and the
least sets that are closed under going up the other, and what is proved of them uses
nothing but their equations.

**Refinement of the stock book.** `ImplementsBook` holds when callers release in turn
(`SerialRelease`, the precondition of section 3, is the hypothesis of
`ImplementsBookCorrect`): the abstract book gives back no more than is promised, and that the code
does not either rests on `ReservedIsActive`. `CountersAgree` and `NoOversell` need no such hypothesis.

**Composition.** `PassesBoundedCorrect` is about the composed `GatewaySpec`, which implies
the specifications of its parts (`GuardsOfGateway`): a step of one part leaves the variables of the others alone.
`AlgorithmsAgreeCorrect` and `TreeAgreesCorrect` are about the composed `EnginesSpec`, and
`AccessAgreesCorrect` about `AuthSpec`, of which roles and rules are parts. The other
theorems are about each part's own specification.

Proved and in no run of its own: `LeaseNotStolen`, `ReservationBacked`, `AvailableAgrees`,
`ReleasesInTurn`, `PaidIsFinal`, `RefusedForReason` and the inductive invariants. Parts of
conjunctions (`UnitsRecorded`, `ProbesBounded`, `RunTrips`, `SpanBound`) have
theorems of their own.

## 6. Only model-checked

* Liveness (`OrderSettles`, `WorkflowsFinish`, `EventuallySettled`, `EventuallyServed`,
  `CapturedIsPosted`): what must happen under fairness is outside the prover's reach.
* That `search` finds what was inserted does not hold (section 4); the theorems on the B+ tree
  are about its keys and its shape.
* The preconditions themselves: that callers release in turn, or that results of a
  workflow arrive once, is nothing the repository enforces.

The plan was ordered by what a mistake would cost: locks, stock, order saga, workflow, outbox,
breaker and billing first; then authentication, allocation, limiters and the bus; then docks,
auctions and the warehouse engines; then data structures and algorithms against reference
definitions. All of it is built, and every safety property the passing
runs check has a theorem; liveness is what stays with TLC.

## 7. Not modelled

* The domain scaffolding (`services/*/src/domain/**`, `common: domain`, and copies such as
  `EnterpriseDomainModule` and generated repositories): some 700 files, about two thirds of
  the repository's lines, stamped from one template per kind and used by no service. The
  generated services name undeclared identifiers in their field initialisers, so
  that constructing one throws. There is no behaviour to state.
* Data tables (zip codes, tariffs, exchange rates, catalogues, benchmark matrices), the web
  dashboard, build and deployment files: no state of their own.
* Shipments and telemetry: inserts and last-write-wins updates; no decision depends on stored state.
* Transfers, returns, subscriptions, checkout: setters of a status without a guard,
  called by nobody. There is no illegal sequence because every sequence is allowed.
* Closing periods, dunning, bank reconciliation: not connected to the ledger that is
  modelled. (`createFiscalYear`, called again for a year, opens its closed months again.)
* Pricing, promotions, tax, great-circle distances, nearest-neighbour tours, forecasting: stateless
  floating-point arithmetic, which TLC's integers cannot express.
* Notifications: formatting and dispatch; the webhook back-off is one formula with a random term.
* SCIM provisioning, WebAuthn, the audit hash chain: records that are created, replaced and
  listed, and cryptography.
* The other six outbox handlers, which differ from the modelled one in names only.
* Crashes and restarts: every repository is in memory, so a restart loses all
  state and there is no recovery to check.

The lines that are modelled are therefore a small share of the repository's: of some 62,700 lines
about 41,000 are scaffolding and 6,000 are tables; most of the remainder are types, routes,
calculators and copies. What is left out is left out because nothing in it can go wrong in a way that a
state machine would show.
