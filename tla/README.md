# TLA+ models of atlas-commerce

Specifications of the services in this repository, model-checked with TLC and,
where a result matters for every number of orders, callers or workers, proved
with TLAPS. The modules are written from the source under `services/`,
`packages/shared/` and `db/migrations/`; comments in the modules and the table
`map` of `PROJECT.json` say which lines a definition stands for.

Run a model with `tlc -config <run>.cfg <MC module>.tla`, and the proofs with
`tlapm <X>Proofs.tla`.

## The system

Eight services, each a Node.js process, seven of them with tables of their own in
one PostgreSQL database, and a shared Redis that keeps nothing over a restart. They
call each other over HTTP with a time-out (catalog gives payments 1.5 s, orders gives
its services 2 s, the gateway 5 s); there is no message broker, no distributed
transaction and no job that repairs what a process left behind when it died.

| part | state it keeps | operations that change it | talks to |
|---|---|---|---|
| orders | `orders`, `order_items`, `shipments`; cached orders, timelines and pages; notes, in Redis only | place, cancel, ship, add note, shipment tick, read | catalog (price), inventory, payments |
| inventory | `stock_levels`, `stock_reservations` and lines, `stock_movements` | create, commit, release and expire reservations, adjust, transfer, count | none |
| payments | `payment_intents`, `payment_attempts`, provider | create, capture, void | provider, settlement |
| settlement | `ledger_entries`, `settlements`, `settlement_lines` | post an entry, run a settlement | none |
| returns | `return_requests` and lines | create, approve, reject | orders (read), inventory, settlement |
| notifications | `webhook_endpoints`, `notification_deliveries` | publish, register, deactivate, retry, deliver | endpoints of customers |
| catalog | products, categories, price rules, price cache | create and update products and rules, read prices | payments (exchange rate) |
| gateway | API keys and one counter per key, both in Redis | authenticate, count, forward | every service |
| shared library | two Redis keys per idempotency key | `idempotency.run` | Redis |

What is hard in it:

- **The order saga.** `placeOrder` makes five remote calls and compensates in a
  `catch` block. A call it gave up on may still be executed, later than the
  compensation. The expiry job of inventory, `cancelOrder`, `shipOrder` and
  clients of the gateway touch the same reservation, intent and order row.
- **READ COMMITTED transactions.** Inventory plans from plain SELECTs and writes
  with guarded UPDATEs, one of which (`commitReserved`) is not guarded. Settlement
  collects from a snapshot and locks afterwards.
- **Retries.** Ledger posts, stock adjustments and webhooks are sent again when an
  answer is lost. Only the first has a key the receiver recognises.
- **The idempotency guard.** Result and lock are separate keys; reading, storing
  and deleting them are separate commands, and the owner may die between any two.
- **Read-through caches.** Catalog writers delete cached prices before and after their
  statement, in chunks; a reader that loaded before stores afterwards. Prices are computed
  from a product that is itself cached, and from exchange rates that may be lost.
- **Leases.** Delivery workers own rows for a time, not by a lock, while clients
  put rows back and their order has to be kept.
- **Reads in parts.** A timeline and a page of a list are put together from statements
  that no transaction holds together, and pages are cached each at its own time.
- **The edges of a request.** The gateway asks a service again while the first request
  may still be executed, and forgets keys and counts when Redis restarts; a service
  that stops closes its pool while requests and a tick of its job go on.
- **Cents.** The price of one unit, which is refunded, and of all units, which is charged,
  are rounded apart.

## Modules

    ReservationContract <== OrderSaga, InventoryStock      (both refine it)
    GuardContract       <== Idempotency                    (refines it)
    GuardContract       ==> ReturnApproval                 (is built on it)
    PaymentCapture, SettlementRun, NotificationDelivery, CatalogPrices
                                                           (on their own)
    MCEdges = Gateway + ServiceShutdown + OrderReads + PagedReads + Pricing
                                                           (one run for the five)

Each component module of the first four lines has an `MC...` module with the model
values of its runs. The five modules around the core do not interact, so `MCEdges` runs
one of them in each behaviour while the others stand still; their definitions are named
apart (`GatewayNext`, `ShutdownNext`, ...) for it.

The proofs about the core are in modules of their own: `OrderSagaProofs`,
`InventoryStockProofs`, `IdempotencyProofs`, `PaymentCaptureProofs`, `ReturnApprovalProofs`.
`CachedReadsProofs` has CatalogPrices and PagedReads; `EdgesProofs` has Gateway,
ServiceShutdown, OrderReads, Pricing, SettlementRun and NotificationDelivery. `FiniteSums`
holds the lemmas on sums over finite sets that stock and gateway need.
Definitions whose name ends in an underscore and a word (`Captured_NoCommit`) are
seeded faults: variants of the definition below them with a plausible bug, used to see
that a property notices. They take part in no behaviour.

### OrderSaga and ReservationContract

`status`, `rowIds` and `shipment` are the order row; `saga` is the statement
`placeOrder` stands at, `comp` the `CompensationState` in its memory, `cancel`
where `cancelOrder` stands while it holds the row lock. `calls` holds the
requests in flight with who waits for them: a caller that times out only renames
its request to `gone`, and the service executes it or the network loses it.
`reply` is an answer on its way back. The services appear as far as the saga can
see them: a reservation's status with its expiry, an intent's status and whether the
provider has charged for it. One action is one statement, one answer, or one transaction
of a service; `CaptureAtPsp` and `CaptureSettles` are separate because
`captureIntent` reads the status before it calls the provider. Between the INSERT that
`PlaceOrder` commits and the `try` block the saga is `opened`: what throws there (the
re-read at orderRepository.ts:170, the deletion of cache keys at placeOrder.ts:45) is
caught by nobody and leaves the order pending.

`Faults` chooses the disturbances of a run:

- `timeout`: a caller gives up on a call that may still be executed.
- `db`: a statement on the orders database, or a command to its cache, throws, applied or not.
- `crash`: the orders process dies.
- `stock`: lost updates leave a stock row with less reserved than its pending lines
  (`short`), until later reservations make up for it. Commits and releases that meet
  such a row are refused, and a release by the expiry tick throws and ends the tick.
- `client`: requests come through the gateway straight to inventory and payments.
- `internal`: inventory or payments answers 5xx, without an effect (`FailsInside`) or after
  it (`Answered`: a COMMIT that is not acknowledged, a result the guard cannot store, a ledger
  entry that settlement does not take after the charge).
- `tick`: a statement of the expiry job throws.

`earlier` is the order of `expires_at`, in which the tick lists what it releases. `thrown`
is history: which calls of a saga ended in a throw.

Shipments move on by a job whose ticks overlap: `ListShipment` reads a row,
`AdvanceShipment` updates it later, guarded by the status that was read. `Tracked`
bounds the orders whose shipments are followed; the runs of the expiry job, which
never looks at a shipment, follow none.

`ReservationContract` is what inventory promises about one reservation, whoever
calls: created pending, settled once. OrderSaga (one transaction per call) and
InventoryStock (one statement per step) both implement it, which is what allows
OrderSaga to use transactions of inventory as single steps.

### InventoryStock

`stock`, `movements`, `reservation` and `lines` are the committed tables; `tx`
holds the open transaction of each session with its own row versions, its row
locks, and what its last SELECT read. A statement waits for a row that another
session has written (`LockedByOther`) and then sees the newest version, as
READ COMMITTED does. `PlanProduct` with `IsAllocation` is `planAllocations`,
given by what its result is rather than by its loop. `CommitSelect` and `CommitUpdate`
are the two statements of `commitReserved`, with time between them. When the UPDATE
overwrites a version the SELECT did not see, `blind` notes the row, and `overwritten`
keeps it as history once the transaction commits: it is the one way in which a row and what is
promised of it part.

### Idempotency and GuardContract

`stored` and `lock` are the two Redis keys, `at` the next command of each caller.
`CheckToken` and `DeleteLock` serve both the `catch` and the `finally` block, as
the code has them. `RedisRejects` rejects any command, applied or not; `Crash`
ends a process anywhere. `GuardContract` says what a service may rely on: no two
runs at a time, replay only of what was kept, no run for a call that comes after
an answer. It does not say that the function completes once, because it does not.

### PaymentCapture

One intent with overlapping creates, captures and voids; `charged` is the
provider's record, `ledger` the rows in settlement, `post` the tries of a ledger
post inside settlement, each of which may be executed after its sender gave up. The
statements of `captureIntent` are steps of their own. Guard and provider key hold
the time of the request, so the guard joins no two captures and is left out.

### SettlementRun

The statements of `runDraft` for overlapping runs: snapshot, row locks one at a
time, lines, sum, commit. `due` and `before` are history.

### ReturnApproval

Approvals step through `approveReturnOnce` from the row as they last read it,
under `GuardContract`; rejections race with them. `onTheWay` counts adjustments
that inventory executes after their sender gave up, `slips` the faults that fell
between restocking and its mark.

### NotificationDelivery

Events look up endpoints, then insert their rows in a later transaction;
`created_at` is fixed at BEGIN, visibility at COMMIT. Workers claim (`Claim` with
`Claimable` is the SELECT with its NOT EXISTS), send, and record. `next` is
`next_attempt_at` as null, past or future, so leases and back-offs are one thing,
as they are in the table. `LeasesHold` says that no lease runs out in the hands of
its worker.

### CatalogPrices

`cache` is Redis for one product: the key of its row and the keys of its prices.
A value is not an amount but what it was computed from: the version of the row, the
version of the active rules, and which of the two rates payments failed to give.
`GetProduct` to `SetPrice` are the commands of `getPrice`, each of its two `withCache`
calls being a look, a load and a store with time in between. A write deletes its keys one
`EvictChunk` at a time, writes, and deletes them again; `createPriceRule` deletes only
the product's key, as the code does. `RuleWindow` is a rule that becomes active or ends by
its dates, without any write. An update may change the currency of the product, so whether rates
are needed is left open. `current` and `ended` date the versions, `left` is history:
what was cached when a write took effect and has not been touched since.

Time is counted in ticks. An entry stored during a tick expires at any moment
of the tick `Ttl` later, and a request lasts at most `MaxRequest`; the service has no such
bound of its own, but the gateway gives a request 5 s.

### Gateway

`req` is where the handler of each request stands; what is sent to a service is in
`fetches`, and stays there when the gateway gives it up after 5 s, asks again (a GET
only) or dies. `executed` counts what the services did for a request, which is what a
client cares about. `Counted` is the Lua script: INCR, and EXPIRE with the first. A restart
of Redis loses keys and counters (docker-compose.yml switches persistence off) and only
the start of the gateway writes the keys again. `passed` and `restarts` are histories
over the last `Window` ticks.

### ServiceShutdown

`index.ts` of every service as a record of what it does on a signal: close pool and
Redis together or in turn, exit by a deadline (catalog, 10 s), handle each kind of signal
once (gateway). `work` is what each connection and the tick of the job are doing, a
"query" being a statement or transaction that holds a client of the pool. `server.close`
and `pool.end` are external.

### OrderReads

One order, its row and shipment, and its two cached forms; `owed` are the writers
whose UPDATE is done and whose deletion is not. A reader looks, loads (a timeline by two
statements) and stores. `old` is how long ago a part of a value was superseded,
`passedBy` whether a deletion came, or was lost, since it was loaded. Returns are created
from an order read through this cache.

### PagedReads

The paged lists of orders, payments, returns, inventory and catalog, as records of
what differs between them: the order of the two statements, whether pages are cached,
whether writes happen, move rows or evict the first page. A client walks from page
to page until the total it was told. `searchList` is a search of the catalog, which asks
for one product to learn how many there are, and then for as many.

### Pricing

`quote` is what is priced; the steps are `computeLocalUnitPrice`, the conversion of a
unit and of the line, and returns of units. Each conversion asks for a rate of its own,
and a call that fails is answered by the rate 0 (`NoRate`); `lost` is history, the conversions
to which that happened. `multiplyCents` rounds a binary fraction, so at a
tie of the exact amounts either side is possible (`Rounded`); `convertCents` rounds half to even
(`HalfEven`).

## Runs

All runs leave deadlock unchecked, as requests are finite and a behaviour may
come to an end with every one of them answered.

| run | constants | shows | states |
|---|---|---|---|
| `saga_faults` | one order, all seven kinds of faults | a sold order has stock and charge; a sale moves forward only; a failed order leaves something open only where a call of its creation or compensation threw; a saga that ends leaves a decided order, but for two throws; the reservation contract | 56 000 |
| `saga_expiry` | two orders; crashes, short stock rows and failing ticks; fair | no stock is held for ever, unless a stock row keeps refusing it or one listed before it | 211 000 |
| `stock_mixed` | 2 rows of a product, a split and a single reservation, 2 sessions, create, commit, release, adjust, transfer | no negative stock; reservations in full; drift only by commits that overwrite what they have not read; the reservation contract | 1 281 000 |
| `stock_pair` | 2 products, 3 competing reservations, 3 sessions, with cycle counts | nothing oversold on rows that no commit has overwritten unread; commits and releases never wait in a circle | 92 000 |
| `idempotency_faults` | 3 callers, 2 faults, fair | every call ends; GuardContract: one run at a time, none after an answer | 71 000 |
| `capture_overlap` | create, 2 captures, void, 2 tries, fair | ledger backed by charges; answers are booked; no charge after an answer; every request ends | 180 000 |
| `capture_twice` | as above, one try | a counterexample: two captures charge twice | |
| `settlement_overlap` | 3 entries, 3 runs, 2 periods | nothing due is left behind; earlier runs keep theirs | 1 067 000 |
| `return_races` | 3 approvals, a rejection, 2 lines, 2 tries, 2 faults | refunded means done; rejected means untouched; restocked once per slip | 152 000 |
| `notify_overlap` | 2 events, 1 endpoint, 2 workers, 2 attempts, a client retry, a fault, fair | single ownership; order and bounded repetition; delivered is final; every delivery ends | 457 000 |
| `catalog_stale` | 1 price key, 1 request and 1 writer at a time, time to live 2, requests 1, payments back at 2, horizon 7 | how old a price may be; how long a price of a lost rate lives; an answered write leaves nothing from before | 1 011 000 |
| `edges` | gateway: 1 request, 2 keys, limit 2, window 3, 2 retries, a Redis restart; shutdown: every service, 2 connections, 2 statements, a late request; reads: 1 reader, 1 tick, times to live 2 and 1; lists: 6 of 8 kinds, 3 rows, pages of 2; prices: 5 rule sets, 4 rates; fair | twice the limit per window and no client shut out; executions agree with answers; a stop in order that ends; timelines agree, outdated values are explained and bounded; a row missed is a write; refunds near charges, or one of the two 0 for a lost rate | 299 000 |

The type invariants are proved, and are in no run.

Why these bounds are enough to be interesting:

- Orders share only the expiry tick and the fate of their process; two cover both, one being
  listed before the other. Everything else about an order happens between its saga, one
  cancellation, one client call and the job, so one order meets all kinds of faults. Charges
  are a set: a second one of the same order is a matter of PaymentCapture.
- Two stock rows are the least in which an allocation is split, a transfer has a
  source and a destination, and locks can be taken in two orders. Three sessions
  and three reservations are the least circle that is not a mere pair.
- Three callers are an owner, one who overtakes, and one who comes late. Two faults
  allow a crash and then a rejected release.
- Two tries per post or adjustment are one that is given up and one that follows.
  The code has 4 and 3; a further try behaves as the second. One try per attempt in
  `notify_overlap` leaves the retry to the attempts, of which there are two.
- One request at a time is enough for the oldest price there is: it comes from a request that
  stored an old product and a later one that used it. The horizon leaves room for both and
  for the bound 2 * (Ttl + MaxRequest) to be exceeded. More requests, keys and writers are
  covered by the theorems.
- One request in the gateway is enough for what a client is told, since requests meet only in the
  counter of a key, and a slot is used again at once: a window sees any number of them. A
  limit of 2 and a window of 3 ticks leave room for two windows and a restart in one count.
- Two connections and the tick are what a shutdown waits for, one after the other and at the same
  time. A single reader of an order is enough for the age of what it is answered; readers meet
  only in the cache, which others may have filled in the same way before.
- Three rows in pages of two are two pages, one of them not full, and a row to come, leave or move
  between them. Of lists that behave alike one was taken.
- The prices hold every halfway case: 15 cents at a third, tiers of 97 and 95, rates of 1/2,
  3/2 and 15/8; prices of 0 and 1 cent are the least.
- MaxFaults, MaxRequeues, MaxOnHand, MaxQty, MaxVersion, MaxRestarts, MaxLate, MaxStatements,
  MaxReturns and Horizon bound what an environment may do, not what the code does.

### Fairness

Assumed of what runs by itself: a handler goes on (Node runs ready continuations,
and every remote call has a time-out), a service answers the requests it received,
timers tick, a worker is restarted, time passes. Never assumed of clients, of faults,
of the release of a lock by its time to live, or of a client's retry.
`StockNotHeldForever` needs the weak fairness of `ExpiryTick`, that is of the `setInterval`
in `expireReservations.ts`, and the strong fairness of `ExpireReservation`: ticks that end early
disable it again and again, and what is assumed is that their statements do not throw at the same
reservation every time. Stock rows are assumed nothing of; the property itself speaks of
reservations that no short row stands before in the end (`NothingInTheWay`);
`EveryDeliveryEnds` that of `WorkerStep` (`setInterval` in `deliveryWorker.ts`) and
of the clock; `LimitReopens` that of the gateway's handlers and of the clock;
`ShutdownCompletes` that of handlers and ticks, of the end of idle connections and of
the steps of `shutdown`. That a placed order is decided at all is not claimed: nothing in the
code resumes a saga after a crash. `EndsDecided` speaks of the step in which one ends.

## Proofs

Every invariant, action property and refinement that a passing run checks is the
statement of a theorem, for every value of the constants that the assumptions named in
the modules allow. These give types and disjointness of the constants, and that periods,
limits and times to live are not 0; of sizes they say only that a list of PagedReads has
finitely many rows to come (`PagedReadsAssumption`), as a table has. The sets of sessions,
callers, requests, workers, readers and orders may be infinite. What is said of ages holds
of requests that last at most `MaxRequest` (or `MaxPageRead`), and what is said of the
hands of workers while leases hold (`LeasesHold`); TLC makes the same assumptions.

| module | theorem | states |
|---|---|---|
| OrderSagaProofs | `TypeCorrect`, `SoldCorrect`, `CancelCorrect`, `SoldForGood`, `CancelNeverSucceeds`, `DecidedAtTheEnd`, `NothingLeftOpen`, `SagaRefinesContract` | sold orders are covered, stay sold and ship stage by stage, cancellations work on confirmed orders, none ever succeeds, a saga that ends leaves its order decided, but for two throws; what stays open behind a failed order was left by a call that threw; the reservation contract |
| InventoryStockProofs | `TypeCorrect`, `StockCorrect`, `ReservationsFit`, `HoldsWhatWasAsked`, `OthersDoNotDrift`, `SettlersDoNotDeadlock`, `StockRefinesContract` | no negative stock; without adjustments and transfers what was promised is in stock, except on rows overwritten unread; a reservation carries in full what was asked; only commits that overwrite what they have not read make stock and books drift apart; commits and releases never wait in a circle; the reservation contract |
| IdempotencyProofs | `TypeCorrect`, `MutualExclusion`, `LateCallsReplay`, `NoStrayLock`, `GuardImplementsContract` | everything about the guard but liveness |
| PaymentCaptureProofs | `TypeCorrect`, `LedgerCorrect`, `AnswersAreBooked`, `LateCapturesChargeNobody`, `DecidedForGood` | every safety property of the run, and that a decided intent is never decided again |
| ReturnApprovalProofs | `TypeCorrect`, `RefundedCorrect`, `RejectedCorrect`, `RestockedCorrect` | every property of the run |
| CachedReadsProofs: CatalogPrices | `TypeCorrect`, `PricesAreRecent`, `ZeroPricesAreGone`, `AnsweredEvicts` | every property of the run |
| PagedReads | `PagedInvariant`, `PagedTypeCorrect`, `MissesCorrect` | a row that a walk misses is a write |
| EdgesProofs: Gateway | `GatewayTypeCorrect`, `ExecutedCorrect`, `PassedCorrect` | what a client is told bounds what was executed; twice the limit passes in the length of a window, and once more for each restart of Redis |
| ServiceShutdown | `ShutdownTypeCorrect`, `StopsInOrderCorrect` | no service stops under its requests |
| OrderReads | `OrderReadsTypeCorrect`, `TimelineCorrect`, `RefundsOnlySoldCorrect`, `RecentCorrect`, `OutdatedCorrect` | timelines agree; returns are of sold orders only; no answer is older than its cache and one read; what is outdated is so for a reason |
| Pricing | `PricingTypeCorrect`, `RefundCorrect` | a refund is within half a cent a unit of its charge, and half a cent, unless one rate of two was lost |
| SettlementRun | `SettlementTypeCorrect`, `AllDueAreSettled`, `EarlierRunsAreKept` | completeness and separation of runs |
| NotificationDelivery | `DeliveryTypeCorrect`, `HeldByOne`, `ReceivedCorrect`, `DeliveredStays` | a delivery is in one worker's hands; order and bounded repetition of what an endpoint gets; delivered is final |

The arguments:

- *OrderSaga.* That a sold order is covered is not inductive: `markConfirmed` only
  knows what answers told it. `IInv` says what each answer and each request in flight
  means: a request a saga waits for is the one its position names (`PlaceCalls`), a
  charged request and a succeeded intent mean a charge (`ChargesCounted`), and a saga
  at `commit` or `markConfirmed` has seen a charge, at `markConfirmed` a commit
  (`SagaKnows`). Late requests cannot hurt, since inventory never leaves `committed` and
  charges are never taken back. The same invariant shows that a cancellation only
  ever asks for a release that is refused (`CancelCalls`, `CancelGetsNothing`). `OrderStep` sums up what a step can do to one order;
  with `ShipmentInv`, no shipment without a shipped order, it gives `SoldForGood`. `OpenInv` is a second
  invariant, about what may be open behind a saga: a request that has not thrown is waited for or belongs to a saga
  that crashed (`Waited`), what the saga does not remember it has not created, or the creation threw (`Owns`), and
  each step of the compensation finds settled what the steps before it were to settle, or one of them threw
  (`Clears`). It gives `NothingLeftOpen`, with no assumption about the faults. `DecidedAtTheEnd` goes over the
  steps that end a saga.
- *InventoryStock.* The invariant bounds every version of a row a session may see,
  committed or its own, and what `commitReserved` has read: the quantities were compared
  with that version, so what it writes is not negative even when it is out of date. The
  contract follows from the row lock on the reservation (`OwnerInv`). For the books, `BookInv` says of
  each session how much of every product it has planned, what its lines add up to, that an uncommitted
  version differs from the committed row by exactly what was written (unless it is a commit's, which was computed
  from an older row), and that no row has uncommitted versions of two sessions (`OneLock`). It gives
  `ReservedInFull` and `OnlyCommitsDrift`: a commit that found its rows as it had read them writes
  what a relative UPDATE would. By induction a row that was never overwritten unread has reserved exactly what its
  pending lines add up to (`RowsInStep`), and with reserved <= on_hand, a part of `IInv`, that gives
  `NeverOversold`. Its part `InOrder`, a settlement has
  locked only rows before those it still has to write, turns a circle of waiting sessions into one of
  rows, each strictly before the next in the order of `listLines`; there is none.
- *Idempotency.* A caller in the section that may still run or store owns the lock, and
  once there is an answer there is a stored result (`LockInv`, `StoredInv`), which every
  call that arrives later reads first (`ArrivedInv`). The refinement maps a caller that
  stored its result to `running` until it has released the lock.
- *PaymentCapture.* A try of a post exists only for a charged capture and is done only
  if the row is there (`BookInv`); an answer that tells what became of the intent means a
  decided status (`DecidedInv`), so a later request never reaches the provider.
- *SettlementRun.* Whatever a run saw but does not take was settled when it looked, and
  lines are never removed (`SnapshotInv`).
- *ReturnApproval.* The guard lets one approval run at a time (`StagesMatch`), so the stage of that
  approval and the marks of the row together say what stock and ledger hold (`AtStage`, `RowSays`), and until a
  return is approved nothing was done about it (`UntilApproved`). That is `ReturnInv`. `CountInv` adds
  up adjustments, executed and on their way, per line: one if the row or the running approval is past the
  line, and one for every slip.
- *Gateway.* `SlotInv` counts per slot what was and may still be executed against the
  tries the handler has made. The limit per window is not inductive, since windows of the counter and
  stretches of the same length overlap. `RateInv` speaks of the last n ticks for every n: what passed in them is what
  the present window counted and one allowance for each window that ended within, by its time or
  by a restart, and for a window older than n ticks the count alone.
- *ServiceShutdown.* `ShutdownInv` says that nothing is closed before the server has closed and
  that then no connection is open; a pool has ended only without a statement in progress.
- *OrderReads.* For timelines the
  second statement is the one for the shipment, which is written in the transaction that makes the order
  shipped and never taken back, so what the first statement saw as shipped has a shipment in the second
  (`SoldStays`). For ages `FreshInv` follows a value: in a reader's hands it is outdated for no longer than the read has
  taken; in the cache how long it has been outdated and how long it will be kept add up to at most
  a time to live and a request. A value that the rows have left behind has a writer that still owes a deletion, or a deletion
  passed it by.
- *Pricing.* `RefundCorrect` is arithmetic: unit price and line total are each within half a cent of an
  exact amount, the first times the quantity (`RoundedApart`). The invariant keeps which rate each was
  converted at (`RateUsed`): the same one when both calls or neither were answered; otherwise one side is 0.
- *CatalogPrices.* A cached entry carries the moment it expires, so what it was computed from is
  at most a time to live and a request old; what a reader holds is at most a request older than
  where it came from. `AgeInv` states both for products and prices, which makes the bound of a
  price twice that of a product. `EvictInv` says that what a write has left behind is among the
  keys it still has to delete.
- *PagedReads.* For lists with cached pages, `CachedListInv` says how old a page and what a reader loaded can
  be; once nothing has been written for that long, every page is a slice of the table as it is, and a walk has seen
  exactly the rows before its offset. For the others `LostInv` bounds, by the writes since the walk began, the
  rows that were there all the time and now lie where the walk has passed: a
  row that comes, leaves or moves shifts at most one row across that border, whichever of the two statements of a
  page comes first.
- *NotificationDelivery.* Unless a client retried it, a delivery in hand is in one worker's and leased
  (`HeldInv`). Behind a delivery that was ever claimed no older one of its endpoint waits, but for late commits, lost
  answers and client retries (`OrderInv`). `SendInv` counts what was received, what workers may yet send of
  this attempt and what one more claim would send: together they are paid for by attempts, faults and retries.
- *FiniteSums.* The library's induction over finite sets takes an operator that the provers cannot
  instantiate. What holds of every sum is shown by a smallest set for which it does not hold (`SmallestSet`, from the
  well-foundedness of the strict subset relation): sums exist, may be taken in any order, and change by what
  one value changes.

Only model-checked is liveness, which the prover does not reach under fairness, and with it
anything about ENABLED: `StockNotHeldForever`, `EveryCallEnds`, `EveryRequestEnds`,
`EveryDeliveryEnds`, `LimitReopens`, `ShutdownCompletes`. `ChargedOnce` is refuted by a run.

## Where the code differs from what is said about it

`capture_twice` is a run of its own. The others are stated in the modules with the
sentence they come from, at the end of the properties, and can be seen by giving the
definition to TLC as an INVARIANT or PROPERTY with the constants named here.

| definition | said in | what happens | constants |
|---|---|---|---|
| `ChargedOnce` (PaymentCapture) | docs/contracts.md, capture is idempotent per key | both keys hold the time of the request, so each capture charges | run `capture_twice` |
| `ChargeIsRecorded` (PaymentCapture) | docs/contracts.md, records an attempt | two captures compute one attempt number, the second INSERT does nothing | those of `capture_twice` |
| `SuccessIsBooked` (PaymentCapture) | docs/contracts.md, posts a ledger entry on success | the post fails after the status was written; the next capture is answered without one | those of `capture_twice` |
| `FailedOrderIsUndone` (OrderSaga) | README.md, reservations released and intent voided on any failure | a capture or commit that timed out takes effect after the compensation, or the void of a captured intent is swallowed | one order, `{"timeout"}` |
| `CancelIsNotRefused` (OrderSaga) | cancelOrder.test.ts, compensates and marks cancelled | the reservation of a confirmed order is committed; its release is refused | one order, no faults |
| `CommittedLeavesStock` (InventoryStock) | docs/contracts.md on commit | two commits read one version of a row, one update is lost | `SingleWanted`, `SingleStock`, one row, two sessions |
| `RunsOnce` (Idempotency) | docs/contracts.md, runs once per key | result stored and lock released between a caller's look and its SET NX | two callers, no faults |
| `CollectedOnce` (SettlementRun) | comment in settlementsRepo.ts | NOT EXISTS is evaluated before the wait for the lock | `TwoEntries`, `TwoRuns`, `OnePeriod`, `AmountOfTwo` |
| `RestockedOnce` (ReturnApproval) | docs/contracts.md, restores inventory, idempotent | an adjustment whose answer is lost is executed again | one approval, one fault |
| `CreatedRuleShows` (CatalogPrices) | synthetic-monitor's priceRuleMutation.ts:30-36, creates a rule and expects its price | createPriceRule deletes no price, so a cached one is served for its time to live | those of `catalog_stale` |
| `PricesArePositive` (CatalogPrices) | synthetic-monitor's priceLookup.ts:19, an alert on a price of 0 | a rate that cannot be had is taken as 0, and the price is cached | those of `catalog_stale` |
| `TotalsAgree` (CatalogPrices) | priceService.ts:30, the line total is the unit price times the quantity | the rate is asked for twice; one answer may be lost | those of `catalog_stale` |
| `ConfiguredKeysPass` (Gateway) | docs/contracts.md:236, checked against seeded keys in Redis | a restart of Redis loses the keys, and every request is refused until the gateway restarts | those of `edges` |
| `TicksComplete` (ServiceShutdown) | nothing; the job's side of a shutdown | nobody waits for a tick: pool and process end between its statements | those of `edges` |
| `ShippedShowsEverywhere` (OrderReads) | nothing; what a client would expect of two reads | the timeline is cached apart from the order and may be older | those of `edges`, two readers |
| `ReturnedWithinOrdered` (OrderReads) | nothing; the check in refundCalculator.ts:46 for several returns | each return is compared with the order line alone | those of `edges`, two returns |
| `OldRowsAreFound` (PagedReads) | docs/contracts.md, lists of `{items, total}` | a row leaves an earlier page and the next one moves to a page already read; a search gets new rows between its queries | those of `edges` |
| `RefundWithinCharge` (Pricing) | nothing; a refund that exceeds the charge | unit price and total are rounded apart: three units of 1.5 cents cost 4 and come back as 6; a total converted without a rate is 0 | those of `edges` |
| `RequeuedIsSent` (NotificationDelivery) | docs/contracts.md, retry requeues a failed delivery | attempts are not reset, so a used-up delivery is never claimed | one event, one worker, one client retry |

Four properties are bounded by what the code cannot keep, and TLC refutes each of them without its
exception:

- `EndsDecided`: a throw between the committed INSERT and the `try` block (orderRepository.ts:170,
  placeOrder.ts:45) leaves a pending order that no saga goes on with.
- `FailedLeavesNothingOpen`: a release that is refused or lost ends the compensation before the void
  (compensation.ts:25), a void that fails is swallowed, and an intent whose creation was answered by an error
  is never remembered: each leaves something open behind a failed order.
- `StockNotHeldForever`: a row that a lost update has left short refuses the release of a reservation, whose throw
  ends every tick, before the reservations that expired later are reached (reservationService.ts:171-173).
- `NeverOversold`: two units, r1 holds one; the commit of r1 reads the row, r2 is given the other, the commit
  writes (1, 0), and r3 is given what r2 holds.

Smaller things met while reading, which no property is about:

- `transferStock` and `recordCycleCount` delete a cache key inside the guarded function, after
  their COMMIT (stockOperationsService.ts:53): if Redis refuses, the guard keeps no result and a
  retry moves the stock again.
- The deletion of cached orders at placeOrder.ts:109 is outside the `try`, too: a Redis that refuses it
  fails a request whose order is confirmed.
- A second signal makes `pool.end` reject, which ends the process before the first shutdown is done; the
  gateway's second signal ends it at once.
- The first page of low stock is evicted for the default query only; the other pages and filters keep theirs.
- `buildCategoryTree` leaves out categories that are their own ancestors.
- Creating a return is not under the idempotency guard, unlike approving one.

## Not modelled

- Notes of an order: one value in Redis, replaced as a whole under the idempotency guard.
- Ranking, facets and category trees of the catalog, exports and reports as texts and sums: computed
  from the answer of one query, by code that keeps no state. Validation and mapping of requests, error
  formats, logging, configuration.
- Reads of a single row without a cache. Exchange rates are never written by a service, so the cache
  in front of one cannot be stale.
- The creation of a product, whose keys nobody has read; of a webhook endpoint; of a stock row by a
  transfer.
- Amounts where no step depends on them: what an order or a settlement amounts to. Pricing has the cents of
  one line.
- The synthetic monitor, seed data and migrations, which are not part of the running
  system. The schema is used for initial states and constraints.
- Expiry of stored results after a day, and of a lease in the hands of its worker.

## Plan

Done: the saga with shipments, stock, the guard, payments, settlement runs, returns, notifications,
the price cache, the gateway, shutdown, order reads, lists and price arithmetic, with proofs of
all safety properties.

1. *Retried operations of inventory.* Transfers and counts over GuardContract, as ReturnApproval is, with
   the failing deletion named above as a finding.
2. *Proofs.* How far one commit can move a row away from its lines and movements: by what others committed
   to it between the SELECT and the UPDATE. That it is not at all if there was nothing is proved.
3. *Composition.* The saga over the statement-level InventoryStock is more than TLC can
   explore; the two refinements of ReservationContract are kept in step instead. A contract of an
   intent would do the same for PaymentCapture and the payments half of OrderSaga, and one of a
   read-through cache for CatalogPrices and OrderReads.
