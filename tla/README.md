# A formal model of the e-commerce backend

The program under `src/` is a NestJS backend for a small shop: users with
points, products with stock, coupons, orders and payments. Data is in MySQL
(TypeORM), in Redis (coupon queues and counters, locks, caches, rankings) and in
two Kafka topics. Several processes may serve requests on the same stores. This
directory holds TLA+ modules of its concurrent core, TLC configurations that
check them on small instances, and TLAPS proofs.

## 1. Inventory

| Component | Code | State | Operations | Hard behaviour | What makes it correct |
|---|---|---|---|---|---|
| Coupon issuing | `coupon.service.ts`, `issue-coupon.use-case.ts`, `main.ts` | Redis `coupon:stock/queue/issued/rank/endtime:<type>`, tables `coupons`, `ranking_logs` | `issueCoupon` (12 awaits), ranking log by `setImmediate`, bootstrap | requests between every two awaits, a call that fails halfway, restart | no more coupons than stock, the counter never drifts, "sold out" is true |
| Issuing over Kafka | `issue-coupon-async.use-case.ts`, `kafka-coupon-*.service.ts` | topics `coupon-issue-request`, `-response`, committed offset | send, consume, answer | duplicates, redelivery, rebalance, no committed offset, rejected answer | served in order, truthful answers, every request answered |
| Payment and points | `process-payment.use-case.ts`, `payment.service.ts`, `user.service.ts`, `order.service.ts` | tables `users`, `orders`, `payments` | pay, charge | blind overwrite of stale reads, failure between two saves | one deduction per order, `PAID` is backed, the balance is a ledger |
| Payment delivery | `payment-events.handler.ts`, `kafka-producer/consumer.service.ts`, `data-platform.service.ts` | event in memory, topic `payment-completed`, offset | publish, consume, forward | event lost with its process, duplicates | only paid orders are reported, each once, each in the end |
| Order and compensation | `create-order.use-case.ts`, `product.service.ts`, `event-bus.ts`, `order-created/order-failed/payment-failed.handler.ts` | tables `products`, `coupons`, `orders`, `product:ranking:<day>`, timers in memory | create, ten minute timer, two compensations | partial reservation, stale reads, an unhandled rejection ends the process, timers die with it | stock ledger, coupon spent once, expired orders released |
| Locks | `redis-distributed-lock.service.ts`, `optimistic-/pessimistic-lock.interceptor.ts` | the key in Redis, a map in each process | acquire, retry, release, `isLocked` | expiry under a slow holder, deletion of another's key, rejected commands | mutual exclusion, no waiting for ever, no key kept by one that has ended |
| Read caches | `get-user-points`, `get-product-detail`, `get-products` use cases, `product.service.ts`, `user.service.ts` | `user:points:<id>`, `product:<id>`, `products:all` | read through, save and delete, reserve | a late fill, a swallowed failure of a deletion | no value older than the last invalidation; what is stale has a cause |
| Ranking | `create-order.use-case.ts`, `payment-failed.handler.ts`, `get-top-sellers.use-case.ts` | `product:ranking:<day>`, `product:ranking:3d` and their TTLs | count, uncount, nightly clean-up and recalculation | midnight between two awaits, several jobs, missed jobs | the window is kept, counted, and forgotten in time |
| Transaction and DB-lock interceptors | `transaction.interceptor.ts`, `db-*-lock.interceptor.ts` | none in force | | | see "Decorators" below |
| Registration, login, tokens | `auth.service.ts`, `register/login/validate-token` use cases | table `users` with its unique `email`, the id in a token | register, log in, validate, expire | two registrations of one address, a failure between row and token | an address has one account, a token leads to its owner's row |
| Start-up and seeder | `main.ts`, `seeder.ts` | tables `users`, `products`, `coupons` under fixed ids, `coupon:stock:<type>` | wait, seed, set the counters, fail, crash | several processes seed at once, an error is swallowed, counters are set while requests run | no row is lost but to a seed, nothing is reset, the counters follow the seeds |
| Amounts | `calculateDiscount`, `validateOrderAmount` | none | pure functions | rounding, a fixed coupon worth more than the order, a free order | a discount is within the total or fixed; an order never costs less than nothing |
| Controllers, DTOs, configuration, sales aggregation, load tests, Kafka examples | | | | | not modelled: see section 6 |

Interaction: a use case calls services; services call repositories and Redis,
one awaited call at a time. Use cases publish events on an in-memory bus whose
handlers compensate, start timers or send to Kafka. Consumers in the same
processes call services again. At start a development process writes rows and
counters that the requests of the processes already up are using. Everything that two requests share is in MySQL,
Redis or a topic.

**Decorators.** `@Transactional`, `@OptimisticLock`, `@PessimisticLock` sit on use
cases and repositories, while the interceptors are global Nest interceptors that
read the metadata of the *controller method* being called. No decorated class is
a controller, so no lock and no transaction is in force: every statement commits
on its own, and `save()` writes what was computed from an earlier read without
comparing the version column. The models of coupons, payments and orders take the
code as it runs. `RedisLock` models the interceptors as they would work around a
decorated controller method.

**Conventions of all models.** A request is a process; each await of a repository,
Redis or Kafka call is one atomic step, and everything between two awaits belongs
to a step. A call may be rejected without effect; a call whose effect happened and
whose reply was lost is the step followed by the failure of the next one. Where a request
has no next call, the reply is a step of its own (`"reply"` in `Payment`), and where the failure of
the next one would do something else, so is the call without reply (`ReplyLost` in `OrderSaga`). Logging,
HTTP texts and ids are left out. Histories (variables marked `history`) are read by
properties only.

## 2. Modules

| Module | Models | Composition |
|---|---|---|
| `CouponQuota` | abstract: a quota of units, granted while there is one | |
| `CouponIssue` | issueCoupon and its Redis and MySQL state | implements `CouponQuota` |
| `CouponKafka` | producer, one partition, consumer group, answers | extends `CouponIssue` |
| `PointsLedger` | abstract: balances, what was put in, booked charges, paid orders, users whose requests overlapped | |
| `Payment` | payments and charges, one step per repository call | implements `PointsLedger` |
| `PaymentDelivery` | completed event, topic, consumer, data platform | extends `Payment` |
| `Pricing` | totals, discounts, amounts an order may have | |
| `StockRoom` | abstract: stock, supply, items taken and given back, placed orders, products whose readers overlapped | |
| `OrderSaga` | order creation, bus, timer, both compensations | extends `Pricing`; implements `StockRoom` |
| `Lease` | abstract: holders, the one whose lease it is, whether a lease ever lapsed | |
| `RedisLock` | lock service and interceptors | implements `Lease` |
| `CacheAside` | three cached reads and their writers | |
| `ProductRanking` | daily and three-day sorted sets | |
| `Tables` | rows with a generated id and a natural name, as TypeORM inserts and updates them | |
| `Accounts` | registration, login, tokens | extends `Tables` |
| `Seeding` | bootstrap, seeder and stock counters, several processes, crashes | extends `Accounts`; issuing as far as it touches counter and table |
| `IssueSeeding` | the two models of coupons side by side | extends `CouponIssue`, `Seeding` |
| `CouponIssueProofs`, `CouponKafkaProofs`, `PaymentProofs`, `OrderSagaProofs`, `RedisLockProofs`, `CacheAsideProofs`, `SeedingProofs`, `ProductRankingProofs` | theorems (section 4) | each extends the module it is named for; `CouponKafkaProofs` extends `CouponIssueProofs`; `SeedingProofs` extends `IssueSeeding` and `CouponIssueProofs`; `PaymentProofs` covers `Payment` and `PaymentDelivery`, `OrderSagaProofs` also `Pricing` |
| `MC*` | constants for TLC | extend the above; `MCIssueSeeding` gives `IssueSeeding` its constants |

State and actions keep the names of the code where they can. The notable
correspondences:

* `CouponIssue`: `pc` names the Redis command or repository call a request awaits;
  `IssueStep` is `issueCoupon` from `checkCouponAvailability` to `finalizeUserRank`.
  `unit` is the sign of `remaining` after DECR and whether INCR gave it back.
  `stamp` is `Date.now()`, read a turn before the ZADD arrives, so scores may tie and
  overtake each other. A type without stock key is `InitStock = 0`. An operator sets
  `coupon:endtime`, so it is part of the environment (`Timed`). `Development` makes a
  bootstrap reset the stock, as `main.ts` does with `NODE_ENV=development`.
* `CouponKafka`: a request of `CouponIssue` is one delivery `<<m, n>>` of a message.
  A consumer without committed offset starts at the end (`fromBeginning: false`).
  `zombies` are deliveries a consumer still works on after it lost the partition.
  The ranking log, which no step reads, is left to `CouponIssue`.
* `Payment`: `readPoints` and `seenStatus` are the locals the code checks and writes
  back; `payments.orderId` is unique because of the one-to-one relation. `"reply"` is a request
  whose last UPDATE has committed: it is answered (`Answer`), or it fails or dies there and leaves a `PAID`
  order behind an error or no answer at all.
* `PaymentDelivery`: assumes a bus that reaches the handlers, as
  `kafka-payment.integration.spec.ts` injects it. The event is published in the turn that answers the
  request, after the reply of its last UPDATE; a process that dies between the two leaves a `PAID` order without
  event, and nobody publishes it later. The payment consumer reads from the
  beginning without a committed offset. A refusal by the platform (one in twenty in
  the mock) is logged and the message skipped: `dropped`.
* `OrderSaga`: the wiring of the bus is chosen initially. `"AppModule"` is the
  program as it is (handlers filed under the `name` of a string, on another bus
  instance); `"SharedBus"` is what the handlers and tests are written for. Amounts
  are computed from `price` and the type of the coupon by `Pricing`; whether the points
  suffice is a choice (the balance is in `Payment`), and paying is one step by a `Payer`. `died` is a process ended by a
  crash or by the unhandled rejection of a handler. PaymentFailed events that are no
  timeouts only log. `ReplyLost` is a coupon or an order that is saved while the request takes it for failed,
  so `OrderFailedEvent` names an order that exists. Requests that `validateOrderItems` refuses are left out, with the
  compensation a delivering bus would start for them.
  A compensation gives back all items its event names; `OrderFailedEvent` of an order that
  failed half-way names also those that were never taken, so with a delivering bus the stock
  then grows. `StockRoom` promises no better.
* `PointsLedger`, `StockRoom`, `Lease`: the abstract variables are computed from those of the
  detailed module by `INSTANCE ... WITH` (`Ledger`, `Room`, `Lock`). Overlap is part of what
  they promise: `contended` is the `raced` of the detailed module, `lapsed` its `lostKey`. While
  it is false of a user or product, a step changes the balance or stock by exactly its amount;
  afterwards only the bounds are promised, no less than 0 and no more than came in.
* `RedisLock`: `lock` is the key with, for the properties, the request that set it.
  `probe` runs `isLocked`, whose test of PTTL takes -1 for "no such key" and -2 for
  "no expiry", the reverse of Redis. `LocalTimeout` leaves on elapsed time alone, also when the
  map has just become free, and a key may expire at any time after its SET.
* `Pricing`: `Math.floor(total * (rate / 100))` is integer division: for the four rates
  and totals that fit an int column the floating-point product is an integer whenever
  the exact one is. A fixed amount is not capped; `validateOrderAmount` refuses the order
  afterwards, when the coupon is already spent and the stock taken.
* `CacheAside`: a row is the number of times it was saved; a cached value is the rows
  it was made from. `overtaken` marks a reader whose key was deleted after it read the
  database and before its SETEX. `promised` keeps, for each key, the newest row for which it
  was deleted. The category and top-seller keys have no writer.
* `ProductRanking`: a sale is one item of an order. Order and handler take the date once, before
  their loop, so an item may be counted in, or taken from, the set of the day before when midnight has passed
  since (`DateTaken`). A restore on a later day takes from that day's set. No loop lasts a whole day.
* `Tables`: a row is its natural name (an address, a product's name, a user with a coupon
  type), its writer, and whether it has been used (points spent, stock sold, coupon used).
  `Insert` draws from AUTO_INCREMENT, which a duplicate name uses up as InnoDB does;
  `InsertWithId` is TypeORM's `save` of a row that brings its id and moves AUTO_INCREMENT
  behind it; `UpdateById` writes every column of the row that has the id, whoever it
  belonged to. `drawn` is the history of names for which an id was drawn.
* `Accounts`: `save` of a registration comes after `findByEmail` and the hashing, so two may
  pass; the unique index then refuses one. A refresh makes new tokens from the old one
  without reading the table, so a session is one state, `"in"`, that ends. A failure of
  signing leaves the row behind.
* `Seeding`: `BootStep` is `bootstrap` of one process with its three seeding loops and
  `initializeCouponStock`. `save` of a seed is two steps, a SELECT of its id (`LoadSeed`) and
  the write (`WriteSeed`). `SeedingFails` is an error at any point, which `main.ts` logs before
  it listens all the same. An issuing request is `TakeUnit`, then `InsertCoupon` or
  `ReturnUnit`; what else it does is in `CouponIssue`. `raced`, `sets` and `late` are histories.

## 3. Runs

All runs pass `CHECK_DEADLOCK FALSE`: requests end, bounds run out, and the system
may then stop. State counts are distinct states.

| Run | Instance | Shows | States |
|---|---|---|---|
| `coupon_issue` | issuing: 3 requests, 2 by one user, 1 unit, a restart, failing calls, issuing may end. Seeding: 2 clients of one address or two, one of them a seed's; 4 seeds; 3 requests; 2 starts of one process or two | counter accounting, no oversell, truthful "sold out", Redis and MySQL agree, refinement of the quota; accounts, rows, counters and uses survive starts and crashes | 1411k |
| `coupon_kafka` | 2 messages of 2 users, 1 unit, one duplicate, restart or rebalance, one failing delivery, issuing may end | order of service, no second unit for a holder, truthful success, every request answered | 636k |
| `payment` | 2 orders of one user, 3 payments, 1 charge, balance for one, a restart or a duplicate | one deduction per order, `PAID` backed also when the last reply is lost, refinement of the ledger across the restart, delivery | 1046k |
| `order_saga` | 2 orders over 2 products with one coupon of 2000, one order worth more and one worth less, both wirings, ample and short stock, a crash | refinement of the stock room, coupon spent once, backed orders with a valid amount, release on expiry | 292k |
| `lock` | 2 pessimistic requests in one process, 1 optimistic in another, a caller of `isLocked`, a crash | refinement of the lease: exclusion until a key is lost; nobody waits for ever | 753k |
| `cache` | 4 requests of every combination of tasks, 1 user, 1 product | freshness but for overtaken readers; whatever is behind the database has one of four causes | 524k |
| `ranking` | 2 sales, 1 product, 1 process, 6 days | window covered, kept and forgotten | 900k |

`coupon_issue` checks `CouponIssue` and `Seeding` in one run: `IssueSeeding` chooses a `part`
initially and a behaviour is one of either (`MCIssueSeeding` fixes the addresses where nobody registers). They share no variable; what they have in
common in the code is the counter and the table `coupons`, which `Seeding` models for the
starts and `CouponIssue` for the calls.

`LedgerExactUnlessRaced`, `StockLedgerUnlessRaced` and `ExclusiveUnlessExpired` are proved (section 4) and checked by
no run of their own: they are what `ImplementsLedger`, `ImplementsStockRoom` and
`ImplementsLease` come to when every step is a step of the abstract module, and the runs check
those, with what the invariants leave out: that a step changes one user or product only, that
items come in order, that a balance or a stock stays in bounds even after a race.

Violations, each a disagreement between code and a text of the repository
(`PROJECT.json` quotes the line):

| Run | Property | What happens |
|---|---|---|
| `coupon_duplicate` | `OneCouponPerUser` | both requests of a user pass the checks before either ZADD |
| `payment_retry` | `FailedPaymentCanBeRetried` | the SUCCESS row stays after a later failure, and its unique order id refuses every retry |
| `order_unwired` | `UnpaidOrderIsReleased` | with the bus of `AppModule` no timer is ever armed |
| `product_cache_stale` | `OrderRefreshesProduct` | a reservation leaves the cached product as it was |
| `ranking_window` | `OverallIsWindow` | every night adds three days onto the set of the night before |

**Why the bounds are enough.** The hazards are races of two actors, with one more
that observes or fails. Three coupon requests give a winner, a loser inside the DECR/INCR
window and a third who sees its over-decrement; two of them by one user race for the
queue entry. One mishap is enough for a redelivery, and each mishap finds every
prefix of the log. Two payments of one order and one of another overlap in the
balance; a third order touches other rows only. Two orders overlap on a product and a
coupon, one of them over two products so that it may be reserved in part. In the cache
two writers and two readers of one key are the smallest set with a late fill, its
deletion and another late fill. Six days let a day leave the window, be deleted by
the job of the fourth night or expire. Two starts seed at once, one after the other, or
again after a crash; with four seeds of three tables each loop of the seeder ends and two seeds
of one table meet the ids that two registrations draw; a third request finds the counter
of a second start. Bounds in the modules are named: `MaxRestarts`,
`MaxDeliveries`, `MaxErrors`, `MaxMishaps`, `MaxCrashes`, `Ticks`, `Payer`, `LastSale`,
`LastDay`, `MaxId`, `MaxBoots`, `MaxRequests`, `Watched`. `OldDayGoes` speaks only of days whose five days lie within `LastDay`.

**Fairness.** Safety runs assume none. `CouponKafka`: weak fairness of what the consumer
that holds the partition does next (kafkajs polls for ever, an await ends); restarts,
commits and producers are not fair. `PaymentDelivery`: the handler of an event and the
consumer. `OrderSaga`: each request and each handler continues, and a timer fires
(`setTimeout`); customers need not pay. `RedisLock`: each
request's commands are answered or rejected, its pauses and polls end; nothing is assumed of the handler, which the
interceptor awaits without a limit, nor of the expiry. `CacheAside`: none. `ProductRanking`: days pass, started work ends, keys
expire; that the nightly job runs is *not* assumed.

**Qualified properties.** Several properties hold "unless raced", "unless overtaken" or "while
there was no rebalance". The qualification is the strongest statement true of the
code: the unqualified one fails because updates are blind overwrites without
locks. The `raced` histories mark only overlaps that can really lose an update, and
mutants of the code outside such races violate each property. In `Seeding` the same holds of the
qualifications "unless a seed takes the id", "unless two processes seed at once" and of `late`
in `IssuedPerBootstrap`: a request that was short when a start set the counter adds a unit
that nobody had taken.

## 4. Proofs

`CouponIssueProofs` proves, for any finite sets of requests and users, any types, stocks
and number of restarts:

* `TypeCorrect`: `TypeOK` always, with no assumption on the configuration. The interesting part is
  that a rank is below the number of users (`RankBound`).
* `QuotaInvariant`: the inductive invariant `IInv`. `NoOversell` is not inductive: it needs that a
  coupon is saved only by a request that holds a unit (`UnitMatchesPc`), that the units held never
  exceed the stock (`WithinQuota`), and for that, that the counter is the stock less what
  is held (`StockAccounting`). `SoldOutOnlyWhenAllTaken` is part of it: a DECR that finds the counter
  below zero finds either all units taken, by arithmetic, or another loser, for whom the
  invariant said so already.
* `CounterIsAccounted`, `SoldOutIsTrue`, `NeverOversold`: the properties of the same runs, from `IInv`.
* `IssueImplementsQuota`: every step maps to a grant, a refusal or a stutter of `CouponQuota`.
* `QueueIsServed`: `QueuedOnlyWhileServed`, which is inductive with the types: ZADD and ZREM are the only writers of
  `coupon:queue`, and a ZREM takes the entry of every request of that user and type.
* `BooksAgree`: `IssuedAgrees`. What is in `coupon:issued` and the tables is what the places of the requests say (`BooksMatchPc`, with
  `CouponMatchesPc`).

The quota and what follows from it assume `~Development`: a development bootstrap overwrites the counter and
the theorems would be false. `TypeCorrect`, `QueueIsServed` and `BooksAgree` need no assumption on the configuration.

`CouponKafkaProofs`, for any messages, deliveries, duplicates, failures, restarts and rebalances: every step of `CouponKafka` is a step
of `CouponIssue` or leaves its state alone (`KafkaImplementsIssue`), so `NoOversell` and the
quota (`KafkaImplementsQuota`) carry over. `KafkaTypeOK` needs what a consumer
works on (`Consuming`: only begun deliveries of messages in the log). `SuccessIsBacked`: a response is sent of the place a
delivery ended at, behind which there is a coupon (`CouponMatchesPc`) and a unit (`UnitMatchesPc`). `HolderNeverTriesAgain` (under
`~Development`) is the one with a real argument: without a rebalance one delivery is at work at a time (`ServedAlone`), so what its checks
found still holds at its DECR, and the checks find every holder because a unit leaves a trace in `coupon:queue` or
`coupon:issued` (`Guarded`); that a loser's second delivery gets no unit is `SoldOutOnlyWhenAllTaken`.

`FirstServed` (`FirstComeFirstServed`, also under `~Development`) needs the longest argument. No offset is skipped: every offset before one that was
delivered has a delivery, or no consumer can be given it any more (`Placed`, with `Covered` and `Dead`). A delivery at work that a later one is
ahead of is a second one (`InTurn`), after an error or a crash. What barred a delivery bars every later one of the same user and
type (`BarredForGood`), so a second delivery that comes to its DECR had an earlier one that neither was refused nor
won: either it met an error, which the property allows, or it was a loser, and then all units were taken. The
property itself is strengthened to every loser from its DECR on (`ServedInTurn`).

`OrderSagaProofs` proves about every type of coupon and every total that a discount is a natural
number within the total or a fixed amount (`DiscountInTotal`, from `PercentageInTotal`: the rates are at most 30 by
`Configs`), and that `validateOrderAmount` can refuse an order that costs something only for a fixed
coupon on an order below 2000 (`OrderBearsCoupon`).

`PaymentProofs`, for any users, orders, requests, amounts, balances, restarts and
deliveries: types, `DeductedOncePerOrder`, `PaidIsBacked`, `ToldOnlyWhatIsPaid`. Deducting once is not inductive: it rests
on the one row an order may have in `payments` (`OneRowPerOrder`) and on who has passed its save
(`Places`: whoever is behind it has a row, whoever is behind the deduction has deducted). `PaidIsBacked` says of every `PAID` order, also one whose payment failed at its last reply,
that one request has both the row and the deduction, and of every refused request that it has deducted nothing. The proofs
about `Payment` are by action; those about `PaymentDelivery` reuse them for the steps of a payment and add crashes,
the topic and its consumer, with `IInv` of `Payment` as a conjunct of `DInv`.

`LedgerExact` and `LedgerExactAcrossRestarts` (`LedgerExactUnlessRaced`): until two requests of a user race, they come one after the
other (`Alone`), so what one of them is about to save was computed from the present balance (`ReadIsCurrent`), and a request is not in the
books before its save (`NotBookedYet`). A total is stated as a cardinality: the points a set of requests moved, each a
pair of the request and a number up to its amount (`Moved`). A fold would say the same, but what a fold yields
needs induction, whereas one more request adds disjoint pairs (`OneMoreMoved`).

`PaymentImplementsLedger`: a save of points is a step of `PointsLedger`, the arrival of a second request of a user is an
overlap, everything else is a stutter. Exactness without an overlap is `ReadIsCurrent` again. What holds after one needs another
invariant (`WithinPut`): no balance, and no balance a request has read and may yet write back, exceeds what its user has put in by
then. So a lost update can cost a user points, or spend the same points twice, but nobody has more than he ever
put in. `LedgerAcrossProcesses` says the same of `DeliverySpec`: a process that dies leaves all that the ledger is made of alone.

`FailedPaymentIsFinal` is about all orders that `payment_retry` shows one of: once nobody is paying an order that has a row in
`payments` and is not `PAID` (`LeftBehind`), it is never `PAID` again, across restarts. The request of its row has ended
(`GivenUp`), and since the row is the only one (`OneRowPerOrder`) nobody else gets as far as the status.

`OrderSagaProofs` also proves, for any items, prices, stocks, coupons, wirings and crashes: types (`TypeCorrect`), `OrderIsBacked`,
`CouponSpentOnceUnlessRaced`. The types alone need the loop: that stock stays a natural number rests on `read >= quantity` at the save,
and `reserved`, `restored` within an order on the place of its loop (`Place`). An order is backed because
nothing it rests on changes between the validation and the row, or afterwards (`OrderFollows`). A coupon is spent once because
between the read of an unused coupon and its save a second reader counts as racing, and because a
coupon is released only after something was given back (`Coupons`). One assumption is about the int column
`totalAmount`: the sum over the items is a natural number (`AmountAssumption`; the sum is a fold, about which no induction
is available, and TLC evaluates the assumption).

`StockLedger` (`StockLedgerUnlessRaced`): who is about to save a product that nobody raced for is alone and has read the present stock
(`StockIsFresh`); with the place of its loop, a save moves exactly one item, whose pieces are counted one by one as in the ledger of payments
(`Pieces`). `RankingNeverOver` (`RankingNeverOvercounts`): neither a score nor a score that is about to be written exceeds the
pieces the loops have come to (`Counted`, `RankInv`), which are pieces that were ordered. It holds without any "unless raced": the blind
overwrite of a score can lose sales but never invent them.

`SagaImplementsStockRoom`: saving a product takes or gives back the next item of its request, saving the order places it, a read of
what another request is about to save is an overlap, and payments, coupons, ranking, timers and crashes stutter. The place of the
loop gives the item and its order; `OrderFollows` that an order is placed once and only when it has everything; `StockIsFresh` that a
save without an overlap is exact; and `WithinSupply`, the counterpart of `WithinPut`, that with one the stock
stays within what there was and came back. That it is not negative is the check of the quantity at the read, which is of
the very object that is saved.

`UnwiredNeverReleases` is about all orders that `order_unwired` shows one of: with the bus of `AppModule` nothing has ever
been given back, no coupon is released, and no timer is armed.

`RedisLockProofs`, for any requests, processes, callers of `isLocked`, rounds and crashes: types, `ExclusiveUnlessExpired`,
`KeyHeldOnlyAtWork`, and exclusion within a process even when the key is lost (`LocalExclusion`, which follows from the map as
`TypeOK` states it). `KeyIsHolders` is the strengthening: until a key is lost, whoever counts on the lock is its owner.
`LockImplementsLease` follows from it: until a key is lost the releaser of a key is its keeper (`Leave`); afterwards a release
by one whose own key is gone may delete another's (`LeaveLate`), which the abstract lease allows only then. Retries, rejected
commands and local waits are stutters, and a crash is the leaving of all who were in the process.

`CacheAsideProofs`, for any users, products and requests: types and `FreshUnlessOvertaken`, `StaleHasCause`. What is cached was
held by a reader before, so `SeenOK` says of readers what the property says of the cache. That values stay within the number of
saves needs that each save is counted (`RowsCounted`), by cardinalities. That a stale value has one of the four causes
(`StaleForAReason`) needs who saved a row last (`LastSaver`), and that a request past the deletion of a key has left its promise there
(`Promises`): either the deletion for the last save was made, or the request that saved owes it.

`SeedingProofs`, for any processes, clients, seeds and starts: types, `OneAccountPerEmail`, `InsertedRowStays`,
`SeededRowKeepsUse`. The first three come from one invariant: the tables by themselves (`TInv`: AUTO_INCREMENT is behind every row,
what is not the seeder's is what its id was drawn for), what clients hold of them (an id that is being
signed is theirs or has become a seed's), and where a bootstrap is. A use can be lost only by an UPDATE of a seed's own row;
`RInv` adds that a process that found the row before it was there
did so while another one was booting, which is what `raced` records. `CountersLast` (`CountersFollowSeeds`): a process is past a seed only when
its name is in the table, and a name is lost only where a seed takes the row that was drawn for it (`SeedsDone`). `IssuedBound`
(`IssuedPerBootstrap`): a DECR adds to what is issued or about to be, so the bound is inductive only with the one on the same plus what the
counter has left and what is about to be given back (`Counted`).

`ProductRankingProofs`, for any sales, products, processes and days: types, `KeptWhileInWindow` and `OverallCoversWindow`. The
types need that a set expires four days after its day at the earliest (`KeyTypes`) and that the place of a job says whether it has days
or members left (`JobPlace`); a member is taken from a set by a minimum, which exists because natural numbers are well
founded (`Least`, `FirstIsMember`). From them it follows that no TTL and no job of another process reaches a day
among the last three (`WindowKept`). For `BestsellersAreIn` the property is extended to a job in the middle of its rounds:
what `product:ranking:3d` has plus what the job has yet to add is at least the window (`Covers`), also when another process
deletes a day that has left the window meanwhile, which is then neither owed nor counted. Trying to prove the types showed a flaw of
the model: `NextRound` was a CASE whose guards overlapped, and left open where a job goes when both members and days are left.

Assumptions on constants are those the modules name: finite sets where something is counted, disjoint name
spaces, seeds with ids of their own.

`EachByItself`, `BothTypeCorrect`: a behaviour of `IssueSeeding` is one of `CouponIssue` and one of `Seeding`, one of them at rest, so that
every theorem about either, and `TypesOK`, holds of the two side by side.

Every invariant, every action property and every refinement that a passing run checks is proved for all values of the constants. Only model-checked: the liveness properties `EveryRequestAnswered`, `PaidOrderIsDelivered`, `ExpiredOrderIsReleased`,
`WaitEnds` and `OldDayGoes`, because fairness and ENABLED are out of the prover's reach, and what the folds of `Pricing`
compute for an order of any length, which needs induction over data.

## 5. Plan

Done, in this order: coupon issuing with its quota, issuing over Kafka, payments and their delivery, the order saga, locks,
caches, ranking, amounts, accounts and start-up; proofs of all safety properties; the abstract ledger, stock room and
lease with proofs that the detailed modules implement them; theorems about every instance of two of the violations.

Worth doing next: one abstract stock counter for `CouponIssue` and the requests of `Seeding`, which so far are related by their
properties only; `CacheAside` as an implementation of a register that may lag; liveness for all constants, once the prover has
ENABLED.

## 6. Not modelled

* Transaction and DB-lock interceptors: never in force (see "Decorators"). What they would do for a controller
  method is what MySQL does with a transaction or a row lock, not code of this program.
* Controllers, DTOs, Swagger: the shape of HTTP. The models' inputs are requests that pass validation; that of
  registration and login is in `Accounts`, that of orders in `OrderSaga`.
* JWT and bcrypt: a token is the id it carries, a hash is that of its owner's password.
* Configuration: its settings are constants (`Development`, `DevInstance`, the TTLs).
* The sales aggregation repository, `CouponValidationService` and parts of the entities: no use case calls them.
* Load tests, Kafka examples, migrations, Docker files: scripts beside the program.
* Reads that change nothing and decide nothing: rankings shown to users, lock lists, health checks.
