# Formal model of desk-checkout

TLA+ specifications of desk-checkout, from the cart in the browser over the API and
the worker to the notification that an order is confirmed; the TLC configurations
that model-check them, and proofs checked by TLAPS. Paths below are relative to the
repository root.

## 1. Inventory of the system

| Part | State it keeps | Operations | Correct when |
| --- | --- | --- | --- |
| **Settlement** (`packages/settlement`, `packages/settlement-typeorm`) | tables `transactions`, `deliveries`, `inventory`, `outbox_events` | `claimForPayment`, `attachProviderTransactionId`, `releaseClaim`, `expireUncharged`, `updateAfterPayment`, `settle` | an order is decided once; status, delivery, stock and outbox change together; money that is kept bought goods |
| **Idempotency store** | table `idempotency_keys` | `find`, `begin` (insert), `complete`, `abort` (delete) | one handler per shopper key; a sealed key replays the truth for ever |
| **API use cases** (`apps/api/.../transactions`) | locals across awaits | create, pay, sync, widget session | no handler acts on another order's payment; a failure leaves the order payable or recoverable |
| **Webhook use case** (`apps/worker/.../webhooks`) | locals, key `webhook:<id>:<status>` | lookup, find, wait, reclaim, begin, settle | duplicates and reordering change nothing |
| **Reconciliation** (`apps/worker/.../reconciliation`) | `running` flag, key `stuck:<id>:<status>` | stuck recovery, orphan expiry | every order ends |
| **Outbox relay** (`typeorm-outbox-store.ts`, `outbox.publisher.ts`) | `published_at`, `locked_until`, `available_at` | `claimBatch`, publish, `markPublished`, `releaseOnFailure` | marked only after the broker confirmed; every row is published |
| **Messaging** (`packages/messaging`) | connection, channel, registrations, queues main/retry/DLQ | connect, publish, consume, dispatch, retry, recover | a message is never lost; each queue keeps its consumer |
| **Webhook ingress** (API controller, checksum, parser) | none | verify, parse, publish | 2xx only for a durable message |
| **Wompi** (external) | payments | create, read, void, notify | modelled from its two gateway clients |
| **Web checkout** (`apps/web/.../checkout`) | page instances, checkout store, shared create, epochs, the widget's script | create, restore, quotes, card form, widget, result page | what is charged is what was shown; a late answer never overwrites a newer order |
| **Web cart** | lines in each tab, their copy in local storage, the sheet and its timer | add, change, remove, load, store | one line per product, within its stock |
| **Catalog API** | none (queries) | pages by offset, by cursor, by ids | pages tile the sorted list |
| **Web catalog page** | query in the address bar, search box and delay, requests on their way | search, sort, page, links, Back | what is shown answers what is asked |
| **Shipping, totals, customers, configuration** | static rows | reads, sums | charged total equals the order's total |

How they interact: the API handlers, the payment-event consumer and the two
reconciliation jobs run in different processes and share nothing but Postgres
and Wompi; every one of them ends in `SettleProviderPaymentService.settle` and
`TransactionWriter.updateAfterPayment`. The API publishes notifications to the
queue the worker consumes; the settlement transaction leaves an outbox row the
relay turns into an `order.confirmed` message. The shop in the browser knows the rest
by the API's answers only, which may come after the page that asked has gone; its tabs
share the stored cart.

What is hard: all the code between two awaits may interleave with four other
paths on the same rows; the aggregate a handler settles was read several awaits
(and up to 40 polls) earlier; claims are leases that another process may take
over; a crash may fall between any two awaits; notifications are late, repeated
and reordered; connections close late, and their events are heard later still; a page
that was left goes on with what it awaits. `PROJECT.json` lists these hazards one by
one at the line where they bite, with the properties that would catch them; one without
a property has a note that says what the code does and why nothing here excludes it.

## 2. The settlement core

### Modules

| Module | Role |
| --- | --- |
| `OrderBook.tla` | abstract specification: an order is placed once and decided once, atomically with its stock and its notice |
| `Settlement.tla` | the settlement core: rows, keys, Wompi, and every handler at await granularity |
| `SettlementProps.tla` | invariants, action properties, refinement of `OrderBook`, fairness and liveness |
| `MCSettlement.tla`, `MCSettlement_*.cfg` | small instances |
| `SettlementProofs.tla` | proofs of every invariant and action property of these runs: types, rows (`SettledTogether`, `FinalIsFrozen`, the refinement), stock (`StockConserved`), the shoppers' keys (`ClientKeyOwned`, `ClientKeyStaysSealed`), payments (`BindingSound`, `ConfirmedIsCaptured`, `ReplayTellsTheTruth`, `OutOfStockIsVoided`) |

Some definitions of `Settlement.tla` are mutants ("Mutant of ..."): plausible bugs
of the definition that follows them. No specification uses them; each breaks one
of the properties, which shows that the property depends on that code.

### Correspondence with the code

* A **handler** (a pay, sync or create request, the delivery of a payment event,
  one order of a reconciliation tick) is a process. `pc[p]` names the await it is
  at and `ctx[p]` holds the locals it still needs: order, key, payment, the status
  Wompi reported, the aggregate (`seenStatus`, `seenProvider`) and the saved status.
  One await on shared state is one action; one Postgres transaction with its row
  lock is one action, because the lock serialises it
  (section 3 checks that).
* **`transactions`** is `status`, `provider` (NULL, the claim placeholder or a
  payment id) and `leaseLapsed` (the claim's `updated_at` lies before the lease);
  `delivery`, `stock`, `outbox` and `idem` are the other tables.
* **pay**: `PayBegin`, `PayRead`, `ClaimForPayment`, one of the three outcomes of
  `createCardPayment`, `AttachProviderTransactionId`, `PayPoll`, then settle; the
  catch block is `ReleaseClaim` and `Abort`.
* **sync**: `SyncBegin`, `SyncRead`, `SyncPoll`, then settle.
* **webhook**: `WebhookLookup`, `WebhookFind`, `WebhookWait`, `WebhookReclaim`,
  `WebhookBegin`, a second wait and `WebhookBeginAgain`, then settle.
* **stuck job**: `StuckList`, `StuckPoll`, `StuckBegin`, then settle. **Orphan
  job**: `ExpireUncharged`.
* **settle**: `applyProviderResult` on the stale aggregate is `CanApply`;
  `updateAfterPayment` is one of `SettleApproved`, `SettleOutOfStock`,
  `SettleNotApproved`, `SettleLostRace`, `SettleThrows`; then `VoidPayment`,
  `Complete` or `Abort`.
* **Wompi** creates payments (`NewCharge`), decides a pending one once
  (`ResolveCharge`), may void an approved one, and puts a notification into
  `events`, from which nothing is ever removed: a notification may be handled
  late, repeatedly, out of order or never.
* **Crash** drops the locals of a handler and keeps its writes. An exception from
  the database that no handler catches has the same effect (the key stays open),
  so it is the same action.

Abstractions, with the reason each is sound:

* The two jobs take their orders one at a time and in any order; that one of them
  throwing ends the tick for those behind it is not modelled.
* The age of an order is not modelled; the jobs may take any order whose row
  qualifies. That gives them more behaviours than the TTLs allow.
* A request answered from a known key writes nothing and is not a step.
* The webhook's lookups by id, by provider id and by reference only read, and
  what they read is checked again under the row lock; they are one step.
* The listing of the orphan job is not a step: the update repeats every condition
  of the listing under the row lock. The stuck job's listing is one, because the
  job settles the aggregate it listed.
* A poll loop is its last read.
* Amounts, addresses, DTO mapping and logging carry no control. The amount check
  of sync and of the webhook is the reference check: the model has no two orders
  that a payment could fit by reference and not by amount.
* `updateAfterPayment`'s "CAS affected no row" branch cannot be reached while the
  row lock is held and has no action.

### Runs

| Run | Question | Bounds | Result |
| --- | --- | --- | --- |
| `races` | may any handler overtake any other on one order? | 1 order, 2 payments, 2 shopper keys, 2 processes that serve the API, one of which also consumes and ticks; card and widget payments | `TypeOK`, `ConfirmedIsCaptured`, `ClientKeyOwned`, `FinalIsFrozen`, `ImplementsOrderBook` hold |
| `stock` | two orders, last unit, several lines | 2 orders, 2 products (one unit of one of them), 2 payments | `StockConserved`, `BindingSound`, `OutOfStockIsVoided` hold |
| `live` | crashes: do rows and keys stay sound, and does every order end? | 1 order, 1 payment, 1 key, one process of each kind; API and consumer may die between any two awaits, the tick survives | `SettledTogether`, `ReplayTellsTheTruth`, `ClientKeyStaysSealed`, `ChargedOrderSettles`, `EveryOrderEnds` hold |
| `expired_charge` | is EXPIRED really uncharged? | 1 order, 1 payment, no crash | `ExpiredMeansUncharged` is violated (finding 1) |
| `lost_void` | is an unservable payment voided? | 2 orders, last unit, the consumer may die, deliveries repeat | `OutOfStockGetsVoided` is violated (finding 2) |

Why the bounds are enough: the conflicts of this code are between two handlers
on one order (races), two orders on one product (stock) and one handler with the
remains of a dead one (live); each run holds the smallest population in which
its conflict exists, with one actor more than the code serialises. Two payments
are needed for a binding to be wrong, two keys for two pay requests to be in
flight, two products for a decrement to be partial. `Symmetry` permutes orders,
payments and shopper keys, which no definition tells apart; the runs with
liveness do not use it. A process slot may play several roles (serve the API,
consume, tick) where that saves states without losing a conflict: what it plays
next is a free choice.

`CHECK_DEADLOCK` is off in these runs: when every order is decided and every
request answered, the system rests.

### Fairness

`Fairness` gives weak fairness to every await of a running handler (awaits
return: every Wompi call has a 15 s timeout, every database call completes or
throws), to the lapse of a lease and to Wompi's decision on a pending payment,
and strong fairness to the stuck job's listing and status request and to orphan
expiry: `@Interval` repeats the tick for as long as the order stays on its list,
although in between the single tick may be busy with something else. Requests,
notifications and crashes get none: the shopper may leave, Wompi's notification
may be lost. `RedeliveringSpec` (only in `lost_void`) adds that the broker
redelivers what was not acknowledged and that handlers eventually stop dying
halfway, so that its counterexample is not an endless row of crashes.

### Findings

1. **EXPIRED with a charge** (`expired_charge`). `docs/architecture.md` explains
   EXPIRED as "no successful charge path". A timeout of `createCardPayment` releases
   the claim of a card that Wompi charged; the orphan job expires the order; the
   approval comes afterwards and every settling path rejects it.
2. **The void is lost** (`lost_void`). The README promises an attempted void when
   stock cannot be decremented. A crash between the `ERROR` row and the void is
   never repaired: redeliveries reject an order in `ERROR` before they get there.

`live` keeps the process of the tick out of `Crashable`, because with it in there
`ChargedOrderSettles` fails: the stuck job takes a row of its key
`stuck:<id>:<status>` for somebody else's work and skips the order, and a worker that
died after `begin` left exactly that row, which nothing deletes.

Not excluded either: a handler that meets another payment on a decided order
(`SettleThrows`) leaves its key open, and a shopper key left so answers every retry with
a conflict, although the order has ended.

### Proofs

For every value of the constants that satisfies the assumptions of
`Settlement.tla` (quantities and stock are natural numbers; `Crashable` are
processes and `Outcomes` statuses; sentinels differ from real values and shopper
keys from worker keys), every invariant and action property of the passing runs is
proved in `SettlementProofs.tla`:

* Types (`TypeCorrect`): `Spec => []TypeOK`. `TypeOK` is inductive because
  `LocalsOK` says which locals are set at which await; without it a handler could
  index a table with `None`.
* Rows: the lemma `EveryStepIsARowStep` reduces the 40 actions to the
  six moves a row can make (nothing, placing, confirming, refusing, expiring, and
  writing a payment id while PENDING). `SettledTogether`, `FinalIsFrozen` and
  `ImplementsOrderBook` follow from the moves. The inductive invariant is
  `TypeOK /\ FreshIds`: `FreshIds` says that the id of a create in flight has no
  row and no second writer; without it `CreateSave` could reset a decided order.
* The shoppers' keys: `EveryStepIsAKeyStep` says that a step opens,
  keeps or closes them for one handler only; `ClientKeyOwned` is inductive with
  `TypeOK`, and `ClientKeyStaysSealed` follows.
* `StockConservedHolds` uses the same moves: only Confirming takes stock, and it takes
  what the order that becomes APPROVED asks for. Orders may be infinitely many, so
  `StockOK` adds that finitely many are approved. The sum over them is
  `MapThenSumSet`, a recursion along CHOOSE; `SumExists` builds a function on the
  subsets of a finite set that sums in any order (`SumsUp`) and `SumByChoiceIsTheSum`
  says that the recursion computes it. Induction over finite sets is written with a
  minimal counterexample (`MinimalSubset`), because the induction theorems of the
  library take an operator as a parameter and the provers cannot instantiate it.
* Payments: the inductive invariant `MoneyOK` says what each part of the system
  knows of a payment. `RowSound`: a row holds a payment made for it, in the state its
  status claims. `EventSound`: what a notification says is so (`Told`), or was so
  before the payment was decided or voided; without it an old notification could
  settle an order. `VoidSound`: only payments under an `ERROR` row were ever voided.
  `HandlerSound`: the payment a handler works with is its order's, the report it
  carries is `Told`, and what it is about to seal is in the row. `EveryStepIsAMoneyStep`
  reduces the 40 actions to twelve moves, and each part is kept by each move.
  `BindingSound` and `ConfirmedIsCaptured` follow. `ReplayTellsTheTruth` is inductive
  with it and with `WorkerKeySound` (a worker's key is opened only for the order of its
  payment).
* `OutOfStockIsVoidedHolds` has the hypothesis that no handler dies (`Crashable = {}`,
  as in the run `stock`). It cannot be dropped: `lost_void` is the counterexample.

Only model-checked: the liveness properties `ChargedOrderSettles` and `EveryOrderEnds`,
which are out of the prover's reach.

## 3. Inside the settlement transaction

`SettlementTx.tla` opens up the one action that `Settlement` makes of
`updateAfterPayment` for an approved payment: a settlement locks its order's row,
then each product in the order of `decrementManyLocked`'s sort, compares, writes
each line and commits or rolls back; a process may die inside, and Postgres then
rolls back. Each statement is an action; a statement that needs a lock somebody
holds is not enabled.

| Run | Question | Bounds | Result |
| --- | --- | --- | --- |
| `tx` | is a transaction really one step, and do settlements never wait for each other? | four settlements of three orders over shared products, named in opposite orders; two settlements may die | `NoCircularWait`, `Serializable`, `EveryTransactionEnds` hold |

`Serializable` says that what the database shows is a behaviour of `OrderBook`: it
is what justifies "one Postgres transaction is one action" in `Settlement`.
`NoCircularWait` is deadlock freedom as an invariant: of any settlements one waits for
none of the others. `EveryTransactionEnds` is deadlock freedom as liveness: Postgres is assumed to grant
a free lock and to answer a statement (weak fairness per settlement), and a
deadlock would leave two settlements that never end. The mutant of both takes the
products in the order of the request. `Ordered` sorts as the code does, stably and by
product, and says it by counting: the line at place n is the one with n - 1 lines
before it (`Rank`), which is what the provers can reason about.

The products of an order are distinct here. Two lines of one product load the same
row twice in `decrementManyLocked`; each is compared with the whole stock and the
second write replaces the first. The request DTO does not ask for distinct products;
`OneLinePerProduct` of section 5 shows that the shop's cart never makes such an order.
No property covers what the API would do with one.

### Proofs

`SettlementTxProofs.tla` proves, for any orders, products, stock and settlements that
satisfy `TxAssumption` (products and quantities are numbers, an order has a line, None
is no settlement and no number):

* The sort: `SortIsAPermutation` (each line has one place; an injection of a finite set
  into itself is onto), `SortAscends`.
* `TypeCorrect`, from the inductive invariant `TxInv`. `HandlerOK` says what a settlement
  may rely on between two statements: it holds its order's row and the row of each line
  it has loaded, what it loaded is still the stock and covers the line, and it has
  written only to rows it holds. `LocksOK` says who may hold a lock. A step of one
  settlement disturbs none of this for another (`OthersUndisturbed`).
* `NoCircularWaitHolds`: a settlement that waits for one that waits itself has its next
  product before the other's (`WaitsDownTheOrder`), and of finitely many settlements
  one is furthest down (`OneIsGreatest`). Orders that name a product twice are included.
* `SerializableHolds` has the hypothesis `DistinctProducts`, the one-line-per-product of
  the paragraph above. `DraftsOK` says that what a settlement has written is what is left
  of each line saved so far; `DemandIsTheLine` solves the recursion of `Demand` (with a
  minimal counterexample in place of an induction); at the commit both agree
  (`CommitTakesTheDemand`), and every other step leaves the book alone.

Only model-checked: `EveryTransactionEnds`, a liveness property.

## 4. Messages: outbox, queues, connections, webhook

### Modules

| Module | Role |
| --- | --- |
| `OutboxRelay.tla` | `TypeOrmOutboxStore` and `OutboxPublisher.tick` of any number of replicas |
| `RetryQueue.tla` | one queue triplet: delivery, `dispatch`, `handleConsumerFailure`, and a broker that requeues |
| `OrderNotices.tla` | `OutboxRelay`, which it extends, and an instance of `RetryQueue` over one channel per replica, with a fault budget and fairness |
| `RabbitConsumer.tla` | `RabbitConnectionManager` of the worker over `RetryQueue`: start, consume, stop, connect, rebind, listeners, timer, recovery |
| `PaymentEvents.tla` | the webhook of the API and Wompi's retries in front of `RabbitConsumer` |
| `RetryQueueProofs.tla` | proofs about the queue |
| `OrderNoticesProofs.tla` | proofs about the relay, and about relay and queue together |
| `PaymentEventsProofs.tla` | proofs about the consumer under its manager, and the webhook |
| `MCOutboxRelay`, `MCOrderNotices`, `MCPaymentEvents` (`.tla`, `.cfg`) | small instances |

### Correspondence with the code: relay and queue

* **A row** is `inserted`, `published` (`published_at`), leased (`holder`, `lapsed`:
  `locked_until`, and whether it lies in the past) and `delayed` (`available_at` in
  the future). `markPublished` and `releaseOnFailure` compare `locked_until` with the
  value of the claim; the leases of a row grow with each claim and a replica runs
  one tick at a time, so comparing the holder is the same test.
* **A tick** of replica w is `pub[w]` and `claims[w]`: `ClaimBatch`, then for each row
  `PublishConfirmed`, `PublishUnconfirmed` or `PublishFails`, then `MarkPublished` or
  `MarkFails`, then perhaps `ReleaseOnFailure`; `TickEnds` is the outer catch block
  or the death of the process.
* **The broker** holds copies: in the main queue, in the retry queue, or
  unacknowledged. `Requeued` puts unacknowledged copies back when their channel
  is gone; `RetryExpires` is the TTL that dead-letters to the main queue.
* **A call of `dispatch`** is `task[w][k]`. It keeps the channel it was given: when
  that channel dies, `held` becomes None and the call goes on to its end without it
  (`GiveUp`). `prefetch(1)` is the guard of `Deliver`.
* **Handlers** return or throw; messages of `Unsupported` always throw
  `DeadLetterError`. What the payment handler does to the order is `Settlement`,
  where a notification stays in `events` and may be handled again: `NeverLost` and
  the redeliveries here are what justifies that abstraction.
* The three reasons for which publishing fails in code (no channel, a dead channel,
  a refused message) differ in what the broker has afterwards; that is the
  difference the actions keep.

The header parsing of `readRetryCount` is not modelled: this code alone writes the
header. In `OrderNotices` a channel comes back in one step; how is `RabbitConsumer`.

### Correspondence with the code: connections

* A replica of `RetryQueue` is here **one connection of one process** with its
  channel. `used`, `open`, `usable`, `closing` and `events` are the life of a
  connection: opened, alive, with a live channel, asked to close, dead with a "close"
  event the process has not seen yet.
* **The manager** is `stopped`, `timer` (`reconnectTimer`), `channel` (`this.channel`
  and `this.connection`), `attempt` (the `connectOnce` behind `this.connecting`),
  `registered` (`this.consumers`) and `binding` (a `consume` that attaches its own
  queue). Each await of `connectOnce`, `rebindConsumers` and `consume` is a step:
  `ConnectReplies`, `Declared`, `RebindNext`, `BindLate`, `AttemptFails`.
* The code looks at `this`, not at the connection the call began with, and the model
  does so too: the listeners of any connection clear whatever channel the manager has
  (`CloseEvent`), `recoverChannel` closes the present connection whichever channel
  failed (`RecoverChannel`), and `connectOnce` keeps the connection of a manager that
  was stopped while it declared its queues (`Declared`).
* `Start` is `onModuleInit` of the payment consumer; `ConsumeLate` is the second
  consumer, which may come at any time of the first connection's life.
* **The webhook** is `webhook[m]`: `WompiPosts`, then `PublishConfirmed` (200),
  `NoChannel` (503) or `PublishBreaks` (503, or a wait for "drain" that never ends).
  Wompi posts again until it gets a 2xx. The API's own manager is reduced to having a
  channel or not (`apiChannel`); the checksum and the shape of a body are left out, as
  a body that is rejected or ignored publishes nothing.

### Runs

| Run | Question | Bounds | Result |
| --- | --- | --- | --- |
| `relay` | do replicas get into each other's way? | 3 rows, 2 replicas, batches of 2, any number of faults | `PublishedWasAccepted`, `DuplicatesHaveACause` hold |
| `notices` | does every notice arrive? | 2 rows (one is of an unsupported version), 1 replica, 5 copies, 2 calls, 1 retry, 1 fault of any kind | `NoticeIsNeverLost`, `EveryNoticeArrives` hold |
| `consumer` | does every payment event arrive, whatever the connections on both sides do? | 1 event, 5 connections in a row, 5 copies, 1 call per connection, 1 retry, 1 fault of any kind; calls of the first connection may outlast the reconnect timer | `PaymentEventsTypeOK`, `NeverLost`, `DeadLettersWereRetried`, `NeverWedged`, `AcknowledgedIsKept`, `RegistrationsSurvive`, `PaymentsArrive` hold |

Three rows and batches of two make a batch that ends while others wait; two
replicas make a lease that somebody else takes over. Two calls per replica are
needed for a call of a dead channel to meet one of the new channel (in `consumer` the
two calls belong to two connections); a third copy for a retry while a duplicate is
queued. One retry shows both sides of the limit. One fault is enough for a chain of
them: a connection that breaks under a slow call makes that call close its healthy
successor, whose close event then meets the third connection. Five connections are
more than one fault and one slow call can use up. History variables are capped:
`accepted` at 2, `failures` at `MaxRetries + 1`, which is all the properties compare.
These systems rest when everything has been dealt with, so deadlock is not checked;
`NeverWedged` and the liveness properties say what a deadlock check would.

**Recovery of the wrong connection.** `recoverChannel(channel)`, "Drop a broken socket
and reconnect so consumers rebind", closes `this.connection`. A handler that is
still running when its connection has been lost and replaced fails on its dead channel
and closes the replacement. `consumer` shows that nothing is lost by it and that the
consumer recovers once such calls have ended (`Slow` names the connections whose calls
may do this); as long as handlers keep outlasting `reconnectDelayMs` (3 s; one settles
a payment over HTTP calls of up to 15 s) each recovery breaks the next delivery.

**Fairness.** In `notices`: the interval repeats the tick, leases, delays and TTLs run
out, `scheduleReconnect` reconnects, handlers return or throw, and the broker
delivers to a free consumer (weak fairness each). A lease lapses without being a fault
when nobody works under it any more. In `consumer`: replies arrive, events are
emitted, the timer runs out, copies expire, deliveries happen and calls end (weak
fairness each); Wompi repeats its POST, the API's manager reconnects, and a publish
that finds a channel again and again is once confirmed (strong fairness, because the
503 of a moment without channel disables it). Faults and `Stop` get none; faults are
bounded by `MaxFaults`: without an end to them nothing arrives. `TimerFires` waits for
the calls that lost their channel unless they are in `Slow`, and for the rejection of
a `bindConsumer` on a dead channel, which takes microseconds against seconds.

### Proofs

For any rows, replicas, batch size, messages, copies, calls and retry limit that
satisfy `OutboxAssumption`, `QueueAssumption` and `NoticesAssumption` (None differs from real values,
the sizes are naturals, `Unsupported` are messages):

* `OrderNoticesProofs`, of the relay alone: `TypeCorrect`; `PublishedWasAcceptedHolds` from the invariant
  that a tick at "mark" has its current row accepted; `DuplicatesHaveACauseHolds`
  from `LeasesOK`: a row without a fault behind it is worked on only by the replica
  that holds its lease, and the broker took it at most once, and only if it is
  marked or still leased by a replica that is about to mark it or died first.
* `RetryQueueProofs`: `TypeCorrect`, whose `HeldOK` says that a call holds an
  unacknowledged copy of its own message and nobody else holds it;
  `NeverLostHolds`, which is inductive with `TypeOK`: the witness of a message is
  given up only for a new one (`Keeps`, `KeptStep`); `DeadLettersWereRetriedHolds`
  from `FailuresCounted`: the count of a copy or a call never exceeds the failures
  that happened. The ways to lose a channel are proved once, as `LosesChannel`.
* `PaymentEventsProofs`, which needs `ConsumerAssumption` too (two queues, None is no
  connection): `ImplementsRetryQueue` says that the consumer under its manager takes
  only steps of `RetryQueue`, so the theorems above hold of it. The inductive
  invariant is `EventsInv`: the types, `NeverWedged`, and `ManagerOK`, which says that
  the channel the manager has is alive or its end will be heard of, that the same goes
  for the connection it rebinds unless a timer is set, and that a connection which is
  not bound yet has no calls, so that a recovery cannot be for it.
  `AcknowledgedIsKeptHolds` adds that what was answered with 200 was sent.
  `PaymentEventsTypesHold` adds `BooksOK`: what the broker believes (`connected`) is what
  the manager bound on channels that live, and a call without its copy is on a channel
  that is not usable (`StaleIsUnusable`).

* `OrderNoticesProofs`, of the path: `ImplementsRelay` and `ImplementsQueue` say that each
  of its steps is a step of the relay or leaves it alone, and of the queue likewise. So
  what was proved of each holds of the path; the theorems of the queue are cited through
  an instance of their module (`QueueFacts`). `NoticeIsNeverLostHolds` joins them by
  `AcceptedWasSent`: what the broker took from the relay is a message of the queue.

Only model-checked: `RegistrationsSurvive`, `EveryNoticeArrives` and `PaymentsArrive`, as
liveness is out of the prover's reach.

## 5. The shop in the browser

### Modules

| Module | Role |
| --- | --- |
| `Shop.tla` | the checkout: stores, page instances and what they await, card form, widget, result page, against the API's orders |
| `Cart.tla` | the cart in the tabs of one browser, the stored copy they share, and the pages that offer products |
| `ProductReader.tla` | `GET /products` as a function of the table: by offset, by cursor, by ids |
| `ProductList.tla` | the catalog page: address bar, search delay, superseded requests, pager, Back |
| `MCShop`, `MCCart`, `MCProductList` (`.tla`, `.cfg`) | small instances |
| `ShopProofs.tla`, `CartProofs.tla`, `ProductListProofs.tla` | theorems about the checkout, the cart and the catalog page |

### Correspondence with the code: checkout

* **An instance of the checkout page** is `page[n]`: the order it has (`txn`), the
  shared create in flight, the city of its form, whether the form has a shipping method
  (`method`: the draft and a resumed order fill it in before any quotes arrive, each
  answer to quotes sets it anew, and `ContinueToPayment` asks for nothing else of the
  form), the quotes it shows and those on their way, the epoch, and at which await of `onMounted` it is (`at`). Leaving the
  page stops its watchers and drops what it shows, but not its awaits: `Ghost`.
* **A call** of `onSubmit` or `openWidget` is `call[i]`, with what the page showed at
  the click (`shown`) and whether its form is still there (`live`, which is what
  decides whether the `paid` event is heard). Each await is a step:
  `CreateAnswered`, `TokenAnswered`, `PayAnswered`, `SessionAnswered`, `OverlayOpens`.
* `onMounted` is `OpenCheckout`, `ExtrasAnswered`, `RestoreAnswered`,
  `RestoreRefused`, `RestoreFails` and `QuotesAnswered`. `isCreateStillCurrent` is
  `StillCurrent`, `reconcileChargeTotal` is `Agrees`, `finalizeCheckout` is
  `Finalize`, `invalidatePendingOrder` is `Invalidated` and `WithoutPending`.
* **The API** is `order[o]`: priced at creation (`Prices` may differ from the
  `CartPrice` of the lines), charged once, decided by `Settles`. What happens between
  is sections 2 and 3.
* `Reload` keeps the stores, which are persisted, and nothing else.

A cart stands for its fingerprint and a city for all delivery details: the code
compares the former and watches the latter. `Fee` and `Prices` are numbers, as totals
are compared. Wording of messages, the countdown and the polling interval are left out:
a poll is `ResultAnswered` of a result page that was opened again.

### Correspondence with the code: cart and catalog

* **Cart.** `Merged` is one round of `normalizeLines`, `Added` is `add`, `Clamped` is
  `setQuantity`. Each change of a store, the sheet included, writes `stored`, because
  the plugin persists the whole store; only `Reload` reads it. `Act` counts what
  shoppers do; `OpensAfterAdd` is the timer of `openAfterAdd`, which nothing clears.
* **Requests** of the product pages and of the list are `asks` and `requests`, aborted
  (`Superseded`) but not gone: their end is still a step.
* **`ListProducts`** is `ListProductsUseCase.execute` with the reader's query under
  it. SQL is what it returns: the rows that match, beyond the cursor, sorted by the
  column and the id, from an offset, one more than the page. A cursor is the record it
  encodes.
* **The address bar** is `query`; `Becomes` is a navigation with the watchers it sets
  off, among them the one that corrects the page number with the length of the list
  that was last answered, also if that was for another query.

### Runs

| Run | Question | Bounds | Result |
| --- | --- | --- | --- |
| `shop` | can a late answer or a second click charge something else than was shown? | 2 carts, 2 cities with different fees, 2 prices, 2 orders, 2 page instances, 2 calls, 1 edit, pages and calls together at most 3 | `ShopTypeOK`, `CreatedOrderIsCurrent`, `OneChargePerRound`, `ChargedAsShown`, `LateOrdersFitTheCart`, `OnlyApprovalEmptiesTheCart` hold |
| `cart` | do stale pages and other tabs spoil a cart? | 2 tabs, 2 products, stock up to 2, 5 acts; the stored cart is empty or has a product twice | `CartTypeOK`, `OneLinePerProduct`, `OffersItsOwn`, `RaisesStayInStock` hold |
| `catalog` | does the page show what is asked, and do pages tile? | 4 catalogs of 5 products with equal names and prices, pages of 2, page numbers up to 3, 3 moves; links with a cursor, a page too far, ids | `ShownIsAsked`, `PagesTile`, `ComesToRest` hold |

The conflicts of the checkout are between one late answer and one change (one edit,
two carts, two cities), between two calls of a page (card and widget) and between
a page that was left and its successor (two instances, two orders). A total needs two
prices and two fees to be equal by chance as well as different. In the cart, five acts
are an add, a change of stock, a visit, another tab's change and a reload. Five
products in pages of two give a first, a middle and a short last page; every query's
three pages are compared with the sorted list. The shopper may stop, so these runs do
not check deadlock, and they have no fairness: the shopper owes nobody a click.

What the models allow and the properties therefore do not exclude (no property is named
for these in the hazards of `PROJECT.json`, or a note says what it leaves open):

* "Edit details" stays enabled while a card call runs: the call pays the order that
  was given up, and a second one can be made and paid (`OneChargePerRound` is per
  round for this reason).
* The result page of an old `APPROVED` order clears a cart that was filled since, and
  a page that resumes an order which was paid meanwhile keeps the cart.
* A declined card on one page cannot be followed by another one there: the order stays
  the page's order and the API refuses to pay it again.
* A cart that changes while the restore waits for quotes is remembered with the old
  order: `LateOrdersFitTheCart` is about orders that were just created.
* A script element that failed to load is found again and waited for for ever.
* A stock that shrank below the quantity of a line leaves the quantity; a reload then
  drops the line. Any change in a tab that is out of date overwrites the stored cart, and
  lines of the other tab are lost.
* Back with a page number beyond the length of the *last* list is corrected to that
  length, although the list it goes back to may have the page.

### Proofs

**Checkout.** `ShopProofs.tla` proves, for any carts, cities, prices, orders, page instances and
calls, that the state keeps its types (`ShopTypeCorrect`), that one round of a page
brings no two orders to Wompi (`OneChargePerRoundHolds`) and that an order a page
created is of its present round (`CreatedOrderIsCurrentHolds`). The bounds `MaxEdits`
and `MaxBusy` may be any number. Assumed are `ShopAssumption` (a city exists, fees and
prices are naturals, `None` is none of the identities) and `RecordAssumption` (nor is it
an order or a create).

The invariant `ShopInv` looks further ahead than the properties: an order need not be
charged yet to break a round, it is enough that something can still bring it to Wompi.
`Held` says so: the order is charged, or it is the stored one, the one a page has or
waits to restore, the one a call is to pay or the widget is open for. `OneHeld` is
`OneChargePerRound` for held orders. It is inductive with `RoundOK`, which says when a
new order may appear: a page with a create of its present round, or a mounted page
without an order, has no held order of that round; a page that has not come up to its
form made no order and creates none. Only two steps touch this: `Click` begins a create on a
page without an order (`EnsureCreateKeeps`), and `CreateAnswered` adds the order, which
is taken only if `StillCurrent` (`FreshKeeps`) and held by nobody otherwise
(`StaleKeeps`). All other steps are calm (`Calm`): they hold no order that was not held,
and each page turns as `Turns` says, or is left and becomes a ghost (`TurnIsCalm`).

The action properties need to know what was shown. `ShownInv` adds to `ShopInv`:
`CallsShow` and `OverlaysShow` (a call or an open widget that knows its order showed
what that order asks for), `WaitersShow` (a call that waits for a create of the present
round of its page showed the cart the create was made for; if the round is over,
`StillCurrent` will refuse the answer), `CreatesFit` (a create of the present round of
the mounted page is for the present cart) and `ResultsKnown`. Most steps are `Quiet`: pages
keep their creates, calls end, wait on or go on with their order, and orders keep what
they ask for. What is left is `Click`, `Reload`, and the two ends of a create. Then
`ChargedAsShownHolds` follows as only a token or the widget begins a charge
(`WhoCharges`), `LateOrdersFitTheCartHolds` as only `CreateAnswered` does what it speaks
of, and `OnlyApprovalEmptiesTheCartHolds` as only `Finalize` and the shopper empty the
cart, the former for an order that exists.

**Cart.** `CartProofs.tla` proves the four properties of the run `cart` for any products,
stock, tabs and stored carts. Assumed is that no product is called "list" or "checkout",
which stand for the two other pages. The loop of `normalizeLines` and the filters of the
code are folds over a list (`FoldLeft`), and `Filter` is one because `SelectSeq` has no
definition the provers can use. A fold is a recursion over data: `FoldExists` builds
the function that folds each prefix of a list (its induction is a greatest index that
still works), `FoldKeeps` carries what every round keeps to the end, and `FilterLeaves`
and `ParsedFits` use it for "one line per product" and "no more than its stock". `OffersItsOwn` needs that a request which is not aborted is one
of the page that is open (`PagesOK`).

**Catalog page.** `ProductListProofs.tla` proves the three properties of the run
`catalog` for any catalogs, links, search terms and page size. Assumed are
`ProductListAssumption` (a catalog is a table of names and prices, a link is one that
`toListProductsQuery` may produce, `None` is neither a number nor a cursor) and, for
`PagesTile` alone, `LinksAssumption`: a cursor in a link that its query accepts was
handed out for a product of the list, with the value it is sorted by. Without it the
property is false, and rightly so: the reader does not look the product of a cursor up,
it always offers a page before the one that a cursor asks for, and a cursor nobody
handed out may sort before the first product. The catalog of a behaviour is constant;
nothing is claimed of a list that changes between two pages.

The invariant `ListInv` says that only a request for the present query is alive
(`RequestsOK`) and what is shown at rest (`ShownOK`), which gives `ShownIsAsked` and
`ComesToRest` whatever `ListProducts` computes. `PagesTile` is about just that.

* ORDER BY is said by counting: a row's `Rank` is the number of rows before it, and it
  is at the place of its rank. No two rows compare equal as the id breaks the ties
  (`RowsAreOrdered`, which also turns the order around), so ranks differ, and as many
  ranks as rows make the sort a permutation (`SortIsAPermutation`): cardinalities take
  the place of an induction over the table.
* The rows beyond a cursor, sorted, are the end of the sorted list (`BehindARow`); those
  before it, sorted the other way, are its start read backwards (`AheadOfARow`). Both
  follow from adding up ranks.
* OFFSET, LIMIT, the row fetched beyond the page and the reversal cut the same stretch
  from either (`PageOfTheEnd`, `PageOfTheStart`), so each of the three ways to ask, by
  number, after and before a cursor, is answered with a part of the list (`IsPart`, in
  `PageByNumber`, `PageAfter`, `PageBefore`), and its links lead to the parts next to it
  (`LinksLead`).
* `CutInv`, inductive with `ListInv`, keeps the cursors of the address bar and of the
  history entry behind such as `LinksAssumption` has them: every other step drops them.

`CursorsLeadBack` is what the parts say of a shopper: the page a cursor leads to has a
cursor back, to the items that were left. At the ends of the list that needs that a page
before a cursor is short only where the list begins (the last conjunct of `IsPart`).

## 6. Plan

Done, most important behaviour first: the settlement core with its refinement of the
order book and its first theorems; row locks inside the settlement transaction; outbox
relay and retry queue, their composition and theorems; the connection manager under its
consumer and the webhook in front of it; the checkout, the cart and the catalog; the
proofs of every invariant and action property the passing runs check.

Left, in this order:

1. The reconciliation tick as one sequential batch, with one failing order.
2. The decisions of the web API client (which errors are retried) and of the webhook
   (checksum, shape of the body) as pure functions.

## 7. Not modelled

* Request validation and DTO mapping, Swagger, logging, seeds, migrations, environment
  parsing, health endpoints, Vue components without state of their own and styles: no
  state shared between actors.
* Customers and deliveries CRUD: reads and single-row inserts.
* The API's own inventory writer: its decrement is the one `SettlementTx` models.
* The checksum and parsing of a webhook body, the classification of errors by the web
  API client, the signing of Wompi requests: pure functions without a choice of order.
* Shipping fees are a constant function in `Shop`; the fee table behind it is static.
* Publishing that waits for "drain" is modelled as a POST that hangs; the relay's tick
  that hangs the same way, and then blocks its `running` flag, is not.

`PROJECT.json` gives the status of every part.
