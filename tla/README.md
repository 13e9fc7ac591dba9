# TLA+ verification of the e-commerce backend

The system is a Go HTTP API over Postgres (users, products, orders, payments,
idempotency keys, outbox and inbox tables), Redis (carts) and RabbitMQ
(domain events). Paths below are relative to the repository; `internal/` is
`src/api/internal/`.

1. Inventory  2. Plan  3. The checkout model  4. The outbox model
5. The broker, the inbox and the way to the mail  6. The cart
7. The connection pool  8. Runs and bounds  9. Fairness  10. Proofs
11. Where code and documents disagree  12. What is left out

## 1. Inventory

### Components

| Component | State it keeps | Operations | Talks to |
|---|---|---|---|
| Order service (`internal/order`) | `orders`, `order_items`, `idempotency_keys` | `CreateOrder`, `ListOrders`, `GetOrder`, `Checkout`, `UpdateOrderStatusWithTx`, `ConfirmOrderStockWithTx`, `ReleaseOrderStockWithTx`; no route calls `CancelOrder` | product, payment, cart (calls inside its transaction), outbox, inbox |
| Idempotency key worker (`internal/order/idempotency_key_worker.go`) | none of its own | every tick deletes up to a batch of expired keys in one statement | Postgres |
| Payment service (`internal/payment`) | `payments`, `payment_recon` | `CreatePaymentWithTx`, `HandleCallback`/`processCallback`, `UpdatePaymentStatus` (PATCH), `AddPaymentRecon`, `ExpirePayments` | order service (through an interface), outbox |
| Payment expiration worker (`internal/payment/expiration_worker.go`) | none of its own | every 10 s expires a batch of overdue payments and saves `payment.expired` | Postgres, outbox |
| Product service (`internal/product`) | `products`, `product_inventory(stock, reserved)` | `CreateProduct`, `UpdateStock`, `ReserveStock`, `ReleaseStock`, `ConfirmStock`, each of the last three also `...WithTx` | Postgres |
| Cart (`internal/cart`) | one JSON document per user in Redis, 24 h TTL | `AddItem`, `RemoveItem`, `UpdateQuantity`, `DeleteCart`, `GetCart` | product (price, stock) |
| Outbox and its publisher (`internal/events/{service,repository,publisher}.go`) | `outbox_events`: status, lease (`locked_at`, `locked_by`), `retry_count`, `next_attempt_at` | claim a batch, publish, mark published / failed / dead | RabbitMQ |
| Broker adapter (`internal/events/rabbitmq_broker`) | the confirm channel; a quorum queue and a dead letter queue per consumer and topic | `Publish` with confirms, `Subscribe` with ack, delayed republish, dead letter | RabbitMQ |
| Inbox and mail consumer (`internal/events/inbox_repository.go`, `internal/mail`) | `inbox_events`: status, `retry_count`, `next_attempt_at`, `processing_started_at` | `Save`, `Claim`, `MarkProcessed`, `MarkPending`, `MarkFailed`, `RecoverProcessing`; send mail | Postgres, SMTP |
| Users and authentication (`internal/user`, `internal/auth`) | `users` | register, login, middleware | Postgres |
| Wiring, configuration, helpers (`cmd/api`, `internal/app`, `internal/config`, `internal/platform`, `pkg/helper`) | connection pool | start and stop | all |
| Fake payment provider (`src/fake-payment-api`) | none | calls back with success or failure | `POST /payments/callback` |

How an order travels: the cart is read from Redis; one Postgres transaction
reserves the stock of every item, inserts order, items, payment, idempotency key
and an outbox event; the cart is deleted. The provider calls back: a second
transaction locks the payment, confirms or releases the stock, settles payment,
order and key, and saves an event. In between, the expiration worker turns
overdue payments into `EXPIRED`, administrators adjust stock or patch a payment,
and the key worker deletes old keys. The outbox publisher sends the events to
RabbitMQ, consumers store them in the inbox and a poller sends the mails.

### What is hard, and the properties that make each part correct

* **Stock, orders, payments, keys** - several transactions and single statements
  of different services write the same rows under READ COMMITTED. Correct: never
  more reserved than in stock; reserved units are exactly those of the pending
  orders; stock leaves once per paid order; a callback that got the payment's
  lock can finish; an order and its payment agree; one key, one open order; the
  outbox says what was committed; no transaction hangs on the locks.
* **Expiration worker** - its sub-select takes no locks and its update looks at
  no status. Correct: overdue payments do expire; nothing but pending payments
  does (the code does not keep this, section 11).
* **Outbox** - lease shorter than a publish may take, no owner check when
  marking, crashes between publish and mark, one stream of confirmations for
  everybody who publishes. Correct: every saved event ends published or dead, for
  good; what is published was delivered; two workers have an event at once only
  after its lease ran out.
* **Broker adapter** - confirmations after the timeout; retry by republishing to
  the exchange, so for every subscriber; shutdown in the middle of a delay; a
  connection that is not opened again. Correct: no subscriber loses an event, each
  gets it in its inbox or its dead letter queue, copies die out.
* **Inbox** - duplicates, abandoned claims, marks without a status check, mails
  sent and not recorded. Correct: an event ends processed or failed, for good; a
  processed event was mailed; it was mailed once unless the recovery took it from
  a slow worker or nobody recorded the sending; attempts are bounded.
* **Cart** - read-modify-write on Redis without WATCH; deletion after the order's
  commit; a lost answer to a write that was made; quantities that are added
  without a check of the sum. Correct: what is put in the cart is there until it
  is taken out or ordered, once, except in the named cases.
* **Connection pool** - `ConfirmOrderStockWithTx` takes a second connection while
  its transaction holds one; PATCHes and the expiration worker wait for payment
  rows with a connection in hand. Correct: every wait ends, unless SUCCESS
  callbacks and those that wait for their rows hold all connections.

`PROJECT.json` lists each hazard at its line, with the properties that cover it.

## 2. Plan

| # | Module | Content | State |
|---|---|---|---|
| 1 | `Checkout`, `MCCheckout` | order, payment, product, key and expiration transactions, statement by statement | done |
| 2 | `OrderBook` | what a client is promised: place, settle, each in one atomic step; `Checkout` refines it | done, refinement proved |
| 3 | `CheckoutProofs`, `CheckoutLaws` | inductive invariants and the theorems of section 10 | done |
| 4 | `Delivery`, `Outbox`, `MCOutbox`, `OutboxProofs` | claim, lease, publish, confirm, mark, retry, dead; several workers, late confirmations, crashes; `Outbox` refines `Delivery` | done, its steps proved |
| 5 | `Broker`, `MCBroker`, `BrokerProofs` | queues, consumers with acknowledgement, republish to the exchange, dead letters, shutdown, restart | done |
| 6 | `Inbox`, `MCInbox`, `InboxProofs` | claim, send, mark, retry, recovery | done |
| 7 | `Pipeline`, `MCPipeline`, `PipelineProofs` | `Broker` and `Inbox` side by side, over one inbox table | done, refinement of both proved |
| 8 | `Cart`, `MCCart`, `CartProofs` | concurrent requests on a Redis document and the checkout's read and delete | done |
| 9 | `ConnPool`, `MCConnPool`, `ConnPoolProofs` | connections held while waiting for another | done |
| 10 | `Checkout`: the negative quantities no admin route refuses, and the CHECK constraints that are left to stop them | | done |
| 11 | the order service's inbox rows that nobody claims; a composition of `Checkout` and `Cart`, and of `Outbox` and `Broker` | | left |

All modules use constants with named assumptions, one action per operation,
invariants as conjunctions of named parts, and no `RECURSIVE` operator.

## 3. The checkout model

`Checkout.tla` has one variable per table (or column that matters) and `tx`, the
open transactions.

| Variable | Code |
|---|---|
| `stock`, `reserved` | `product_inventory` |
| `orderStatus`, `items` | `orders.status`, `order_items`; `"NONE"` before the order exists |
| `payStatus` | `payments.status`; a payment is named by its order (`order_id` is unique) |
| `due` | orders with `expired_at <= NOW()` in payment and key (the key gets the payment's time) |
| `keys` | `idempotency_keys`: the order and `PENDING`/`EXPIRED` |
| `recon` | `payment_recon` |
| `outbox` | number of `outbox_events` rows per event type and order |
| `tx` | open transactions: kind, arguments, rows still to lock, the row the current statement asks for, rows held |
| `orderKey`, `manual`, `supplied`, `lowered` | history, used by properties only (and by the bounds) |

**Transactions.** A request handler or worker runs one transaction at a time. A
statement that takes a row lock (`SELECT ... FOR UPDATE`, `UPDATE`, the insert of
a primary key) is a step of its own, enabled when no other transaction holds the
row. Everything a transaction writes lies in rows it holds or has just inserted
until it ends, so nobody else reads or overwrites the uncommitted value and the
writes may be applied at the commit; the variables hold committed data, which is
what READ COMMITTED shows to others. A rollback is then the return of `tx[t]` to
`Idle`. Reads without a lock happen before the transaction (`Replayed`) or in the
sub-select of `ExpirePayments` (`SelectExpired`), and are separate steps.

| Action | Code |
|---|---|
| `StartCreate` | `CheckIdempotency`, cart read, `Begin` |
| `ReserveStockWithTx` | per item: lock, compare, reserve; in any order of the items, as Go's map iteration |
| `SaveIdempotencyKey` | insert of the key; waits for another open insert of it, fails on a committed one |
| `CommitCreate` | order, items, payment, key, `order.created`, reservation, commit |
| `LockPayment`, `LatePayment`, `AddPaymentRecon` | `processCallback`: lock and look at the status; success after expiry goes to reconciliation in a statement of its own |
| `SettleStock`, `CommitCallback` | confirm or release item by item; payment, order, key, event, commit |
| `SelectExpired`, `ExpirePayment`, `CommitExpire` | snapshot, row-by-row update, events and commit of `ExpirePayments` |
| `Rejected` | the errors the code itself returns, with the deferred rollback |
| `Fail` | two-second context, lost connection, dead process |
| `DeadlockVictim` | Postgres ends one transaction of a waiting cycle |
| `UpdatePaymentStatus`, `UpdateStock`, `ReserveStock`, `ReleaseStock`, `ConfirmStock` | PATCH and admin routes: one row, one statement (or lock, check, update, commit of one row, which nobody can interleave) |
| `DeleteIdempotencyKey` | the key worker's delete |
| `Overdue` | the clock passes `expired_at` |

**Negative quantities.** The admin routes decode a quantity and check nothing about
it (`internal/product/dto.go:57`), so `Restocks` and `ManualQtys` are integers. What
is left to stop one are the comparisons of the code and, as guards of the actions,
the table's CHECK constraints (`migrations/000001_init_schema.up.sql:19`). They do
not keep the stock above what is reserved: a negative PATCH lowers it, and a
negative release reserves units without a look at the stock. `lowered` counts the
units taken in these two ways. `Covered` has both checks a confirmation can fail:
`ErrInvalidReserved`, and CHECK (stock >= 0) where stock was lowered.

Abstracted: prices and totals (no property depends on them), users, wording of
responses, the JSON of the stored response, logging and tracing. A callback's
`FAILED`/`SUCCESS` is the `kind` of its transaction.

### Properties

Safety: `TypeOK`; `NoOversell` (what is reserved beyond the stock is what
administrators took with negative quantities; where they took none, nothing is);
`ReservedLedger` and `StockLedger` (units are conserved); `CallbackSettles`; `OneOpenOrderPerKey`; `VerdictsAgree`;
`OutboxMatches`; the action property `FinishedStays`; the refinement `KeepsBook`.
Liveness: `TransactionsEnd` and `OverdueExpires`. `IInv` is the inductive invariant of section 10, checked by
TLC before it was proved.

`OneOpenOrderPerKey` is weaker than one may wish on purpose: the key is deleted
when the payment window ends although the order is still pending, and the same
key then places a second order.

### What it implements

`OrderBook.tla` knows four variables of `Checkout` - stock, reserved units, order
status, items - and says how they may change together: `Place` promises units
that are there and makes the order, `Settle` takes an order's units off what is
promised and, when it is paid, off the stock, `ByHand` is an administrator's
change of one product, which may leave less in stock than is promised. `KeepsBook` is `OrderBook!Spec` under the identity mapping:
of the statement-by-statement transactions only the commits show, each as one
step of the book, and locks, rollbacks, deadlocks and dead processes are
stuttering. TLC checks it in `checkout_safety`, `ImplementsOrderBook` proves it.

## 4. The outbox model

`Outbox.tla` starts where `Checkout` stops: a committed row in `outbox`. Every API
process runs one worker; the worker and the process's consumers publish over the
same channel.

| Variable | Code |
|---|---|
| `status`, `retry` | `outbox.status`, `outbox.retry_count` |
| `waiting` | pending events whose `next_attempt_at` is in the future |
| `leased` | events whose `locked_at` is younger than the lease (5 s) |
| `job` | one run of a worker: events still to publish, the one it is at, the acknowledged ones (`publishedIDs`) |
| `sending` | who is between publish and confirmation, i.e. holds `publishMu`; `Copies` are a consumer's republished messages |
| `connected`, `inflight`, `confirms` | the channel: open or not, messages on the way, confirmations not read yet |
| `delivered` | events RabbitMQ has accepted |
| `shifted`, `overrun`, `misread` | history, used by properties only |

| Action | Code |
|---|---|
| `Claim`, `ClaimLost` | `FindUnpublishedAndMarkProcessing`: oldest first, pending and due, or processing with an old lease; one statement, so atomic. The answer may be lost after the commit |
| `Publish`, `PublishFails`, `ReadConfirm`, `ConfirmTimeout`, `ConfirmClosed` | `Broker.Publish`: send under the lock, then take the next confirmation, whatever message it is for, or give up after 5 s |
| `MarkPublishFailed`, `MarkPublished`, `MarkFails` | the marks, guarded by `status = 'PROCESSING'` and nothing else; their errors are logged |
| `PublishCopy` | the republish in `Subscribe`; its confirmation is read by `ReadConfirm` too |
| `BackoffEnds`, `LeaseEnds` | time |
| `Settle` | RabbitMQ takes or refuses the next message and confirms it, in order |
| `ConnectionLost`, `Crash` | the channel closes and nothing opens it again; the process dies and starts with a new one |

No step compares `locked_by`, so it is not a variable. Whether the worker's marks
still apply is decided by the status alone, as in the code: a worker whose lease
ran out may mark, or send back, an event another one has claimed since. The model
shows that this duplicates messages and may even declare an event dead that was
delivered, but does not stop an event from ending, nor count attempts past
`maxRetry`.

Properties: `IInv`, the inductive invariant of section 10, with `TypeOK`
(`retry <= MaxRetry`) in it; `AnswersMatch`, the pairing of
publishes and confirmations by `publishMu`, which holds on a channel until the
first confirmation is given up and is lost from then on until the process
restarts; `PublishedDelivered`, which names the one way a published event can be
undelivered; `SingleSender`, the lease: two workers send an event only when its
lease ended while one of them had it (`overrun`); `Delivers`, the refinement of
`Delivery.tla`: events go `none -> saved -> published | dead`, only saved events
are sent, and, under fairness, every saved event ends. `State` is the refinement
mapping: pending and processing are both "saved".

## 5. The broker, the inbox and the way to the mail

### Broker

`Broker.tla` is one topic of the exchange: the queue and the dead letter queue of
every subscriber, and in every API process one consumer per queue.

| Variable | Code |
|---|---|
| `published` | how often the outbox sent an event (at least once, perhaps again: `Outbox`) |
| `queue`, `dlq` | the subscriber's quorum queue, as a bag, and its dead letter queue, as a set |
| `consumer` | the loop over `msgs` in `Subscribe`: which message, how far |
| `up` | processes whose context is not done |
| `inbox` | events stored for each subscriber |
| `republished`, `misread`, `faults` | history: how often each subscriber's consumers routed a message again; events lost behind another message's confirmation; `faults` is also a bound |

| Action | Code |
|---|---|
| `Deliver` | `Consume` with `Qos(1)`: the next message when the one before is settled |
| `Store`, `StoreFails` | `handler(ctx, event)`: stored and `ErrDuplicateInboxEvent` are the same success; an error may come although the row is there; with `maxRetry` used up the message is refused, else it waits |
| `Republish` | the delay is over: `Publish` with `retryCount + 1` to the exchange, so to every bound queue; anything but an ACK refuses the message, also when its copy was routed; an ACK may be another message's (`Outbox!AnswersMatch`) |
| `StopDelay` | `ctx.Done()` in the `select`: refuse, and the goroutine returns |
| `Ack`, `Nack` | `d.Ack(false)`, `d.Nack(false, false)` |
| `ShutDown`, `ConnectionLost`, `Crash`, `Replace` | the end of `main`; a connection that closes, which ends the loops and is opened by nobody; a process that dies; a process that is started in the place of one that stopped |

A queue is a bag because several consumers and redelivery leave no order to rely
on. The phase between the end of a handler and its acknowledgement is a step of
its own, so a crash there redelivers what was stored. `Accounted` (nothing is
lost to a subscriber), `CopiesBounded` (how fast republished copies multiply),
`IInv` that carries both, `EventSettles` and `QueuesDrain` (retries end, copies die
out). `CopiesBounded` counts ways: a subscriber has no more copies of a try than the
outbox's publishes times the ways to get to that try, each of which says whose
handler failed each time (`Failures`); it holds while nothing is redelivered, for a
crash delivers a copy twice. `EventSettles`
counts the dead letter queue as an end, because a shutdown during a delay and a
republish that times out send a healthy event there.

### Inbox

`Inbox.tla` is the table `inbox_events` for the consumer `mail-service` and the
workers of all processes.

| Variable | Code |
|---|---|
| `status`, `retry` | the columns; `"NONE"` is no row |
| `waiting` | pending events with `next_attempt_at` in the future |
| `old` | `processing_started_at` is two minutes ago |
| `job` | the slice `Claim` returned, with the retry counts read then, the event in progress, whether its mail went out |
| `mails` | mails sent, told apart up to `MailCap` |
| `retaken`, `unsure` | history: recovered while a worker had it; sent and not recorded |

`Claim` is one statement with `FOR UPDATE SKIP LOCKED`, so any batch of what is
claimable; `ClaimLost` is its commit without an answer. `SendMail` is
`handleInboxEvent`: an SMTP session that breaks off at its end may have sent the
mail. `MarkProcessed`, `MarkPending` and `MarkFailed` do not look at the status,
as in the code; each may be the last thing the worker does with the batch
(`Proceed`), because `ProcessInbox` returns when a mark errs. `Abandon` is the
same without the mark having been made, or a process that dies.
`RecoverProcessing` takes what is old, whether its worker lives or not.

`SingleHolder`, `MailedOnce` and `FinalStays` say what is left of "one worker, one
mail, one end" with such marks: exceptions only for events the recovery took from
a worker (`retaken`) and mails nobody recorded (`unsure`). `RetriesBounded`:
workers that overwrite each other's marks try an event at most once more each.
`IInv`, which carries these, is checked and proved.
`MailedIfProcessed`, and `EventsEnd` under fairness.

### Pipeline

`Pipeline.tla` runs both over one table: `Broker`'s inbox of the mail service is
the set of rows of `Inbox`, and a step of `Broker` that stores an event there is a
`Save` of `Inbox`. So `Save` happens only when a handler runs, duplicates are what
the broker delivers, and the recovery, the workers and redelivery interleave.
`MailedOnceEndToEnd` and `DuplicatesChangeNothing` are the inbox's promises with
the broker as environment; `EveryEventEnds` goes from the publish to the final
status. That the composition does nothing either part would not do alone is proved
(`ImplementsInbox`, `ImplementsBroker`), so what is proved of the parts holds of it. A consumer and the inbox worker of one process crash independently of
each other in the model, which allows more than the program does.

## 6. The cart

`Cart.tla` is the Redis document of one user and the user's requests. `AddItem`,
`RemoveItem` and `UpdateQuantity` read the document (`ReadTo...`), change it in
memory (the operators with the names of the methods in `model.go`) and write all
of it (`Write`), without WATCH; `CreateOrder` reads it before its transaction
(`ReadToOrder`), commits an order for what it read (`CommitOrder`) and deletes
what the cart is then (`ClearCart`), or fails to (`ClearFails`); `DeleteCart`
does not read; `Expire` is the retention of 24 hours. `Write` may be made and not
confirmed. Quantities are two's complement numbers and wrap, as Go's `int` does;
`Half` is 2^63 in the program.

`owed` is what the customer should find: what was added and not removed or
ordered. `causes` collects what may put it and the cart apart: a request that
wrote back or deleted a cart that had changed since it read it (`stale`), an
unconfirmed write, the cart of an order left over. `CartLedger` says that these
are all the causes there are, so that an addition, removal, order or expiry in
any other interleaving loses, revives or orders twice nothing.
`QuantitiesPositive` has one exception, a sum that ran over. Prices are left out;
a cart without items and no cart are the same to every operation.

## 7. The connection pool

`ConnPool.tla` is one process with a pool of `Size` connections. `Begin` takes one
to the end of the transaction, and `LockPayment` waits for the row of the payment
(`GetByIDForUpdate`). The transaction of a SUCCESS callback then reads the
order's items through the pool (`ListOrderItems`, `internal/order/service.go:146`)
while it holds its own connection; that of a FAILED one reads them in the
transaction. A PATCH (`UpdateStatus`) keeps a connection while its UPDATE waits for
the row. Only `CreateOrder` has a deadline (`Timeout`); the others wait until their
caller goes away (`HangUp`), on which there is no fairness.

The expiration worker (`sweep`) is one more transaction with no deadline at all:
`SweepBegin` takes a connection and finds pending payments that are overdue, without
locks; `SweepRow` waits for one row after the other and keeps those it has;
`SweepCommit` makes the rows expired and lets them go.

`RequestsEnd`: every request and every run of the worker ends, or the pool gets
`Exhausted`, that is, every connection is held by a SUCCESS callback that waits for
a second one, or by a request or the worker waiting for the row of such a callback,
or by a request waiting for a row of the worker then. `OnlyHangUpHelps`: out of
that state leads nothing the process or the database does. `StuckMeansExhausted`
says why the first is so: requests and a worker that all wait are an exhausted pool.
With `pgxpool`'s default size (the number of CPUs, at least 4) this takes as many
transactions at a time as connections, but only one SUCCESS callback among them:
its repetitions, PATCHes of its payment and the worker do for the others.

## 8. Runs and bounds

| Run | Question | Bounds |
|---|---|---|
| `checkout_safety` | are all safety properties kept in every interleaving, with failures at any statement, and is the order book implemented? | 1 product (2 in stock, one restock, one unit by hand, admin quantities of 1 and -1, up to 2 units lowered), carts of 1 or 2 units, 2 orders, 2 keys, 2 handlers, 1 worker, batch 2; symmetry of orders, keys and handlers; 566,102 states |
| `checkout_liveness` | do transactions end in spite of deadlocks, do overdue payments expire? | 2 products, every cart has both; 2 orders, 1 key, 2 handlers, 1 worker; no symmetry |
| `checkout_patch`, `checkout_race`, `checkout_expiration` | the three documented promises the code does not keep | 1 product, 1 order |
| `outbox_channel` | does every publish read its own confirmation, and is what is published delivered? | 1 worker, a consumer's copy, 2 events, 2 attempts, 1 late confirmation at a time; about 1 million states |
| `outbox_delivery` | do lease and status guards hold between workers, and is `Delivery` implemented, with its liveness? | 2 workers, 1 event, 3 attempts, 1 late confirmation; no symmetry |
| `broker` | is no event lost or retried for ever? | 1 event, 2 subscribers, 1 process, 1 retry, 2 faults; 395,819 states |
| `inbox` | do workers that overwrite each other lose, repeat or revive an event? | 2 workers, 2 events in one batch, 1 retry; 268,875 states |
| `pipeline` | is the event mailed once and does it end, from the exchange on? | 1 event published twice, 1 subscriber, 2 processes, 1 retry on either side, no faults of the broker's; 262,976 states |
| `cart` | what can put the cart and what the customer asked for apart? | 2 requests, 2 products, quantities of 3 bits (`Half` 4); symmetry of both; 4.3 million states |
| `pool` | can requests wait for each other for ever, and what resolves it? | 3 requests, the worker, 2 payments, 2 connections; 127,680 states |

Why the checkout bounds are enough to be interesting: two carts may together ask
for more than there is (2+1 units of 2), the two orders may share a key or not, two handlers
and the worker are three transactions, so two callbacks and an expiration of the
same payment overlap, and an admin call can take the units of an order, reserved or in
stock: two negative quantities empty the shelf under a pending order of two. Two
handlers with two products are the smallest deadlock. `MaxSupply`, `MaxManual` and `MaxLowered` bound the admin calls
only.

In the outbox runs, a late confirmation needs one more message on the channel to
do harm (another event or a consumer's copy), a batch of two has an acknowledged
event that waits for its mark while the other is published, and two workers are
enough for a lease to run out under one and be taken by the other. `MaxLate`
bounds how many messages may be on a channel when a confirmation is given up; it
does not keep anything from ending because the broker answers in the end.

The limits `MaxRetry` (3 for the broker, 5 for the inbox) are 1 in the runs:
that is a first attempt, a retry, and a message or event that used its retries
up. In `broker` two subscribers are enough for a copy to reach the queue of a
subscriber that did not fail, and two faults for a shutdown followed by a crash.
In `inbox` a batch of two is the smallest in which a mark that errs abandons
another event, two workers are enough for a recovery under one's hands, and the
history variables need no bound. `pipeline` needs the duplicates, which come from
the second publish and from retries, and leaves faults to `broker`. In `cart` two
overlapping requests are every pair of operations, and three bits run over after
three additions. In `pool` two connections are exhausted by two different
callbacks, by one and its repetition or a PATCH, and by one and the worker, with a
third request waiting.

Deadlock checking is off in the runs that come to rest when their bounded supply
of orders or events is used up (not in `cart` and `pool`, where requests always
may arrive); that nobody waits for ever is `TransactionsEnd`, `EventsEnd`,
`EventSettles`, `RequestsEnd` and the liveness in `Delivers`.

Each property of a passing run has a mutant: a definition with the change a
plausible bug would make (no `FOR UPDATE`, upsert instead of insert, a missing
status check, fewer events, a missing rollback, a requeue instead of a refusal),
which violates the property under the same run. The mutants stand before the
definitions they replace.

## 9. Fairness

Of `Checkout`:

* `SF(Statement(t))` - an open transaction goes on. Strong, because the row it
  waits for may be taken and released by others again and again; Postgres grants
  a row's lock in the order of asking, so a waiter is not overtaken for ever.
* `WF(DeadlockVictim(t))` - the deadlock detector runs after `deadlock_timeout`.
* `SF(SelectExpired(w))` - the worker's ticker fires every ten seconds whatever
  others do; each tick selects what is overdue then.
* `FaultsEnd` - from some time on transactions fail only for a reason of their
  own (a statement that errs, a deadlock). Without it a crash at each attempt
  would keep everything pending.

There is no fairness on requests, callbacks, admin calls or the key worker. The
liveness run has one expiration worker: with two, choosing victims without the
order of the lock queue would allow two workers to deadlock with each other for
ever, which the queue excludes and the model does not express.

Of `Outbox`: `WF(Claim(p))` is the ticker; `WF(Work(p))` a run that goes on by
itself, and `SF` of its steps on the job because a consumer may take `publishMu`
in between, which Go hands to a waiter that has waited long; `WF` of the broker's
answer, of backoffs and of leases is time passing. `FaultsEnd` again says that
crashes, lost connections and failing updates stop some day. A connection that is
lost for good is allowed: the events then end dead.

Of `Broker`: `WF(Consume(i, s))`, a consumer reads on and settles what it read,
one way or another: the handler may fail every time, and the event then ends by
its retry limit; `WF(Replace(i))`, a process that stopped is
started again by whoever runs it, which the code leaves to its operator. Faults
are bounded in number.

Of `Inbox`: `WF(Claim(p))` is the loop that sleeps a second, `WF(Work(p))` the
worker going through its batch, `WF` of `BackoffEnds` and `GrowOld` time,
`WF(RecoverProcessing)` the ticker of a minute. `FaultsEnd` says that from some
time on no claim's answer is lost and no batch abandoned before a mark; without
it an event that kills its worker is tried for ever, because the recovery does not
count the attempt. Nothing is assumed of SMTP: all mails may fail.

Of `ConnPool`: `SF(Work(r))` and `SF(SweepWork)`, since both `pgxpool` and Postgres'
row locks serve waiters in order, and `WF(Timeout(r))`; nothing is assumed of
`Tick`. `Cart` states no fairness and no liveness.

## 10. Proofs

Everything is proved for every value of the constants that meets the modules'
named assumptions, which TLC evaluates for the values of the runs:

| Module | Assumed |
|---|---|
| `Checkout` | the names of rows distinct, finitely many orders, carts of natural quantities, at most `MaxQty`; the quantities of the admin routes any integers but 0 |
| `Outbox` | events are numbers (their age), and not the names of copies; batch and retry limit at least one |
| `Broker` | finitely many subscribers and processes; at least one publish |
| `Inbox` | finitely many workers; batch and retry limit at least one |
| `Pipeline` | what `Broker` and `Inbox` assume, the mail service one of the subscribers |
| `Cart` | finitely many requests; the quantities asked for fit the integer |
| `ConnPool` | finitely many requests; at least one connection |

Where a number of processes or requests is assumed finite, the proof counts them.

| Module | Theorem | Statement |
|---|---|---|
| `CheckoutProofs` | `Invariant` | `Spec => []IInv` |
| | `TypeCorrect` | `Spec => []TypeOK` |
| | `NeverOversold` | `Spec => []NoOversell` |
| | `ImplementsOrderBook` | `Spec => KeepsBook` |
| `CheckoutLaws` | `Agreement` | `Spec => []VerdictsAgree` |
| | `EventsTellTheTruth` | `Spec => []OutboxMatches` |
| | `KeyPlacesOneOrder` | `Spec => []OneOpenOrderPerKey` |
| | `SettledStays` | `Spec => FinishedStays` |
| | `ReservedConserved` | `Spec => []ReservedLedger` |
| | `StockConserved` | `Spec => []StockLedger` |
| | `CallbackCanSettle` | `Spec => []CallbackSettles` |
| `OutboxProofs` | `OutboxInvariant` | `Spec => []IInv` |
| | `ConfirmationsMatch` | `Spec => []AnswersMatch` |
| | `PublishedWasDelivered` | `Spec => []PublishedDelivered` |
| | `OneSender` | `Spec => []SingleSender` |
| | `ImplementsDelivery` | `Spec => Promise!Steps` |
| `BrokerProofs` | `BrokerInvariant` | `Spec => []IInv` |
| | `NothingLost` | `Spec => []Accounted` |
| | `CopiesStayBounded` | `Spec => []CopiesBounded` |
| | `RepublishingEnds` | `Spec => []RepublishesBounded` |
| `InboxProofs` | `InboxInvariant` | `Spec => []IInv` |
| | `InboxTypes` | `Spec => []TypeOK` |
| | `ClaimsDisjoint` | `Spec => []SingleHolder` |
| | `OneMail` | `Spec => []MailedOnce` |
| | `ProcessedWasMailed` | `Spec => []MailedIfProcessed` |
| | `RetriesEnd` | `Spec => []RetriesBounded` |
| | `FinalIsFinal` | `Spec => FinalStays` |
| | `HeldHaveRows` | `Spec => []HeldStored` |
| `PipelineProofs` | `ImplementsInbox` | `Spec => Mail!Spec` |
| | `ImplementsBroker` | `Spec => Exchange!Spec` |
| | `OneMailEndToEnd` | `Spec => []MailedOnceEndToEnd` |
| | `DuplicatesAreIgnored` | `Spec => DuplicatesChangeNothing` |
| | `NothingLostEndToEnd` | `Spec => []Exchange!Accounted` |
| `CartProofs` | `CartInvariant` | `Spec => []IInv` |
| | `CartConserved` | `Spec => []CartLedger` |
| | `QuantitiesStayPositive` | `Spec => []QuantitiesPositive` |
| `ConnPoolProofs` | `PoolInvariant` | `Spec => []IInv` |
| | `OnlyExhaustionBlocks` | `Spec => []StuckMeansExhausted` |
| | `HangUpIsTheOnlyWayOut` | `Spec => OnlyHangUpHelps` |

**Checkout's invariant.** `NoOversell` is not inductive: between reading the
available units and committing there are other steps. `IInv` adds what a transaction may rely on meanwhile.
`LocksExclusive`: no two transactions hold a row. `CreateOK`: for each product a
new order has locked, its units still fit into the stock. `SettleOK`: the payment
a callback holds is pending, so is its order, and for each product it has locked
its units are reserved. `ExpireOK`, `ReconOK`: what the worker selected was
overdue. `StatusOK`: order and payment begin together and a pending payment has a
pending order. The step lemmas follow one pattern: `OwnStep` (a transaction moves
and commits nothing), `CommitStep` (one transaction commits; the rows the others
hold are not the rows it writes), `StockStatementStep` (a single statement on a
row nobody holds, which widens the gap between what is reserved and what is in
stock by no more than it adds to `lowered`). `TypeCorrect` is worth having because
quantities change by deltas: the model applies a transaction's writes at its commit
without a check, and that they leave natural numbers is `SettleOK`: what was
checked when the row was locked is still true.

**The order book.** Each commit is shown to be a step of `OrderBook`, each admin
call a `ByHand`, and every other action to leave its four variables alone. What
makes the commits steps of the book is the invariant: `CreateOK` at `CommitCreate`
says that the units are there, `SettleOK` at `CommitCallback` that the order is
pending and its units reserved and in stock.

**Verdicts.** A step either tells something (`Telling`: commits, PATCH, the key
worker, time) or leaves order, payment, key and outbox alone, and only the former
are gone through. `OneOpenOrderPerKey` needs `KeysOwned`: the key of an order that is
pending and not overdue is in the table and names that order.

**Ledgers.** `Balanced` states the two ledgers, as equations over the cardinality
of `Units`; `UnitsGained` and its counterparts say how a set of units changes
when one order gets or loses a status. `CallbackSettles` follows: if administrators
took no units of a product by hand, what is reserved covers the pending order; and if they
took none with a negative quantity, `NoOversell` puts them in stock.

**The outbox's invariant.** `HeldOK` is what the lease is for: an event a worker
has is being processed and leased, unless its lease ended meanwhile (`overrun`).
With it nobody else can claim the event, which is `HeldApart` and, of the event
under way, `SingleSender`. `AnswersMatch` says of a channel on which nobody gave a
confirmation up that what is on its way or unread is exactly the message being
sent; `JobsOK` ties that message to the event the worker is at. `AcksTrue` follows
it on to the mark: what a worker takes for acknowledged the broker has accepted,
or the confirmation was another message's (`misread`), and `PublishedDelivered`
says the same of what is marked. `RetriesLeft` makes the count in `TypeOK`
inductive: an event that is not dead has an attempt left.

**The outbox's promise.** `ImplementsDelivery` shows the safety part of `Delivers`:
`MarkPublished` finishes the events it marks in one step of `Delivery` and
`MarkPublishFailed` either finishes one or stutters, because both look at the status; a
message RabbitMQ accepts is a `Send`, for which `SavedFirst` carries from the claim
through the channel that the event was saved.

**The broker's invariant.** `Accounted` is not inductive, because it counts a copy
in the hands of a consumer that has stored the event and only has to acknowledge
it. `AckedNotNeeded` does not: an event that is published and neither stored nor dead
nor lost behind another message's confirmation has a copy that is still ready or
still being handled. `ConsumersOK` gives the delayed message a retry left,
so that the copy a `Republish` makes is one of `Messages`. These three are
`Lossless`, and do not depend on the counts.

**How copies multiply.** `CopiesOK` is the bookkeeping of `CopiesBounded` while there
is no fault. `Routed(m)` is how often `m` was routed: as often as the outbox
published it, or, for a retry, once for each time some subscriber republished the
try before, counted as pairs of a subscriber and a number (`Republications`). A
subscriber has at most that many copies, ready or in hand, and what it has
republished of them, what it may still republish (`Trying`) and what is ready
together are at most that many: a copy is republished once. `Deliver` moves a copy
from one term to another, `Publish` and `Republish` add one to `Routed` where they
add one to every queue. Then no subscriber republished a try more often than it was
routed, so the next one was routed at most the number of subscribers times as often
(`NumberedBound`), and there are exactly as many times more ways to fail
(`FailuresGrow`, by a bijection). The induction over tries (`RoutedWithin`) is by
`NaturalSet`: a set of naturals with 0 and the successor of each member is all of
them, from the library's theorem that `<` is well founded. That states over a set
what the library's induction theorems state over an operator, which the provers
cannot instantiate. `RepublishingEnds` says the same of `republished`: retries do not
feed each other for ever.

**The inbox's invariant.** To `MailedOnce` and `SingleHolder` it adds `ClaimsApart`
(an event is once in a worker's batch, and only the event a worker is at can be
sent and not marked), `HeldOK` (what a worker has is PROCESSING or was taken from
it, so nobody else can claim it), and `MailsOK` (a mail that was sent is recorded,
about to be, or in one of the exceptions). `HeldOK` is where the claim's guard on
the status enters, and `MailsOK` why a second mail has a reason. `RetriesBounded`
is carried by `AttemptsLeft`: once an event has used its attempts up, its count
and the workers that read an earlier count (`Trying`) together stay within the
bound. No worker joins them then, because it would read the full count, and each
that adds one leaves them.

**The pipeline.** `PipelineProofs` instantiates the proofs of both parts, `Box` for
`InboxProofs` and `Queues` for `BrokerProofs`, over the pipeline's variables, and
shows what each needs of the other. To the inbox the broker is whoever calls
`Save` (a composed step is written that way); to the broker a step of the inbox
worker is invisible, because it adds and removes no row (`ProcessRows`), for which
`HeldHaveRows` is needed: what a worker marks has a row. So each step of the
pipeline is a step of each part or leaves it alone, and the parts' theorems hold
end to end.

**The cart's ledger.** `CartLedger` speaks of the moments between requests; `Ledger`
holds at all of them. What is owed is what is in the cart less the units `Placed`
by orders that are committed and whose cart is not deleted yet, as long as none of
the causes has come in. `RequestsOK` says that what a request adds is
positive, and so are the quantities it read, up to sums that ran over; hence
`QuantitiesPositive`.

**The pool.** `TypeOK` has it that no more connections are in use than there are,
`RowsOK` that a payment's row is held once, by a callback that settles it for the
first time or by the worker, `KindsOK` that a checkout neither locks a payment nor
asks for a second connection, `SweepOK` that the worker has rows in a transaction
only. `OnlyExhaustionBlocks`: when all wait, whoever holds the row of another wants
a connection, or is the worker and waits for the row of somebody who does; so none
is free, and every one is held by who wants another or waits for such a row.
`HangUpIsTheOnlyWayOut`
goes through the actions: with no connection free and none about to be returned,
each but `HangUp` is disabled or leaves the pool exhausted.

**Only model-checked:**

* All liveness, since it rests on fairness and so on ENABLED: `TransactionsEnd`,
  `OverdueExpires`, the fairness of `Delivery` in `Delivers`, `EventSettles`,
  `QueuesDrain`, `EventsEnd`, `EveryEventEnds`, `RequestsEnd`. `RetriesEnd`,
  `OnlyExhaustionBlocks`, `NothingLost`, `CopiesStayBounded` and
  `RepublishingEnds` are the safety arguments they rest on.
* The three documented promises the code does not keep, which are refuted by runs.

## 11. Where code and documents disagree

1. `src/README.md:53` says payment success marks the order as paid. PATCH
   `/payments/{id}` with SUCCESS changes the payment only (`checkout_patch`).
2. `src/docs/create_order.md:31` says the worker does not touch PAID. The update
   of `ExpirePayments` waits for a callback's row lock and then overwrites its
   SUCCESS with EXPIRED (`checkout_race`).
3. `src/README.md:54` says expiration cancels the order and releases its stock.
   The consumer's call of `CancelOrder` is commented out; the order stays pending
   and its units reserved (`checkout_expiration`).

`VerdictsAgree` and `FinishedStays` state what remains true in spite of these.

Smaller ones met on the way, each expressed by the exception a property makes:

* `docs/cart.md:47` says the quantity of an item is greater than zero. `AddItem`
  checks the quantity it adds and not the sum, so a quantity may run over
  (`QuantitiesPositive` excepts `wrapped`).
* `internal/events/inbox_repository.go:36` says no other worker takes a claimed
  event because it is PROCESSING; the recovery makes it pending again after two
  minutes whether its worker is alive or not (`SingleHolder` excepts `retaken`).
* `docs/tech_debts.md:44-49` knows that the cart is not in the order's
  transaction (`CartLedger` excepts `leftover` and `stale`).

## 12. What is left out

Of the checkout: `CreateProduct` (a row nobody holds yet); `CancelOrder`,
`ProcessPaymentSuccess`, `ProcessPaymentFailed` (no route calls them);
`POST /payments` (its insert is refused for every order this code creates, since
each has a payment). Reads that change nothing. Of the outbox: `UpdateOutboxEventsStatus`, which nothing calls, the
length of backoffs, and `SKIP LOCKED`, since a claim and a mark are one statement
each.

Of the broker: a body that cannot be decoded (nothing publishes one), the order of
a queue, and what RabbitMQ does to survive its own failures. Of the inbox: the
rows of the order service, which are stored and claimed by nobody, and the
processed-message functions of `internal/mail/repository.go`, which nothing calls.
Of the cart: prices and totals; Redis is one copy that does what it is told, or
does it without its answer arriving. Of the pool: the statements that take a
connection and give it back at once, which hold nothing while they wait, and the
row locks of products, which `checkout_liveness` is about. `Checkout` and `Cart`
are not composed: an order's cart is any cart of quantities of at least 1 in
`Checkout`, and `Cart` has a transaction that commits or fails. `Cart` can also
produce a quantity that ran over to a negative number (`wrapped`); what an order
with such a cart does to the stock is not modelled.

Users, authentication, configuration, logging and metrics are not modelled because
no other component's state depends on them. The order in which a process stops its
parts, and its limit of five seconds, are not modelled; a part may stop at any
step.
