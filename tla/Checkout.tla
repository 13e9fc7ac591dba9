------------------------------ MODULE Checkout ------------------------------
(***************************************************************************)
(* Placing and settling an order: the Postgres transactions of the order,  *)
(* payment and product services, interleaved statement by statement under  *)
(* READ COMMITTED.  A payment is named by its order (UNIQUE (order_id)).   *)
(*                                                                         *)
(* Every row a transaction writes it also locks until it ends, so its      *)
(* writes are applied at its commit and the variables hold committed data. *)
(***************************************************************************)
EXTENDS Integers, FiniteSets

CONSTANTS
  Products,      \* product_inventory rows
  Orders,        \* fresh order ids; the payment of order o is called o too
  Keys,          \* idempotency keys
  Handlers,      \* concurrent HTTP requests, each with one transaction
  Workers,       \* payment expiration workers, one per running instance
  Carts,         \* the carts users submit: quantity of each product
  MaxQty,        \* bound: the largest quantity of a product in a cart
  InitialStock,  \* stock of each product at the start
  Restocks,      \* quantities PATCH /products/{id}/stock is called with
  ManualQtys,    \* quantities of the admin reserve, release, confirm calls
                 \* (no route refuses a negative one)
  MaxSupply,     \* bound: the stock ever supplied of a product
  MaxManual,     \* bound: net units reserved by hand, either sign
  MaxLowered,    \* bound: units taken by negative quantities of a product
  Batch,         \* LIMIT of the workers' statements
  None

ASSUME RowsAssumption ==
  /\ Products \cap Orders = {} /\ Products \cap Keys = {} /\ Orders \cap Keys = {}
  /\ None \notin Products \cup Orders \cup Keys

ASSUME SizesAssumption ==
  /\ IsFiniteSet(Orders)
  /\ MaxQty \in Nat /\ Batch \in Nat \ {0}
  /\ MaxSupply \in Nat /\ MaxManual \in Nat /\ MaxLowered \in Nat

ASSUME QuantitiesAssumption ==
  /\ Carts \subseteq [Products -> 0..MaxQty]
  /\ InitialStock \in [Products -> Nat]
  /\ Restocks \subseteq Int \ {0}
  /\ ManualQtys \subseteq Int \ {0}

Txs  == Handlers \cup Workers
Rows == Products \cup Orders \cup Keys

OrderStatuses == {"NONE", "PENDING", "PAID", "CANCELLED"}
PayStatuses   == {"NONE", "PENDING", "SUCCESS", "FAILED", "CANCELLED", "EXPIRED"}
KeyStatuses   == {"PENDING", "EXPIRED"}
EventTypes    == {"order.created", "payment.callback.processed", "payment.expired"}
Kinds         == {"idle", "create", "confirm", "release", "expire", "recon"}

VARIABLES
  stock, reserved,      \* product_inventory
  orderStatus, items,   \* orders, order_items
  orderKey,             \* history: the idempotency key an order was placed with
  payStatus,            \* payments.status
  due,                  \* orders whose payment's (and key's) expired_at has passed
  keys,                 \* idempotency_keys, by key
  recon,                \* payment_recon, by payment
  outbox,               \* how often each event was saved for an order
  manual,               \* history: net units reserved through the admin endpoints
  supplied,             \* history: initial stock + restocks - units confirmed by hand
  lowered,              \* history: units a negative quantity took from the stock, or
                        \* reserved without a look at it
  tx                    \* the open transactions

inventory == <<stock, reserved>>
orders    == <<orderStatus, items, orderKey>>
history   == <<manual, supplied, lowered>>
vars == <<stock, reserved, orderStatus, items, orderKey, payStatus, due, keys,
          recon, outbox, manual, supplied, lowered, tx>>

NoItems == [p \in Products |-> 0]
NoKey   == [order |-> None, status |-> "EXPIRED"]

\* An open transaction: the rows it has still to lock, the one its current
\* statement asks for, and the ones it holds.
Idle == [kind |-> "idle", order |-> None, key |-> None, qty |-> NoItems,
         todo |-> {}, want |-> None, held |-> {}]

TypeOK ==
  /\ stock \in [Products -> Nat] /\ reserved \in [Products -> Nat]
  /\ orderStatus \in [Orders -> OrderStatuses]
  /\ items \in [Orders -> [Products -> 0..MaxQty]]
  /\ orderKey \in [Orders -> Keys \cup {None}]
  /\ payStatus \in [Orders -> PayStatuses]
  /\ due \subseteq Orders /\ recon \subseteq Orders
  /\ keys \in [Keys -> [order : Orders \cup {None}, status : KeyStatuses]]
  /\ outbox \in [EventTypes -> [Orders -> Nat]]
  /\ manual \in [Products -> Int] /\ supplied \in [Products -> Int]
  /\ lowered \in [Products -> Nat]
  /\ tx \in [Txs -> [kind : Kinds, order : Orders \cup {None},
                     key : Keys \cup {None}, qty : [Products -> 0..MaxQty],
                     todo : SUBSET Rows, want : Rows \cup {None},
                     held : SUBSET Rows]]

-----------------------------------------------------------------------------
(* Transactions and row locks *)

Free(r)    == \A u \in Txs : r \notin tx[u].held
Contents(qty) == {p \in Products : qty[p] > 0}

\* A statement that asks for row r gets it once no other transaction holds it.
Grants(t, r) == tx[t].want = r /\ r \in Rows /\ Free(r)

\* The rows the next statement may ask for: the order of the remaining rows is
\* not fixed (a Go map, ORDER BY a shared created_at, a scan); the key of a new
\* order is inserted last.
NextRows(kind, key, todo, held) ==
  IF todo # {} THEN todo
  ELSE IF kind = "create" /\ key \notin held THEN {key} ELSE {None}

\* Transaction t begins, or comes to its next statement.
Proceed(t, kind, o, k, qty, todo, held) ==
  \E r \in NextRows(kind, k, todo, held) :
    tx' = [tx EXCEPT ![t] = [kind |-> kind, order |-> o, key |-> k, qty |-> qty,
                             todo |-> todo, want |-> r, held |-> held]]

\* Transaction t gets the row it asked for.
LockRow(t) ==
  LET T == tx[t] IN
  Proceed(t, T.kind, T.order, T.key, T.qty, T.todo \ {T.want}, T.held \cup {T.want})

End(t) == tx' = [tx EXCEPT ![t] = Idle]

\* What is left of a rolled back transaction: nothing.
Rollback(t) ==
  /\ End(t)
  /\ UNCHANGED <<inventory, orders, payStatus, due, keys, recon, outbox, history>>

\* LIMIT Batch takes that many of the selected rows, or all when there are fewer.
Limited(S) == {B \in SUBSET S : \/ B = S /\ Cardinality(S) <= Batch
                                \/ Cardinality(B) = Batch}

-----------------------------------------------------------------------------
(* POST /orders/create: CheckIdempotency, then CreateOrder *)

Available(p) == stock[p] - reserved[p]

\* GetIdempotencyKey finds the row, and the stored response is replayed.
Replayed(k) == keys[k].order # None /\ keys[k].status # "EXPIRED"

\* The key is looked up and the cart read before the transaction begins.
StartCreate(t, o, k, cart) ==
  /\ tx[t].kind = "idle" /\ t \in Handlers
  /\ orderStatus[o] = "NONE" /\ \A u \in Txs : tx[u].order # o
  /\ ~Replayed(k)
  /\ Contents(cart) # {}
  /\ Proceed(t, "create", o, k, cart, Contents(cart), {})
  /\ UNCHANGED <<inventory, orders, payStatus, due, keys, recon, outbox, history>>

\* mutant: SELECT without FOR UPDATE.
ReserveStockUnlocked(t) ==
  /\ tx[t].kind = "create" /\ tx[t].want \in Products
  /\ Available(tx[t].want) >= tx[t].qty[tx[t].want]
  /\ LockRow(t)
  /\ UNCHANGED <<inventory, orders, payStatus, due, keys, recon, outbox, history>>

ReserveStockWithTx(t) ==
  LET p == tx[t].want IN
  /\ tx[t].kind = "create" /\ p \in Products /\ Grants(t, p)
  /\ Available(p) >= tx[t].qty[p]
  /\ LockRow(t)
  /\ UNCHANGED <<inventory, orders, payStatus, due, keys, recon, outbox, history>>

\* mutant: INSERT ... ON CONFLICT DO UPDATE.
UpsertIdempotencyKey(t) ==
  /\ tx[t].kind = "create" /\ tx[t].want = tx[t].key /\ Grants(t, tx[t].key)
  /\ LockRow(t)
  /\ UNCHANGED <<inventory, orders, payStatus, due, keys, recon, outbox, history>>

\* The primary key makes the insert wait for another open insert of the key.
SaveIdempotencyKey(t) ==
  /\ tx[t].kind = "create" /\ tx[t].want = tx[t].key /\ Grants(t, tx[t].key)
  /\ keys[tx[t].key] = NoKey
  /\ LockRow(t)
  /\ UNCHANGED <<inventory, orders, payStatus, due, keys, recon, outbox, history>>

CommitCreate(t) ==
  LET o == tx[t].order
      k == tx[t].key IN
  /\ tx[t].kind = "create" /\ tx[t].want = None
  /\ reserved' = [p \in Products |-> reserved[p] + tx[t].qty[p]]
  /\ orderStatus' = [orderStatus EXCEPT ![o] = "PENDING"]
  /\ items' = [items EXCEPT ![o] = tx[t].qty]
  /\ orderKey' = [orderKey EXCEPT ![o] = k]
  /\ payStatus' = [payStatus EXCEPT ![o] = "PENDING"]
  /\ keys' = [keys EXCEPT ![k] = [order |-> o, status |-> "PENDING"]]
  /\ outbox' = [outbox EXCEPT !["order.created"][o] = @ + 1]
  /\ End(t)
  /\ UNCHANGED <<stock, due, recon, history>>

-----------------------------------------------------------------------------
(* POST /payments/callback: processCallback *)

\* mutant: the payment is read without FOR UPDATE.
ReadPayment(t, o, kind) ==
  /\ tx[t].kind = "idle" /\ t \in Handlers
  /\ payStatus[o] = "PENDING"
  /\ Proceed(t, kind, o, None, items[o], Contents(items[o]), {})
  /\ UNCHANGED <<inventory, orders, payStatus, due, keys, recon, outbox, history>>

\* SELECT ... FOR UPDATE finds the payment still PENDING: confirm the order's
\* units (SUCCESS) or release them (FAILED).
LockPayment(t, o, kind) ==
  /\ tx[t].kind = "idle" /\ t \in Handlers /\ Free(o)
  /\ payStatus[o] = "PENDING"
  /\ Proceed(t, kind, o, None, items[o], Contents(items[o]), {o})
  /\ UNCHANGED <<inventory, orders, payStatus, due, keys, recon, outbox, history>>

\* SUCCESS for a payment that has expired: the transaction ends, and the payment
\* is put up for reconciliation in a statement of its own.  A callback for any
\* other finished payment is acknowledged and changes nothing.
LatePayment(t, o) ==
  /\ tx[t].kind = "idle" /\ t \in Handlers /\ Free(o)
  /\ payStatus[o] = "EXPIRED"
  /\ Proceed(t, "recon", o, None, NoItems, {}, {})
  /\ UNCHANGED <<inventory, orders, payStatus, due, keys, recon, outbox, history>>

\* The second row for a payment is refused: recon is a set either way.
AddPaymentRecon(t) ==
  /\ tx[t].kind = "recon"
  /\ recon' = recon \cup {tx[t].order}
  /\ End(t)
  /\ UNCHANGED <<inventory, orders, payStatus, due, keys, outbox, history>>

Settles(t) == tx[t].kind \in {"confirm", "release"}

\* The units t settles are there to be settled: its own check of reserved and,
\* where they leave the stock, CHECK (stock >= 0).
Covered(t, p) ==
  /\ reserved[p] >= tx[t].qty[p]
  /\ tx[t].kind = "confirm" => stock[p] >= tx[t].qty[p]

\* ConfirmStockWithTx and ReleaseStockWithTx.
SettleStock(t) ==
  LET p == tx[t].want IN
  /\ Settles(t) /\ p \in Products /\ Grants(t, p)
  /\ Covered(t, p)
  /\ LockRow(t)
  /\ UNCHANGED <<inventory, orders, payStatus, due, keys, recon, outbox, history>>

\* ExpireIdempotencyKey, for the key of order o.
KeyExpired(o) ==
  [k \in Keys |-> IF keys[k].order = o THEN [keys[k] EXCEPT !.status = "EXPIRED"]
                                       ELSE keys[k]]

\* mutant: the order is settled and its stock forgotten.
CommitCallbackWithoutStock(t) ==
  LET o    == tx[t].order
      paid == tx[t].kind = "confirm" IN
  /\ Settles(t) /\ tx[t].want = None
  /\ orderStatus[o] = "PENDING"
  /\ payStatus' = [payStatus EXCEPT ![o] = IF paid THEN "SUCCESS" ELSE "FAILED"]
  /\ orderStatus' = [orderStatus EXCEPT ![o] = IF paid THEN "PAID" ELSE "CANCELLED"]
  /\ keys' = KeyExpired(o)
  /\ outbox' = [outbox EXCEPT !["payment.callback.processed"][o] = @ + 1]
  /\ End(t)
  /\ UNCHANGED <<inventory, items, orderKey, due, recon, history>>

CommitCallback(t) ==
  LET o    == tx[t].order
      paid == tx[t].kind = "confirm" IN
  /\ Settles(t) /\ tx[t].want = None
  /\ orderStatus[o] = "PENDING"
  /\ stock' = IF paid THEN [p \in Products |-> stock[p] - tx[t].qty[p]] ELSE stock
  /\ reserved' = [p \in Products |-> reserved[p] - tx[t].qty[p]]
  /\ payStatus' = [payStatus EXCEPT ![o] = IF paid THEN "SUCCESS" ELSE "FAILED"]
  /\ orderStatus' = [orderStatus EXCEPT ![o] = IF paid THEN "PAID" ELSE "CANCELLED"]
  /\ keys' = KeyExpired(o)
  /\ outbox' = [outbox EXCEPT !["payment.callback.processed"][o] = @ + 1]
  /\ End(t)
  /\ UNCHANGED <<items, orderKey, due, recon, history>>

-----------------------------------------------------------------------------
(* The payment expiration worker *)

\* mutant: expired_at compared the wrong way round.
NotYetDue == {o \in Orders \ due : payStatus[o] = "PENDING"}

Expirable == {o \in due : payStatus[o] = "PENDING"}

\* The sub-select reads its snapshot ...
SelectExpired(t) ==
  /\ tx[t].kind = "idle" /\ t \in Workers
  /\ \E S \in Limited(Expirable) \ {{}} :
       Proceed(t, "expire", None, None, NoItems, S, {})
  /\ UNCHANGED <<inventory, orders, payStatus, due, keys, recon, outbox, history>>

\* ... and the update waits for each row, whose status it does not look at again.
ExpirePayment(t) ==
  /\ tx[t].kind = "expire" /\ tx[t].want \in Orders /\ Grants(t, tx[t].want)
  /\ LockRow(t)
  /\ UNCHANGED <<inventory, orders, payStatus, due, keys, recon, outbox, history>>

\* mutant: events only for the payments that were still pending.
CommitExpireFewerEvents(t) ==
  LET S == tx[t].held IN
  /\ tx[t].kind = "expire" /\ tx[t].want = None
  /\ payStatus' = [o \in Orders |-> IF o \in S THEN "EXPIRED" ELSE payStatus[o]]
  /\ outbox' = [outbox EXCEPT !["payment.expired"] =
                  [o \in Orders |-> IF o \in S /\ payStatus[o] = "PENDING"
                                    THEN @[o] + 1 ELSE @[o]]]
  /\ End(t)
  /\ UNCHANGED <<inventory, orders, due, keys, recon, history>>

CommitExpire(t) ==
  LET S == tx[t].held IN
  /\ tx[t].kind = "expire" /\ tx[t].want = None
  /\ payStatus' = [o \in Orders |-> IF o \in S THEN "EXPIRED" ELSE payStatus[o]]
  /\ outbox' = [outbox EXCEPT !["payment.expired"] =
                  [o \in Orders |-> IF o \in S THEN @[o] + 1 ELSE @[o]]]
  /\ End(t)
  /\ UNCHANGED <<inventory, orders, due, keys, recon, history>>

-----------------------------------------------------------------------------
(* Statements that fail, and transactions that do *)

\* The statement transaction t is at returns an error: ErrNotEnoughStock, the
\* duplicate key, ErrInvalidReserved or CHECK (stock >= 0), ErrOrderNotFound.
StatementFails(t) ==
  LET r == tx[t].want IN
  \/ /\ tx[t].kind = "create" /\ r \in Products /\ Grants(t, r)
     /\ Available(r) < tx[t].qty[r]
  \/ tx[t].kind = "create" /\ r \in Keys /\ Grants(t, r) /\ keys[r] # NoKey
  \/ Settles(t) /\ r \in Products /\ Grants(t, r) /\ ~Covered(t, r)
  \/ Settles(t) /\ r = None /\ orderStatus[tx[t].order] # "PENDING"

\* mutant: no deferred rollback.
RejectedStaysOpen(t) == StatementFails(t) /\ UNCHANGED vars

Rejected(t) == StatementFails(t) /\ Rollback(t)

\* u holds the row t waits for.
Blocks(u, t) == tx[t].want \in tx[u].held

\* t is on a cycle of waiting transactions: each waits for one of the set, and
\* each is waited for.
Deadlocked(t) ==
  \E S \in SUBSET Txs : /\ t \in S
                        /\ \A u \in S : \E v \in S : Blocks(v, u)
                        /\ \A v \in S : \E u \in S : Blocks(v, u)

\* Postgres ends a transaction of the cycle.
DeadlockVictim(t) == Deadlocked(t) /\ Rollback(t)

\* The two-second context of CreateOrder runs out, the client or the database
\* goes away, the process dies, another statement fails.
Fail(t) == tx[t].kind # "idle" /\ Rollback(t)

-----------------------------------------------------------------------------
(* Single statements: they wait for the row and take effect at once *)

\* mutant: the update without AND status = 'PENDING'.
OverwritePaymentStatus(o, status) ==
  /\ payStatus[o] # "NONE" /\ Free(o)
  /\ payStatus' = [payStatus EXCEPT ![o] = status]
  /\ UNCHANGED <<inventory, orders, due, keys, recon, outbox, history, tx>>

\* PATCH /payments/{id}: the payment changes and nothing else does.
UpdatePaymentStatus(o, status) ==
  /\ payStatus[o] = "PENDING" /\ Free(o)
  /\ payStatus' = [payStatus EXCEPT ![o] = status]
  /\ UNCHANGED <<inventory, orders, due, keys, recon, outbox, history, tx>>

\* The units a negative quantity takes.
TakenBy(q) == IF q < 0 THEN -q ELSE 0

\* mutant: the schema without CHECK (stock >= 0).
UpdateStockUnchecked(p, q) ==
  /\ Free(p) /\ supplied[p] + q <= MaxSupply /\ lowered[p] + TakenBy(q) <= MaxLowered
  /\ stock' = [stock EXCEPT ![p] = @ + q]
  /\ supplied' = [supplied EXCEPT ![p] = @ + q]
  /\ lowered' = [lowered EXCEPT ![p] = @ + TakenBy(q)]
  /\ UNCHANGED <<reserved, orders, payStatus, due, keys, recon, outbox, manual, tx>>

\* CHECK (stock >= 0) is all that stops a negative quantity: reserved is not
\* looked at.
UpdateStock(p, q) ==
  /\ Free(p) /\ supplied[p] + q <= MaxSupply /\ lowered[p] + TakenBy(q) <= MaxLowered
  /\ stock[p] + q >= 0
  /\ stock' = [stock EXCEPT ![p] = @ + q]
  /\ supplied' = [supplied EXCEPT ![p] = @ + q]
  /\ lowered' = [lowered EXCEPT ![p] = @ + TakenBy(q)]
  /\ UNCHANGED <<reserved, orders, payStatus, due, keys, recon, outbox, manual, tx>>

\* The second conjunct is CHECK (reserved >= 0).
ReserveStock(p, q) ==
  /\ Free(p) /\ Available(p) >= q
  /\ reserved[p] + q >= 0
  /\ manual[p] + q \in -MaxManual..MaxManual
  /\ reserved' = [reserved EXCEPT ![p] = @ + q]
  /\ manual' = [manual EXCEPT ![p] = @ + q]
  /\ UNCHANGED <<stock, orders, payStatus, due, keys, recon, outbox, supplied, lowered, tx>>

\* A negative quantity passes the check and reserves units that may not exist.
ReleaseStock(p, q) ==
  /\ Free(p) /\ reserved[p] >= q
  /\ manual[p] - q \in -MaxManual..MaxManual /\ lowered[p] + TakenBy(q) <= MaxLowered
  /\ reserved' = [reserved EXCEPT ![p] = @ - q]
  /\ manual' = [manual EXCEPT ![p] = @ - q]
  /\ lowered' = [lowered EXCEPT ![p] = @ + TakenBy(q)]
  /\ UNCHANGED <<stock, orders, payStatus, due, keys, recon, outbox, supplied, tx>>

\* A negative quantity puts units into the warehouse that are reserved already.
ConfirmStock(p, q) ==
  /\ Free(p) /\ reserved[p] >= q /\ stock[p] - q >= 0
  /\ manual[p] - q \in -MaxManual..MaxManual /\ supplied[p] - q <= MaxSupply
  /\ stock' = [stock EXCEPT ![p] = @ - q]
  /\ reserved' = [reserved EXCEPT ![p] = @ - q]
  /\ manual' = [manual EXCEPT ![p] = @ - q]
  /\ supplied' = [supplied EXCEPT ![p] = @ - q]
  /\ UNCHANGED <<orders, payStatus, due, keys, recon, outbox, lowered, tx>>

Deletable == {k \in Keys : /\ keys[k].order # None
                           /\ keys[k].order \in due \/ keys[k].status = "EXPIRED"}

\* The key deletion worker.
DeleteIdempotencyKey ==
  /\ \E S \in Limited(Deletable) \ {{}} :
       keys' = [k \in Keys |-> IF k \in S THEN NoKey ELSE keys[k]]
  /\ UNCHANGED <<inventory, orders, payStatus, due, recon, outbox, history, tx>>

\* One minute after the payment was made, it and the key are past expired_at.
Overdue(o) ==
  /\ payStatus[o] # "NONE" /\ o \notin due
  /\ due' = due \cup {o}
  /\ UNCHANGED <<inventory, orders, payStatus, keys, recon, outbox, history, tx>>

-----------------------------------------------------------------------------
Init ==
  /\ stock = InitialStock /\ reserved = NoItems
  /\ orderStatus = [o \in Orders |-> "NONE"]
  /\ items = [o \in Orders |-> NoItems]
  /\ orderKey = [o \in Orders |-> None]
  /\ payStatus = [o \in Orders |-> "NONE"]
  /\ due = {} /\ recon = {}
  /\ keys = [k \in Keys |-> NoKey]
  /\ outbox = [e \in EventTypes |-> [o \in Orders |-> 0]]
  /\ manual = NoItems /\ supplied = InitialStock /\ lowered = NoItems
  /\ tx = [t \in Txs |-> Idle]

Request(t) ==
  \/ \E o \in Orders, k \in Keys, cart \in Carts : StartCreate(t, o, k, cart)
  \/ \E o \in Orders, kind \in {"confirm", "release"} : LockPayment(t, o, kind)
  \/ \E o \in Orders : LatePayment(t, o)

\* What an open transaction does next.
Statement(t) ==
  \/ ReserveStockWithTx(t) \/ SaveIdempotencyKey(t) \/ CommitCreate(t)
  \/ SettleStock(t) \/ CommitCallback(t) \/ AddPaymentRecon(t)
  \/ ExpirePayment(t) \/ CommitExpire(t)
  \/ Rejected(t)

Admin ==
  \/ \E o \in Orders, s \in {"SUCCESS", "FAILED", "CANCELLED"} : UpdatePaymentStatus(o, s)
  \/ \E p \in Products, q \in Restocks : UpdateStock(p, q)
  \/ \E p \in Products, q \in ManualQtys :
       ReserveStock(p, q) \/ ReleaseStock(p, q) \/ ConfirmStock(p, q)

Next ==
  \/ \E t \in Txs : \/ Request(t) \/ SelectExpired(t) \/ Statement(t)
                    \/ DeadlockVictim(t) \/ Fail(t)
  \/ Admin \/ DeleteIdempotencyKey
  \/ \E o \in Orders : Overdue(o)

Spec == Init /\ [][Next]_vars

\* Row locks are granted in the order they were asked for, the deadlock
\* detector runs, each worker polls every ten seconds, and from some time on
\* transactions fail only for a reason of their own.
FaultsEnd ==
  <>[][\A t \in Txs : Fail(t) => Rejected(t) \/ DeadlockVictim(t) \/ AddPaymentRecon(t)]_vars

Fairness ==
  /\ \A t \in Txs : SF_vars(Statement(t)) /\ WF_vars(DeadlockVictim(t))
  /\ \A w \in Workers : SF_vars(SelectExpired(w))
  /\ FaultsEnd

FairSpec == Spec /\ Fairness

-----------------------------------------------------------------------------
(* Safety *)

\* Concurrent checkouts never promise more units than there are: whatever the
\* interleaving of reservations, settlements and admin calls, what is reserved of
\* a product is in stock (ReserveStockWithTx checks before it adds), except for
\* the units administrators took with negative quantities.  Shoppers add nothing
\* to that shortfall, before or after.
NoOversell == \A p \in Products : reserved[p] <= stock[p] + lowered[p]

\* Units of p in the orders with this status.
Units(p, status) ==
  {u \in Orders \X (1..MaxQty) : orderStatus[u[1]] = status /\ u[2] <= items[u[1]][p]}

\* No unit is reserved twice, leaked or given back twice: what is reserved of a
\* product is exactly what the pending orders ask for, give or take what
\* administrators reserved and released by hand.
ReservedLedger ==
  \A p \in Products : reserved[p] = Cardinality(Units(p, "PENDING")) + manual[p]

\* Stock leaves only with paid orders, and once per order.
StockLedger ==
  \A p \in Products : stock[p] + Cardinality(Units(p, "PAID")) = supplied[p]

\* Once a callback holds the lock on a pending payment nothing can turn it away
\* except an administrator who took the order's units: the order is pending, its
\* units are still reserved and, unless a negative quantity took them, in stock.
CallbackSettles ==
  \A t \in Txs : Settles(t) =>
    /\ payStatus[tx[t].order] = "PENDING" /\ orderStatus[tx[t].order] = "PENDING"
    /\ \A p \in Products :
         /\ manual[p] >= 0 => reserved[p] >= tx[t].qty[p]
         /\ manual[p] >= 0 /\ lowered[p] = 0 => Covered(t, p)

\* A key places one order at a time: a second one gets through only after the
\* first is settled or its payment window is over.
OneOpenOrderPerKey ==
  \A o1, o2 \in Orders :
    /\ orderKey[o1] = orderKey[o2]
    /\ orderStatus[o1] = "PENDING" /\ orderStatus[o2] = "PENDING"
    => o1 = o2 \/ o1 \in due \/ o2 \in due

\* An order and its payment never contradict each other, but for a payment that
\* was expired under the order's feet: a paid order has no failed payment, a
\* cancelled one no successful payment, and only overdue payments expire.
VerdictsAgree ==
  \A o \in Orders :
    /\ orderStatus[o] = "PAID" => payStatus[o] \in {"SUCCESS", "EXPIRED"}
    /\ orderStatus[o] = "CANCELLED" => payStatus[o] \in {"FAILED", "EXPIRED"}
    /\ payStatus[o] = "EXPIRED" \/ o \in recon => o \in due /\ payStatus[o] = "EXPIRED"

\* Each event is saved with what it announces, in one transaction: an order is
\* announced once, a settlement once, and every expired payment at least once.
OutboxMatches ==
  \A o \in Orders :
    /\ outbox["order.created"][o] = IF orderStatus[o] = "NONE" THEN 0 ELSE 1
    /\ outbox["payment.callback.processed"][o] =
         IF orderStatus[o] \in {"PAID", "CANCELLED"} THEN 1 ELSE 0
    /\ outbox["payment.expired"][o] > 0 <=> payStatus[o] = "EXPIRED"

\* Once paid or cancelled an order stays so, and a payment that is no longer
\* pending can only be overwritten by the expiration worker.
FinishedStays ==
  [][\A o \in Orders :
       /\ orderStatus[o] \in {"PAID", "CANCELLED"} => orderStatus'[o] = orderStatus[o]
       /\ payStatus[o] \notin {"NONE", "PENDING"} =>
            payStatus'[o] \in {payStatus[o], "EXPIRED"}]_vars

(* What the documents say and the code does not do *)

\* README.md: "Payment success confirms stock and marks the order as paid."
SuccessMeansPaid == \A o \in Orders : payStatus[o] = "SUCCESS" => orderStatus[o] = "PAID"

\* create_order.md: the worker touches only what is pending and leaves what is
\* paid alone ("jangan sentuh PAID").
PaidIsNotExpired == \A o \in Orders : orderStatus[o] = "PAID" => payStatus[o] # "EXPIRED"

\* README.md: "Payment failure or expiration cancels the order and releases
\* reserved stock."
ExpirationCancels ==
  \A o \in Orders : payStatus[o] = "EXPIRED" /\ orderStatus[o] = "PENDING"
                    ~> orderStatus[o] = "CANCELLED"

\* To whoever looks only at stock and orders, the statement-by-statement
\* transactions of CreateOrder and processCallback are single steps: an order and
\* its units change together, once, and rolled back work is never seen.
Book == INSTANCE OrderBook

KeepsBook == Book!Spec

-----------------------------------------------------------------------------
(* The inductive invariant *)

\* A row is held by one transaction at a time, and a fresh order by one.
LocksExclusive ==
  \A t, u \in Txs : t # u =>
    /\ tx[t].held \cap tx[u].held = {}
    /\ tx[t].kind = "create" => tx[u].order # tx[t].order

\* A new order: its products are locked one by one, each with enough units left,
\* then its key, which no committed row has.
CreateOK(t) ==
  /\ tx[t].order \in Orders /\ orderStatus[tx[t].order] = "NONE"
  /\ tx[t].key \in Keys
  /\ tx[t].todo = Contents(tx[t].qty) \ tx[t].held
  /\ tx[t].held \subseteq Contents(tx[t].qty) \cup {tx[t].key}
  /\ \A p \in tx[t].held \cap Products : reserved[p] + tx[t].qty[p] <= stock[p]
  /\ IF tx[t].want = None
     THEN tx[t].todo = {} /\ tx[t].key \in tx[t].held /\ keys[tx[t].key] = NoKey
     ELSE /\ tx[t].key \notin tx[t].held
          /\ tx[t].want \in IF tx[t].todo = {} THEN {tx[t].key} ELSE tx[t].todo

\* A callback in progress: it holds the pending payment of a pending order, and
\* the units it has locked are reserved, and in stock if they leave it.
SettleOK(t) ==
  /\ tx[t].order \in Orders
  /\ payStatus[tx[t].order] = "PENDING" /\ orderStatus[tx[t].order] = "PENDING"
  /\ tx[t].qty = items[tx[t].order]
  /\ tx[t].order \in tx[t].held
  /\ tx[t].todo = Contents(tx[t].qty) \ tx[t].held
  /\ tx[t].held \subseteq Contents(tx[t].qty) \cup {tx[t].order}
  /\ \A p \in tx[t].held \cap Products : Covered(t, p)
  /\ tx[t].want \in IF tx[t].todo = {} THEN {None} ELSE tx[t].todo

\* A batch of payments being expired: each was selected overdue and pending.
ExpireOK(t) ==
  /\ tx[t].order = None
  /\ tx[t].todo \cup tx[t].held \subseteq {o \in due : payStatus[o] # "NONE"}
  /\ tx[t].want \in IF tx[t].todo = {} THEN {None} ELSE tx[t].todo

ReconOK(t) ==
  /\ tx[t].order \in Orders /\ payStatus[tx[t].order] = "EXPIRED"
  /\ tx[t].todo = {} /\ tx[t].held = {} /\ tx[t].want = None

TransactionOK(t) ==
  /\ tx[t].kind = "idle"   => tx[t] = Idle
  /\ tx[t].kind = "create" => CreateOK(t)
  /\ Settles(t)            => SettleOK(t)
  /\ tx[t].kind = "expire" => ExpireOK(t)
  /\ tx[t].kind = "recon"  => ReconOK(t)

TxOK == \A t \in Txs : TransactionOK(t)

\* An order and its payment come into being together; while the payment is
\* pending the order is, and only overdue payments expire.
StatusOK ==
  \A o \in Orders :
    /\ orderStatus[o] = "NONE" <=> payStatus[o] = "NONE"
    /\ payStatus[o] = "PENDING" => orderStatus[o] = "PENDING"
    /\ payStatus[o] = "EXPIRED" => o \in due
    /\ o \in due => payStatus[o] # "NONE"

\* What makes the safety properties inductive.
IInv == TypeOK /\ NoOversell /\ LocksExclusive /\ TxOK /\ StatusOK

-----------------------------------------------------------------------------
(* Liveness *)

\* No transaction hangs: lock waits and deadlocks between carts with the same
\* products in another order all end.
TransactionsEnd == \A t \in Txs : tx[t].kind # "idle" ~> tx[t].kind = "idle"

\* A payment left pending past its expiry does not stay pending.
OverdueExpires ==
  \A o \in Orders : o \in due /\ payStatus[o] = "PENDING" ~> payStatus[o] # "PENDING"
=============================================================================
