--------------------------- MODULE CheckoutProofs ---------------------------
(* Safety of Checkout for every value of its constants. *)
EXTENDS Checkout, TLAPS

Db == <<stock, reserved, orderStatus, items, orderKey, payStatus, due, keys,
        recon, outbox, manual, supplied, lowered>>

TxRecords == [kind : Kinds, order : Orders \cup {None}, key : Keys \cup {None},
              qty : [Products -> 0..MaxQty], todo : SUBSET Rows,
              want : Rows \cup {None}, held : SUBSET Rows]

\* A transaction that takes a step of its own and commits nothing disturbs no
\* other: it is enough to look at what it has become.
LEMMA OwnStep ==
  ASSUME IInv, NEW t \in Txs, NEW r \in TxRecords,
         tx' = [tx EXCEPT ![t] = r], UNCHANGED Db,
         TransactionOK(t)',
         \A u \in Txs \ {t} : /\ r.held \cap tx[u].held = {}
                              /\ r.kind = "create" => tx[u].order # r.order
                              /\ tx[u].kind = "create" => tx[u].order # r.order
  PROVE  IInv'
<1>1. tx' \in [Txs -> TxRecords] /\ tx'[t] = r /\ \A u \in Txs \ {t} : tx'[u] = tx[u]
  BY DEF IInv, TypeOK, TxRecords
<1>2. TypeOK'
  BY <1>1 DEF IInv, TypeOK, TxRecords, Db
<1>3. NoOversell' /\ StatusOK'
  BY DEF IInv, NoOversell, StatusOK, Db
<1>4. LocksExclusive'
  BY <1>1 DEF IInv, LocksExclusive
<1>5. TxOK'
  <2>1. SUFFICES ASSUME NEW u \in Txs, u # t PROVE TransactionOK(u)'
    BY DEF TxOK
  <2>2. TransactionOK(u) /\ tx'[u] = tx[u]
    BY <1>1, <2>1 DEF IInv, TxOK
  <2>3. QED
    BY <2>2 DEF TransactionOK, CreateOK, SettleOK, Covered, Settles, ExpireOK, ReconOK, Db
<1>6. QED
  BY <1>2, <1>3, <1>4, <1>5 DEF IInv

LEMMA IdleType == Idle \in TxRecords
BY RowsAssumption, SizesAssumption DEF Idle, TxRecords, Kinds, NoItems, Rows

LEMMA ContentsRows ==
  ASSUME NEW qty \in [Products -> 0..MaxQty]
  PROVE  Contents(qty) \subseteq Products /\ Contents(qty) \subseteq Rows
BY DEF Contents, Rows

LEMMA CreatesOrder ==
  ASSUME IInv
  PROVE  \A u \in Txs : tx[u].kind = "create" => tx[u].order \in Orders /\ tx[u].order # None
<1>1. \A u \in Txs : tx[u].kind = "create" => tx[u].order \in Orders
  BY DEF IInv, TxOK, TransactionOK, CreateOK
<1>2. QED
  BY <1>1, RowsAssumption

LEMMA RollbackStep ==
  ASSUME IInv, NEW t \in Txs, Rollback(t)
  PROVE  IInv'
<1>1. Idle \in TxRecords /\ tx' = [tx EXCEPT ![t] = Idle] /\ UNCHANGED Db
  BY IdleType DEF Rollback, End, Db, inventory, orders, history
<1>2. TransactionOK(t)'
  BY <1>1 DEF IInv, TypeOK, TransactionOK, Settles, Idle
<1>3. \A u \in Txs \ {t} : /\ Idle.held \cap tx[u].held = {}
                           /\ Idle.kind = "create" => tx[u].order # Idle.order
                           /\ tx[u].kind = "create" => tx[u].order # Idle.order
  <2>1. Idle.held = {} /\ Idle.kind # "create" /\ Idle.order = None
    BY DEF Idle
  <2>2. QED
    BY <2>1, CreatesOrder
<1>4. QED
  BY <1>1, <1>2, <1>3, OwnStep

LEMMA StartCreateStep ==
  ASSUME IInv, NEW t \in Txs, NEW o \in Orders, NEW k \in Keys, NEW cart \in Carts,
         StartCreate(t, o, k, cart)
  PROVE  IInv'
<1>1. cart \in [Products -> 0..MaxQty] /\ Contents(cart) \subseteq Rows
  BY QuantitiesAssumption, ContentsRows
<1>2. PICK p \in Contents(cart) :
        tx' = [tx EXCEPT ![t] = [kind |-> "create", order |-> o, key |-> k, qty |-> cart,
                                 todo |-> Contents(cart), want |-> p, held |-> {}]]
  BY DEF StartCreate, Proceed, NextRows
<1> DEFINE r == [kind |-> "create", order |-> o, key |-> k, qty |-> cart,
                 todo |-> Contents(cart), want |-> p, held |-> {}]
<1>3. r \in TxRecords /\ tx' = [tx EXCEPT ![t] = r] /\ UNCHANGED Db
  BY <1>1, <1>2 DEF StartCreate, Db, inventory, orders, history, TxRecords, Kinds
<1>4. TransactionOK(t)'
  <2>1. tx'[t] = r
    BY <1>2 DEF IInv, TypeOK
  <2>2. orderStatus'[o] = "NONE" /\ p # None /\ k \notin {}
    BY <1>1, RowsAssumption DEF StartCreate, orders, Rows
  <2>3. QED
    BY <1>1, <2>1, <2>2 DEF TransactionOK, CreateOK, Settles
<1>5. \A u \in Txs \ {t} : /\ r.held \cap tx[u].held = {}
                           /\ r.kind = "create" => tx[u].order # r.order
                           /\ tx[u].kind = "create" => tx[u].order # r.order
  BY DEF StartCreate
<1>6. QED
  BY <1>3, <1>4, <1>5, OwnStep


\* Taking a lock: the row asked for moves from what is left to do to what is held.
LEMMA LockRowStep ==
  ASSUME IInv, NEW t \in Txs, tx[t].kind # "idle", LockRow(t), Free(tx[t].want),
         tx[t].want \in Rows, UNCHANGED Db,
         tx[t].kind = "create" => tx[t].key \in Keys,
         TransactionOK(t)'
  PROVE  IInv'
<1> DEFINE T == tx[t]
           S == T.todo \ {T.want}
           H == T.held \cup {T.want}
<1>1. PICK n \in NextRows(T.kind, T.key, S, H) :
        tx' = [tx EXCEPT ![t] = [kind |-> T.kind, order |-> T.order, key |-> T.key,
                                 qty |-> T.qty, todo |-> S, want |-> n, held |-> H]]
  BY DEF LockRow, Proceed
<1> DEFINE r == [kind |-> T.kind, order |-> T.order, key |-> T.key,
                 qty |-> T.qty, todo |-> S, want |-> n, held |-> H]
<1>2. T \in TxRecords
  BY DEF IInv, TypeOK, TxRecords
<1>3. S \subseteq Rows /\ H \subseteq Rows
  BY <1>2 DEF TxRecords
<1>4. n \in Rows \cup {None}
  BY <1>1, <1>3 DEF NextRows, Rows
<1>5. r \in TxRecords
  BY <1>2, <1>3, <1>4 DEF TxRecords
<1>6. \A u \in Txs \ {t} : /\ r.held \cap tx[u].held = {}
                           /\ r.kind = "create" => tx[u].order # r.order
                           /\ tx[u].kind = "create" => tx[u].order # r.order
  BY DEF IInv, LocksExclusive, Free
<1>7. QED
  BY <1>1, <1>5, <1>6, OwnStep

LEMMA LockRowFields ==
  ASSUME IInv, NEW t \in Txs, LockRow(t)
  PROVE  /\ tx'[t].kind = tx[t].kind /\ tx'[t].order = tx[t].order
         /\ tx'[t].key = tx[t].key /\ tx'[t].qty = tx[t].qty
         /\ tx'[t].todo = tx[t].todo \ {tx[t].want}
         /\ tx'[t].held = tx[t].held \cup {tx[t].want}
         /\ tx'[t].want \in NextRows(tx'[t].kind, tx'[t].key, tx'[t].todo, tx'[t].held)
<1>1. PICK n \in NextRows(tx[t].kind, tx[t].key, tx[t].todo \ {tx[t].want},
                          tx[t].held \cup {tx[t].want}) :
        tx' = [tx EXCEPT ![t] = [kind |-> tx[t].kind, order |-> tx[t].order,
                                 key |-> tx[t].key, qty |-> tx[t].qty,
                                 todo |-> tx[t].todo \ {tx[t].want}, want |-> n,
                                 held |-> tx[t].held \cup {tx[t].want}]]
  BY DEF LockRow, Proceed
<1>2. tx \in [Txs -> TxRecords]
  BY DEF IInv, TypeOK, TxRecords
<1>3. QED
  BY <1>1, <1>2

\* What a transaction of each kind has in its fields.
LEMMA FieldTypes ==
  ASSUME IInv, NEW t \in Txs
  PROVE  /\ tx[t].kind \in Kinds /\ tx[t].qty \in [Products -> 0..MaxQty]
         /\ tx[t].todo \subseteq Rows /\ tx[t].held \subseteq Rows
         /\ tx[t].want \in Rows \cup {None}
         /\ Contents(tx[t].qty) \subseteq Products
BY DEF IInv, TypeOK, Contents

LEMMA ReserveStockStep ==
  ASSUME IInv, NEW t \in Txs, ReserveStockWithTx(t)
  PROVE  IInv'
<1> DEFINE p == tx[t].want
<1>1. /\ tx[t].kind = "create" /\ p \in Products /\ p \in Rows /\ Free(p)
      /\ stock[p] - reserved[p] >= tx[t].qty[p]
      /\ LockRow(t) /\ UNCHANGED Db
  BY DEF ReserveStockWithTx, Grants, Available, Db, inventory, orders, history
<1>2. CreateOK(t)
  BY <1>1 DEF IInv, TxOK, TransactionOK
<1>3. p # None /\ p # tx[t].key /\ tx[t].key \in Keys /\ tx[t].key \notin Products
  BY <1>1, <1>2, RowsAssumption DEF CreateOK
<1>4. p \in tx[t].todo /\ tx[t].key \notin tx[t].held
  BY <1>2, <1>3 DEF CreateOK
<1>5. reserved[p] + tx[t].qty[p] <= stock[p]
  <2>1. stock[p] \in Nat /\ reserved[p] \in Nat /\ tx[t].qty[p] \in Nat
    BY <1>1, FieldTypes, SizesAssumption DEF IInv, TypeOK
  <2>2. QED
    BY <1>1, <2>1
<1>6. CreateOK(t)'
  <2>1. /\ tx'[t].order = tx[t].order /\ tx'[t].key = tx[t].key /\ tx'[t].qty = tx[t].qty
        /\ tx'[t].todo = tx[t].todo \ {p} /\ tx'[t].held = tx[t].held \cup {p}
        /\ tx'[t].want \in NextRows("create", tx'[t].key, tx'[t].todo, tx'[t].held)
    BY <1>1, LockRowFields
  <2>2. /\ tx'[t].order \in Orders /\ orderStatus'[tx'[t].order] = "NONE"
        /\ tx'[t].key \in Keys
        /\ tx'[t].todo = Contents(tx'[t].qty) \ tx'[t].held
        /\ tx'[t].held \subseteq Contents(tx'[t].qty) \cup {tx'[t].key}
    BY <1>1, <1>2, <1>4, <2>1 DEF CreateOK, Db
  <2>3. \A q \in tx'[t].held \cap Products : reserved'[q] + tx'[t].qty[q] <= stock'[q]
    BY <1>1, <1>2, <1>5, <2>1 DEF CreateOK, Db
  <2>4. tx'[t].key \notin tx'[t].held
    BY <1>3, <1>4, <2>1
  <2>5. /\ tx'[t].want # None
        /\ tx'[t].want \in IF tx'[t].todo = {} THEN {tx'[t].key} ELSE tx'[t].todo
    <3>1. None \notin tx'[t].todo
      BY <2>1, FieldTypes, RowsAssumption DEF Rows
    <3>2. QED
      BY <1>3, <2>1, <2>4, <3>1, RowsAssumption DEF NextRows
  <2>6. QED
    BY <2>2, <2>3, <2>4, <2>5 DEF CreateOK, Contents
<1>7. TransactionOK(t)'
  BY <1>1, <1>6, LockRowFields DEF TransactionOK, Settles
<1>8. QED
  BY <1>1, <1>3, <1>7, LockRowStep

LEMMA SaveKeyStep ==
  ASSUME IInv, NEW t \in Txs, SaveIdempotencyKey(t)
  PROVE  IInv'
<1> DEFINE k == tx[t].key
<1>1. /\ tx[t].kind = "create" /\ tx[t].want = k /\ k \in Rows /\ Free(k)
      /\ keys[k] = NoKey /\ LockRow(t) /\ UNCHANGED Db
  BY DEF SaveIdempotencyKey, Grants, Db, inventory, orders, history
<1>2. CreateOK(t)
  BY <1>1 DEF IInv, TxOK, TransactionOK
<1>3. k \in Keys /\ k # None /\ k \notin Products /\ k \notin tx[t].held
  BY <1>1, <1>2, RowsAssumption DEF CreateOK
<1>4. tx[t].todo = {}
  BY <1>1, <1>2, <1>3, FieldTypes DEF CreateOK
<1>5. CreateOK(t)'
  <2>1. /\ tx'[t].order = tx[t].order /\ tx'[t].key = k /\ tx'[t].qty = tx[t].qty
        /\ tx'[t].todo = {} /\ tx'[t].held = tx[t].held \cup {k}
        /\ tx'[t].want = None
    BY <1>1, <1>4, LockRowFields DEF NextRows
  <2>2. \A q \in tx'[t].held \cap Products : reserved'[q] + tx'[t].qty[q] <= stock'[q]
    BY <1>2, <1>1, <1>3, <2>1 DEF CreateOK, Db
  <2>3. /\ tx'[t].todo = Contents(tx'[t].qty) \ tx'[t].held
        /\ tx'[t].held \subseteq Contents(tx'[t].qty) \cup {tx'[t].key}
    BY <1>2, <1>3, <1>4, <2>1, FieldTypes DEF CreateOK
  <2>4. QED
    BY <1>1, <1>2, <2>1, <2>2, <2>3 DEF CreateOK, Contents, Db, NoKey
<1>6. TransactionOK(t)'
  BY <1>1, <1>5, LockRowFields DEF TransactionOK, Settles
<1>7. QED
  BY <1>1, <1>3, <1>6, LockRowStep

\* What the rows of a payment have to do with those of an order.
LEMMA PendingOrder ==
  ASSUME IInv, NEW o \in Orders, payStatus[o] = "PENDING"
  PROVE  orderStatus[o] = "PENDING" /\ items[o] \in [Products -> 0..MaxQty]
BY DEF IInv, StatusOK, TypeOK

LEMMA LockPaymentStep ==
  ASSUME IInv, NEW t \in Txs, NEW o \in Orders, NEW kind \in {"confirm", "release"},
         LockPayment(t, o, kind)
  PROVE  IInv'
<1> DEFINE q == items[o]
<1>1. /\ payStatus[o] = "PENDING" /\ orderStatus[o] = "PENDING"
      /\ q \in [Products -> 0..MaxQty] /\ Contents(q) \subseteq Rows
      /\ Contents(q) \subseteq Products /\ Free(o) /\ UNCHANGED Db
  BY PendingOrder, ContentsRows
     DEF LockPayment, Db, inventory, orders, history
<1>2. PICK n \in NextRows(kind, None, Contents(q), {o}) :
        tx' = [tx EXCEPT ![t] = [kind |-> kind, order |-> o, key |-> None, qty |-> q,
                                 todo |-> Contents(q), want |-> n, held |-> {o}]]
  BY DEF LockPayment, Proceed
<1> DEFINE r == [kind |-> kind, order |-> o, key |-> None, qty |-> q,
                 todo |-> Contents(q), want |-> n, held |-> {o}]
<1>3. n \in IF Contents(q) = {} THEN {None} ELSE Contents(q)
  BY <1>2 DEF NextRows
<1>4. r \in TxRecords
  BY <1>1, <1>3 DEF TxRecords, Kinds, Rows
<1>5. TransactionOK(t)'
  <2>1. tx'[t] = r
    BY <1>2 DEF IInv, TypeOK
  <2>2. SettleOK(t)'
    <3>1. o \notin Products /\ Contents(q) = Contents(q) \ {o}
      BY <1>1, RowsAssumption
    <3>2. QED
      BY <1>1, <1>3, <2>1, <3>1 DEF SettleOK, Db, Contents
  <2>3. QED
    BY <2>1, <2>2 DEF TransactionOK, Settles
<1>6. \A u \in Txs \ {t} : /\ r.held \cap tx[u].held = {}
                           /\ r.kind = "create" => tx[u].order # r.order
                           /\ tx[u].kind = "create" => tx[u].order # r.order
  BY <1>1 DEF Free, IInv, TxOK, TransactionOK, CreateOK
<1>7. QED
  BY <1>1, <1>2, <1>4, <1>5, <1>6, OwnStep

LEMMA LatePaymentStep ==
  ASSUME IInv, NEW t \in Txs, NEW o \in Orders, LatePayment(t, o)
  PROVE  IInv'
<1> DEFINE r == [kind |-> "recon", order |-> o, key |-> None, qty |-> NoItems,
                 todo |-> {}, want |-> None, held |-> {}]
<1>1. payStatus[o] = "EXPIRED" /\ UNCHANGED Db /\ tx' = [tx EXCEPT ![t] = r]
  BY DEF LatePayment, Proceed, NextRows, Db, inventory, orders, history
<1>2. r \in TxRecords
  BY SizesAssumption DEF TxRecords, Kinds, NoItems
<1>3. orderStatus[o] # "NONE"
  BY <1>1 DEF IInv, StatusOK
<1>4. TransactionOK(t)'
  <2>1. tx'[t] = r
    BY <1>1 DEF IInv, TypeOK
  <2>2. QED
    BY <1>1, <2>1 DEF TransactionOK, Settles, ReconOK, Db
<1>5. \A u \in Txs \ {t} : /\ r.held \cap tx[u].held = {}
                           /\ r.kind = "create" => tx[u].order # r.order
                           /\ tx[u].kind = "create" => tx[u].order # r.order
  BY <1>3 DEF IInv, TxOK, TransactionOK, CreateOK
<1>6. QED
  BY <1>1, <1>2, <1>4, <1>5, OwnStep

LEMMA SettleStockStep ==
  ASSUME IInv, NEW t \in Txs, SettleStock(t)
  PROVE  IInv'
<1> DEFINE p == tx[t].want
<1>1. /\ Settles(t) /\ p \in Products /\ p \in Rows /\ Free(p)
      /\ Covered(t, p)
      /\ LockRow(t) /\ UNCHANGED Db
  BY DEF SettleStock, Grants, Db, inventory, orders, history
<1>2. SettleOK(t)
  BY <1>1 DEF IInv, TxOK, TransactionOK
<1>3. p # None /\ p \in tx[t].todo /\ tx[t].order # p
  BY <1>1, <1>2, RowsAssumption DEF SettleOK
<1>4. SettleOK(t)'
  <2>1. /\ tx'[t].kind = tx[t].kind
        /\ tx'[t].order = tx[t].order /\ tx'[t].qty = tx[t].qty
        /\ tx'[t].todo = tx[t].todo \ {p} /\ tx'[t].held = tx[t].held \cup {p}
        /\ tx'[t].want \in IF tx'[t].todo = {} THEN {None} ELSE tx'[t].todo
    BY <1>1, LockRowFields DEF NextRows, Settles
  <2>2. /\ tx'[t].todo = Contents(tx'[t].qty) \ tx'[t].held
        /\ tx'[t].held \subseteq Contents(tx'[t].qty) \cup {tx'[t].order}
        /\ tx'[t].order \in tx'[t].held
    BY <1>2, <1>3, <2>1 DEF SettleOK
  <2>3. \A q \in tx'[t].held \cap Products : Covered(t, q)'
    BY <1>1, <1>2, <2>1 DEF SettleOK, Covered, Db
  <2>4. QED
    BY <1>1, <1>2, <2>1, <2>2, <2>3 DEF SettleOK, Contents, Db
<1>5. TransactionOK(t)'
  BY <1>1, <1>4, LockRowFields DEF TransactionOK, Settles
<1>6. QED
  BY <1>1, <1>5, LockRowStep DEF Settles

LEMMA SelectExpiredStep ==
  ASSUME IInv, NEW t \in Txs, SelectExpired(t)
  PROVE  IInv'
<1>1. PICK S \in SUBSET Expirable :
        Proceed(t, "expire", None, None, NoItems, S, {}) /\ UNCHANGED Db
  BY DEF SelectExpired, Limited, Db, inventory, orders, history
<1>2. PICK n \in NextRows("expire", None, S, {}) :
        tx' = [tx EXCEPT ![t] = [kind |-> "expire", order |-> None, key |-> None,
                                 qty |-> NoItems, todo |-> S, want |-> n, held |-> {}]]
  BY <1>1 DEF Proceed
<1> DEFINE r == [kind |-> "expire", order |-> None, key |-> None,
                 qty |-> NoItems, todo |-> S, want |-> n, held |-> {}]
<1>3. S \subseteq Orders /\ S \subseteq {o \in due : payStatus[o] # "NONE"}
  BY <1>1 DEF Expirable, IInv, TypeOK
<1>4. n \in IF S = {} THEN {None} ELSE S
  BY <1>2 DEF NextRows
<1>5. r \in TxRecords
  BY <1>3, <1>4, SizesAssumption DEF TxRecords, Kinds, NoItems, Rows
<1>6. TransactionOK(t)'
  <2>1. tx'[t] = r
    BY <1>2 DEF IInv, TypeOK
  <2>2. QED
    BY <1>1, <1>3, <1>4, <2>1 DEF TransactionOK, Settles, ExpireOK, Db
<1>7. \A u \in Txs \ {t} : /\ r.held \cap tx[u].held = {}
                           /\ r.kind = "create" => tx[u].order # r.order
                           /\ tx[u].kind = "create" => tx[u].order # r.order
  BY CreatesOrder
<1>8. QED
  BY <1>1, <1>2, <1>5, <1>6, <1>7, OwnStep

LEMMA ExpirePaymentStep ==
  ASSUME IInv, NEW t \in Txs, ExpirePayment(t)
  PROVE  IInv'
<1> DEFINE o == tx[t].want
<1>1. /\ tx[t].kind = "expire" /\ o \in Orders /\ o \in Rows /\ Free(o)
      /\ LockRow(t) /\ UNCHANGED Db
  BY DEF ExpirePayment, Grants, Db, inventory, orders, history
<1>2. ExpireOK(t)
  BY <1>1 DEF IInv, TxOK, TransactionOK
<1>3. o \in tx[t].todo
  BY <1>1, <1>2, RowsAssumption DEF ExpireOK
<1>4. ExpireOK(t)'
  <2>1. /\ tx'[t].order = tx[t].order
        /\ tx'[t].todo = tx[t].todo \ {o} /\ tx'[t].held = tx[t].held \cup {o}
        /\ tx'[t].want \in IF tx'[t].todo = {} THEN {None} ELSE tx'[t].todo
    BY <1>1, LockRowFields DEF NextRows
  <2>2. QED
    BY <1>1, <1>2, <1>3, <2>1 DEF ExpireOK, Db
<1>5. TransactionOK(t)'
  BY <1>1, <1>4, LockRowFields DEF TransactionOK, Settles
<1>6. QED
  BY <1>1, <1>5, LockRowStep

\* A transaction that commits leaves its slot idle; what has to be shown is that
\* the rows it wrote are right and that no other transaction relied on them.
LEMMA CommitStep ==
  ASSUME IInv, NEW t \in Txs, End(t),
         TypeOK', NoOversell', StatusOK',
         \A u \in Txs \ {t} : tx'[u] = tx[u] => TransactionOK(u)'
  PROVE  IInv'
<1>1. /\ tx' = [tx EXCEPT ![t] = Idle] /\ tx \in [Txs -> TxRecords]
      /\ tx'[t] = Idle /\ \A u \in Txs \ {t} : tx'[u] = tx[u]
  BY DEF End, IInv, TypeOK, TxRecords
<1>2. Idle.held = {} /\ Idle.kind = "idle" /\ Idle.order = None
  BY DEF Idle
<1>3. TxOK'
  <2>1. TransactionOK(t)'
    BY <1>1, <1>2 DEF TransactionOK, Settles
  <2>2. QED
    BY <1>1, <2>1 DEF TxOK
<1>4. LocksExclusive'
  BY <1>1, <1>2, CreatesOrder DEF IInv, LocksExclusive
<1>5. QED
  BY <1>3, <1>4 DEF IInv

LEMMA EndType ==
  ASSUME IInv, NEW t \in Txs, End(t)
  PROVE  tx' \in [Txs -> TxRecords]
BY IdleType DEF End, IInv, TypeOK, TxRecords

LEMMA CommitCreateStep ==
  ASSUME IInv, NEW t \in Txs, CommitCreate(t)
  PROVE  IInv'
<1> DEFINE o == tx[t].order
           k == tx[t].key
           q == tx[t].qty
<1>1. /\ CreateOK(t) /\ tx[t].kind = "create" /\ tx[t].want = None /\ End(t)
      /\ reserved' = [p \in Products |-> reserved[p] + q[p]]
      /\ orderStatus' = [orderStatus EXCEPT ![o] = "PENDING"]
      /\ items' = [items EXCEPT ![o] = q]
      /\ orderKey' = [orderKey EXCEPT ![o] = k]
      /\ payStatus' = [payStatus EXCEPT ![o] = "PENDING"]
      /\ keys' = [keys EXCEPT ![k] = [order |-> o, status |-> "PENDING"]]
      /\ outbox' = [outbox EXCEPT !["order.created"][o] = @ + 1]
      /\ stock' = stock /\ due' = due /\ recon' = recon
      /\ manual' = manual /\ supplied' = supplied /\ lowered' = lowered
  BY DEF CommitCreate, IInv, TxOK, TransactionOK, history
<1>2. /\ o \in Orders /\ k \in Keys /\ orderStatus[o] = "NONE" /\ payStatus[o] = "NONE"
      /\ k \in tx[t].held /\ keys[k] = NoKey /\ Contents(q) \subseteq tx[t].held
  BY <1>1 DEF CreateOK, IInv, StatusOK
<1>3. /\ q \in [Products -> 0..MaxQty]
      /\ \A p \in Products : /\ q[p] \in Nat /\ stock[p] \in Nat
                             /\ reserved[p] \in Nat /\ lowered[p] \in Nat
  BY FieldTypes, SizesAssumption DEF IInv, TypeOK
<1>4. \A p \in Products : p \in tx[t].held \/ q[p] = 0
  BY <1>2, <1>3 DEF Contents
<1>5. TypeOK'
  <2>1. reserved' \in [Products -> Nat]
    BY <1>1, <1>3
  <2>2. outbox' \in [EventTypes -> [Orders -> Nat]]
    BY <1>1, <1>2 DEF IInv, TypeOK, EventTypes
  <2>3. keys' \in [Keys -> [order : Orders \cup {None}, status : KeyStatuses]]
    BY <1>1, <1>2 DEF IInv, TypeOK, KeyStatuses
  <2>4. tx' \in [Txs -> TxRecords]
    BY <1>1, EndType
  <2>5. QED
    BY <1>1, <1>2, <1>3, <2>1, <2>2, <2>3, <2>4
       DEF IInv, TypeOK, TxRecords, OrderStatuses, PayStatuses
<1>6. NoOversell'
  BY <1>1, <1>3, <1>4 DEF IInv, NoOversell, CreateOK
<1>7. StatusOK'
  BY <1>1, <1>2 DEF IInv, StatusOK, TypeOK
<1>8. ASSUME NEW u \in Txs \ {t}, tx'[u] = tx[u] PROVE TransactionOK(u)'
  <2>1. TransactionOK(u) /\ tx[t].held \cap tx[u].held = {}
    BY DEF IInv, TxOK, LocksExclusive
  <2>2. \A p \in tx[u].held \cap Products : reserved'[p] = reserved[p]
    BY <1>1, <1>3, <1>4, <2>1
  <2>3. tx[u].kind = "create" => CreateOK(u)'
    <3>1. tx[u].kind = "create" => tx[u].order # o
      BY <1>1 DEF IInv, LocksExclusive
    <3>2. k \in tx[u].held => FALSE
      BY <1>2, <2>1
    <3>3. tx[u].kind = "create" /\ tx[u].key \in tx[u].held => keys'[tx[u].key] = keys[tx[u].key]
      BY <1>1, <1>2, <3>2, <2>1 DEF TransactionOK, CreateOK, IInv, TypeOK
    <3>4. QED
      BY <1>1, <1>2, <1>8, <2>1, <2>2, <3>1, <3>3
         DEF TransactionOK, CreateOK, Contents, IInv, TypeOK, NoKey
  <2>4. Settles(u) => SettleOK(u)'
    BY <1>1, <1>2, <1>8, <2>1, <2>2
       DEF TransactionOK, SettleOK, Covered, Contents, IInv, TypeOK
  <2>5. tx[u].kind = "expire" => ExpireOK(u)'
    BY <1>1, <1>2, <1>8, <2>1 DEF TransactionOK, ExpireOK, IInv, TypeOK
  <2>6. tx[u].kind = "recon" => ReconOK(u)'
    BY <1>1, <1>2, <1>8, <2>1 DEF TransactionOK, ReconOK, IInv, TypeOK
  <2>7. QED
    BY <1>8, <2>1, <2>3, <2>4, <2>5, <2>6 DEF TransactionOK, Settles
<1>9. QED
  BY <1>1, <1>5, <1>6, <1>7, <1>8, CommitStep

LEMMA CommitCallbackStep ==
  ASSUME IInv, NEW t \in Txs, CommitCallback(t)
  PROVE  IInv'
<1> DEFINE o == tx[t].order
           q == tx[t].qty
           paid == tx[t].kind = "confirm"
<1>1. /\ SettleOK(t) /\ tx[t].want = None /\ End(t)
      /\ stock' = IF paid THEN [p \in Products |-> stock[p] - q[p]] ELSE stock
      /\ reserved' = [p \in Products |-> reserved[p] - q[p]]
      /\ payStatus' = [payStatus EXCEPT ![o] = IF paid THEN "SUCCESS" ELSE "FAILED"]
      /\ orderStatus' = [orderStatus EXCEPT ![o] = IF paid THEN "PAID" ELSE "CANCELLED"]
      /\ keys' = KeyExpired(o)
      /\ outbox' = [outbox EXCEPT !["payment.callback.processed"][o] = @ + 1]
      /\ items' = items /\ orderKey' = orderKey /\ due' = due /\ recon' = recon
      /\ manual' = manual /\ supplied' = supplied /\ lowered' = lowered
  BY DEF CommitCallback, IInv, TxOK, TransactionOK, history
<1>2. /\ o \in Orders /\ o \in tx[t].held
      /\ orderStatus[o] = "PENDING" /\ payStatus[o] = "PENDING"
      /\ tx[t].todo \subseteq Rows /\ tx[t].todo = {}
  BY <1>1, FieldTypes, RowsAssumption DEF SettleOK, Rows
<1>3. /\ q \in [Products -> 0..MaxQty]
      /\ \A p \in Products : /\ q[p] \in Nat /\ stock[p] \in Nat
                             /\ reserved[p] \in Nat /\ lowered[p] \in Nat
  BY FieldTypes, SizesAssumption DEF IInv, TypeOK
<1>4. \A p \in Products : p \in tx[t].held \/ q[p] = 0
  BY <1>1, <1>2, <1>3 DEF Contents, SettleOK
<1>5. \A p \in Products : /\ reserved[p] >= q[p]
                          /\ paid => stock[p] >= q[p]
                          /\ reserved[p] <= stock[p] + lowered[p]
  BY <1>1, <1>3, <1>4 DEF SettleOK, Covered, IInv, NoOversell
<1>6. TypeOK'
  <2>1. reserved' \in [Products -> Nat] /\ stock' \in [Products -> Nat]
    <3>1. \A p \in Products : reserved[p] - q[p] \in Nat
      BY <1>3, <1>5
    <3>2. ASSUME paid, NEW p \in Products PROVE stock[p] - q[p] \in Nat
      BY <1>3, <1>5, <3>2
    <3>3. stock \in [Products -> Nat]
      BY DEF IInv, TypeOK
    <3>4. QED
      BY <1>1, <3>1, <3>2, <3>3
  <2>2. outbox' \in [EventTypes -> [Orders -> Nat]]
    BY <1>1, <1>2 DEF IInv, TypeOK, EventTypes
  <2>3. keys' \in [Keys -> [order : Orders \cup {None}, status : KeyStatuses]]
    BY <1>1 DEF IInv, TypeOK, KeyStatuses, KeyExpired
  <2>4. tx' \in [Txs -> TxRecords]
    BY <1>1, EndType
  <2>5. QED
    BY <1>1, <1>2, <2>1, <2>2, <2>3, <2>4
       DEF IInv, TypeOK, TxRecords, OrderStatuses, PayStatuses
<1>7. NoOversell'
  BY <1>1, <1>3, <1>5 DEF NoOversell
<1>8. StatusOK'
  BY <1>1, <1>2 DEF IInv, StatusOK, TypeOK
<1>9. ASSUME NEW u \in Txs \ {t}, tx'[u] = tx[u] PROVE TransactionOK(u)'
  <2>1. TransactionOK(u) /\ tx[t].held \cap tx[u].held = {}
    BY DEF IInv, TxOK, LocksExclusive
  <2>2. \A p \in tx[u].held \cap Products : reserved'[p] = reserved[p] /\ stock'[p] = stock[p]
    BY <1>1, <1>3, <1>4, <2>1
  <2>3. tx[u].kind = "create" => CreateOK(u)'
    <3>1. tx[u].kind = "create" => tx[u].order # o
      BY <1>2, <2>1 DEF TransactionOK, CreateOK
    <3>2. \A k \in Keys : keys[k] = NoKey => keys'[k] = NoKey
      BY <1>1, <1>2, RowsAssumption DEF KeyExpired, NoKey
    <3>3. QED
      BY <1>1, <1>2, <1>9, <2>1, <2>2, <3>1, <3>2
         DEF TransactionOK, CreateOK, Contents, IInv, TypeOK, NoKey
  <2>4. Settles(u) => SettleOK(u)'
    <3>1. Settles(u) => tx[u].order # o
      BY <1>2, <2>1 DEF TransactionOK, SettleOK
    <3>2. QED
      BY <1>1, <1>2, <1>9, <2>1, <2>2, <3>1
         DEF TransactionOK, SettleOK, Covered, Contents, IInv, TypeOK
  <2>5. tx[u].kind = "expire" => ExpireOK(u)'
    BY <1>1, <1>2, <1>9, <2>1 DEF TransactionOK, ExpireOK, IInv, TypeOK
  <2>6. tx[u].kind = "recon" => ReconOK(u)'
    BY <1>1, <1>2, <1>9, <2>1 DEF TransactionOK, ReconOK, IInv, TypeOK
  <2>7. QED
    BY <1>9, <2>1, <2>3, <2>4, <2>5, <2>6 DEF TransactionOK, Settles
<1>10. QED
  BY <1>1, <1>6, <1>7, <1>8, <1>9, CommitStep

LEMMA CommitExpireStep ==
  ASSUME IInv, NEW t \in Txs, CommitExpire(t)
  PROVE  IInv'
<1> DEFINE S == tx[t].held
<1>1. /\ ExpireOK(t) /\ End(t) /\ S \subseteq Rows
      /\ payStatus' = [o \in Orders |-> IF o \in S THEN "EXPIRED" ELSE payStatus[o]]
      /\ outbox' = [outbox EXCEPT !["payment.expired"] =
                      [o \in Orders |-> IF o \in S THEN @[o] + 1 ELSE @[o]]]
      /\ stock' = stock /\ reserved' = reserved /\ orderStatus' = orderStatus
      /\ items' = items /\ orderKey' = orderKey /\ due' = due /\ keys' = keys
      /\ recon' = recon /\ manual' = manual /\ supplied' = supplied
      /\ lowered' = lowered
  BY FieldTypes DEF CommitExpire, IInv, TxOK, TransactionOK, inventory, orders, history
<1>2. \A o \in Orders : o \in S => o \in due /\ payStatus[o] # "NONE"
  BY <1>1 DEF ExpireOK
<1>3. TypeOK'
  <2>1. outbox' \in [EventTypes -> [Orders -> Nat]]
    BY <1>1 DEF IInv, TypeOK, EventTypes
  <2>2. tx' \in [Txs -> TxRecords]
    BY <1>1, EndType
  <2>3. QED
    BY <1>1, <2>1, <2>2 DEF IInv, TypeOK, TxRecords, PayStatuses
<1>4. NoOversell' /\ StatusOK'
  BY <1>1, <1>2 DEF IInv, NoOversell, StatusOK, TypeOK
<1>5. ASSUME NEW u \in Txs \ {t}, tx'[u] = tx[u] PROVE TransactionOK(u)'
  <2>1. TransactionOK(u) /\ S \cap tx[u].held = {}
    BY DEF IInv, TxOK, LocksExclusive
  <2>2. tx[u].kind = "create" => CreateOK(u)'
    BY <1>1, <1>5, <2>1 DEF TransactionOK, CreateOK, Contents
  <2>3. Settles(u) => SettleOK(u)'
    BY <1>1, <1>5, <2>1 DEF TransactionOK, SettleOK, Covered, Contents
  <2>4. tx[u].kind = "expire" => ExpireOK(u)'
    <3>1. {o \in due : payStatus[o] # "NONE"} \subseteq {o \in due' : payStatus'[o] # "NONE"}
      BY <1>1, <1>2 DEF IInv, TypeOK
    <3>2. QED
      BY <1>5, <2>1, <3>1 DEF TransactionOK, ExpireOK
  <2>5. tx[u].kind = "recon" => ReconOK(u)'
    BY <1>1, <1>5, <2>1 DEF TransactionOK, ReconOK, IInv, TypeOK
  <2>6. QED
    BY <1>5, <2>1, <2>2, <2>3, <2>4, <2>5 DEF TransactionOK, Settles
<1>6. QED
  BY <1>1, <1>3, <1>4, <1>5, CommitStep

LEMMA AddPaymentReconStep ==
  ASSUME IInv, NEW t \in Txs, AddPaymentRecon(t)
  PROVE  IInv'
<1>1. /\ ReconOK(t) /\ End(t) /\ recon' = recon \cup {tx[t].order}
      /\ stock' = stock /\ reserved' = reserved /\ orderStatus' = orderStatus
      /\ items' = items /\ orderKey' = orderKey /\ payStatus' = payStatus
      /\ due' = due /\ keys' = keys /\ outbox' = outbox
      /\ manual' = manual /\ supplied' = supplied /\ lowered' = lowered
  BY DEF AddPaymentRecon, IInv, TxOK, TransactionOK, inventory, orders, history
<1>2. TypeOK'
  BY <1>1, EndType DEF IInv, TypeOK, TxRecords, ReconOK
<1>3. NoOversell' /\ StatusOK'
  BY <1>1 DEF IInv, NoOversell, StatusOK
<1>4. ASSUME NEW u \in Txs \ {t}, tx'[u] = tx[u] PROVE TransactionOK(u)'
  BY <1>1, <1>4
     DEF IInv, TxOK, TransactionOK, CreateOK, SettleOK, Covered, Settles, ExpireOK, ReconOK
<1>5. QED
  BY <1>1, <1>2, <1>3, <1>4, CommitStep

\* A statement on one product's stock that no transaction holds, and that adds no
\* more to what is reserved beyond the stock than it adds to lowered, disturbs
\* nothing.
LEMMA StockStatementStep ==
  ASSUME IInv, NEW p \in Products, NEW s \in Nat, NEW r \in Nat, NEW l \in Nat,
         r <= s + l, Free(p),
         stock' = [stock EXCEPT ![p] = s], reserved' = [reserved EXCEPT ![p] = r],
         lowered' = [lowered EXCEPT ![p] = l],
         manual' \in [Products -> Int], supplied' \in [Products -> Int],
         UNCHANGED <<orders, payStatus, due, keys, recon, outbox, tx>>
  PROVE  IInv'
<1>1. TypeOK'
  BY DEF IInv, TypeOK, orders
<1>2. NoOversell' /\ StatusOK' /\ LocksExclusive'
  BY DEF IInv, TypeOK, NoOversell, StatusOK, LocksExclusive, orders
<1>3. ASSUME NEW u \in Txs PROVE TransactionOK(u)'
  <2>1. \A x \in tx[u].held \cap Products : stock'[x] = stock[x] /\ reserved'[x] = reserved[x]
    BY DEF Free, IInv, TypeOK
  <2>2. QED
    BY <2>1 DEF IInv, TxOK, TransactionOK, CreateOK, SettleOK, Covered, Settles, ExpireOK,
                ReconOK, orders, Contents
<1>4. QED
  BY <1>1, <1>2, <1>3 DEF IInv, TxOK

\* What the inventory of a product is made of.
LEMMA StockTypes ==
  ASSUME IInv, NEW p \in Products
  PROVE  /\ stock[p] \in Nat /\ reserved[p] \in Nat /\ lowered[p] \in Nat
         /\ reserved[p] <= stock[p] + lowered[p]
         /\ stock \in [Products -> Nat] /\ reserved \in [Products -> Nat]
         /\ lowered \in [Products -> Nat]
         /\ supplied \in [Products -> Int] /\ manual \in [Products -> Int]
BY DEF IInv, TypeOK, NoOversell

LEMMA TakenByNat ==
  ASSUME NEW q \in Int
  PROVE  TakenBy(q) \in Nat /\ TakenBy(q) + q >= 0
BY DEF TakenBy

LEMMA UpdateStockStep ==
  ASSUME IInv, NEW p \in Products, NEW q \in Restocks, UpdateStock(p, q)
  PROVE  IInv'
<1>1. q \in Int /\ TakenBy(q) \in Nat /\ TakenBy(q) + q >= 0
  BY QuantitiesAssumption, TakenByNat
<1>2. /\ stock' = [stock EXCEPT ![p] = stock[p] + q]
      /\ reserved' = [reserved EXCEPT ![p] = reserved[p]]
      /\ lowered' = [lowered EXCEPT ![p] = lowered[p] + TakenBy(q)]
      /\ manual' \in [Products -> Int] /\ supplied' \in [Products -> Int]
      /\ Free(p) /\ UNCHANGED <<orders, payStatus, due, keys, recon, outbox, tx>>
  BY <1>1, StockTypes DEF UpdateStock
<1>3. /\ stock[p] + q \in Nat /\ lowered[p] + TakenBy(q) \in Nat
      /\ reserved[p] <= (stock[p] + q) + (lowered[p] + TakenBy(q))
  BY <1>1, StockTypes DEF UpdateStock
<1>4. QED
  BY <1>2, <1>3, StockTypes, StockStatementStep

LEMMA ReserveStockByHandStep ==
  ASSUME IInv, NEW p \in Products, NEW q \in ManualQtys, ReserveStock(p, q)
  PROVE  IInv'
<1>1. q \in Int
  BY QuantitiesAssumption
<1>2. /\ stock' = [stock EXCEPT ![p] = stock[p]]
      /\ reserved' = [reserved EXCEPT ![p] = reserved[p] + q]
      /\ lowered' = [lowered EXCEPT ![p] = lowered[p]]
      /\ manual' \in [Products -> Int] /\ supplied' \in [Products -> Int]
      /\ Free(p) /\ UNCHANGED <<orders, payStatus, due, keys, recon, outbox, tx>>
  BY <1>1, StockTypes DEF ReserveStock
<1>3. reserved[p] + q \in Nat /\ reserved[p] + q <= stock[p] + lowered[p]
  BY <1>1, StockTypes DEF ReserveStock, Available
<1>4. QED
  BY <1>2, <1>3, StockTypes, StockStatementStep

LEMMA ReleaseStockStep ==
  ASSUME IInv, NEW p \in Products, NEW q \in ManualQtys, ReleaseStock(p, q)
  PROVE  IInv'
<1>1. q \in Int /\ TakenBy(q) \in Nat /\ TakenBy(q) + q >= 0
  BY QuantitiesAssumption, TakenByNat
<1>2. /\ stock' = [stock EXCEPT ![p] = stock[p]]
      /\ reserved' = [reserved EXCEPT ![p] = reserved[p] - q]
      /\ lowered' = [lowered EXCEPT ![p] = lowered[p] + TakenBy(q)]
      /\ manual' \in [Products -> Int] /\ supplied' \in [Products -> Int]
      /\ Free(p) /\ UNCHANGED <<orders, payStatus, due, keys, recon, outbox, tx>>
  BY <1>1, StockTypes DEF ReleaseStock
<1>3. /\ reserved[p] - q \in Nat /\ lowered[p] + TakenBy(q) \in Nat
      /\ reserved[p] - q <= stock[p] + (lowered[p] + TakenBy(q))
  BY <1>1, StockTypes DEF ReleaseStock
<1>4. QED
  BY <1>2, <1>3, StockTypes, StockStatementStep

LEMMA ConfirmStockStep ==
  ASSUME IInv, NEW p \in Products, NEW q \in ManualQtys, ConfirmStock(p, q)
  PROVE  IInv'
<1>1. q \in Int
  BY QuantitiesAssumption
<1>2. /\ stock' = [stock EXCEPT ![p] = stock[p] - q]
      /\ reserved' = [reserved EXCEPT ![p] = reserved[p] - q]
      /\ lowered' = [lowered EXCEPT ![p] = lowered[p]]
      /\ manual' \in [Products -> Int] /\ supplied' \in [Products -> Int]
      /\ Free(p) /\ UNCHANGED <<orders, payStatus, due, keys, recon, outbox, tx>>
  BY <1>1, StockTypes DEF ConfirmStock
<1>3. /\ reserved[p] - q \in Nat /\ stock[p] - q \in Nat
      /\ reserved[p] - q <= (stock[p] - q) + lowered[p]
  BY <1>1, StockTypes DEF ConfirmStock
<1>4. QED
  BY <1>2, <1>3, StockTypes, StockStatementStep

LEMMA UpdatePaymentStatusStep ==
  ASSUME IInv, NEW o \in Orders, NEW s \in {"SUCCESS", "FAILED", "CANCELLED"},
         UpdatePaymentStatus(o, s)
  PROVE  IInv'
<1>1. /\ payStatus[o] = "PENDING" /\ Free(o) /\ payStatus' = [payStatus EXCEPT ![o] = s]
      /\ UNCHANGED <<inventory, orders, due, keys, recon, outbox, history, tx>>
  BY DEF UpdatePaymentStatus
<1>2. TypeOK'
  BY <1>1 DEF IInv, TypeOK, PayStatuses, inventory, orders, history
<1>3. NoOversell' /\ StatusOK' /\ LocksExclusive'
  BY <1>1 DEF IInv, TypeOK, NoOversell, StatusOK, LocksExclusive, inventory, orders, history
<1>4. ASSUME NEW u \in Txs PROVE TransactionOK(u)'
  <2>1. TransactionOK(u) /\ o \notin tx[u].held
    BY <1>1 DEF IInv, TxOK, Free
  <2>2. QED
    BY <1>1, <2>1 DEF IInv, TypeOK, TransactionOK, CreateOK, SettleOK, Covered, Settles,
                      ExpireOK, ReconOK, orders, inventory, Contents
<1>5. QED
  BY <1>2, <1>3, <1>4 DEF IInv, TxOK

LEMMA DeleteIdempotencyKeyStep ==
  ASSUME IInv, DeleteIdempotencyKey
  PROVE  IInv'
<1>1. PICK S \in SUBSET Deletable :
        /\ keys' = [k \in Keys |-> IF k \in S THEN NoKey ELSE keys[k]]
        /\ UNCHANGED <<inventory, orders, payStatus, due, recon, outbox, history, tx>>
  BY DEF DeleteIdempotencyKey, Limited
<1>2. TypeOK'
  BY <1>1 DEF IInv, TypeOK, NoKey, KeyStatuses, inventory, orders, history
<1>3. NoOversell' /\ StatusOK' /\ LocksExclusive'
  BY <1>1 DEF IInv, NoOversell, StatusOK, LocksExclusive, inventory, orders, history
<1>4. ASSUME NEW u \in Txs PROVE TransactionOK(u)'
  <2>1. TransactionOK(u) /\ \A k \in Keys : keys[k] = NoKey => keys'[k] = NoKey
    BY <1>1 DEF IInv, TxOK
  <2>2. QED
    BY <1>1, <2>1 DEF TransactionOK, CreateOK, SettleOK, Covered, Settles, ExpireOK,
                      ReconOK, orders, inventory, Contents, NoKey
<1>5. QED
  BY <1>2, <1>3, <1>4 DEF IInv, TxOK

LEMMA OverdueStep ==
  ASSUME IInv, NEW o \in Orders, Overdue(o)
  PROVE  IInv'
<1>1. /\ payStatus[o] # "NONE" /\ due' = due \cup {o}
      /\ UNCHANGED <<inventory, orders, payStatus, keys, recon, outbox, history, tx>>
  BY DEF Overdue
<1>2. TypeOK'
  BY <1>1 DEF IInv, TypeOK, inventory, orders, history
<1>3. NoOversell' /\ StatusOK' /\ LocksExclusive'
  BY <1>1 DEF IInv, NoOversell, StatusOK, LocksExclusive, inventory, orders, history
<1>4. ASSUME NEW u \in Txs PROVE TransactionOK(u)'
  BY <1>1 DEF IInv, TxOK, TransactionOK, CreateOK, SettleOK, Covered, Settles, ExpireOK,
              ReconOK, orders, inventory, Contents
<1>5. QED
  BY <1>2, <1>3, <1>4 DEF IInv, TxOK

-----------------------------------------------------------------------------
LEMMA InitInductive == Init => IInv
<1> SUFFICES ASSUME Init PROVE IInv
  OBVIOUS
<1>1. TypeOK
  BY IdleType, SizesAssumption, QuantitiesAssumption
     DEF Init, TypeOK, TxRecords, NoItems, NoKey, OrderStatuses, PayStatuses, KeyStatuses
<1>2. NoOversell
  BY QuantitiesAssumption DEF Init, NoOversell, NoItems
<1>3. LocksExclusive /\ TxOK /\ StatusOK
  BY DEF Init, LocksExclusive, TxOK, TransactionOK, Settles, StatusOK, Idle
<1>4. QED
  BY <1>1, <1>2, <1>3 DEF IInv

LEMMA StutterStep == IInv /\ UNCHANGED vars => IInv'
<1> SUFFICES ASSUME IInv, UNCHANGED vars PROVE IInv'
  OBVIOUS
<1>1. TypeOK' /\ NoOversell' /\ LocksExclusive' /\ StatusOK'
  BY DEF IInv, TypeOK, NoOversell, LocksExclusive, StatusOK, vars
<1>2. TxOK'
  BY DEF IInv, TxOK, TransactionOK, CreateOK, SettleOK, Covered, Settles, ExpireOK,
         ReconOK, vars
<1>3. QED
  BY <1>1, <1>2 DEF IInv

LEMMA NextInductive == IInv /\ [Next]_vars => IInv'
<1> SUFFICES ASSUME IInv, [Next]_vars PROVE IInv'
  OBVIOUS
<1>1. ASSUME NEW t \in Txs, Request(t) PROVE IInv'
  BY <1>1, StartCreateStep, LockPaymentStep, LatePaymentStep DEF Request
<1>2. ASSUME NEW t \in Txs, SelectExpired(t) PROVE IInv'
  BY <1>2, SelectExpiredStep
<1>3. ASSUME NEW t \in Txs, Statement(t) PROVE IInv'
  BY <1>3, ReserveStockStep, SaveKeyStep, CommitCreateStep, SettleStockStep,
     CommitCallbackStep, AddPaymentReconStep, ExpirePaymentStep, CommitExpireStep,
     RollbackStep DEF Statement, Rejected
<1>4. ASSUME NEW t \in Txs, DeadlockVictim(t) \/ Fail(t) PROVE IInv'
  BY <1>4, RollbackStep DEF DeadlockVictim, Fail
<1>5. CASE Admin
  BY <1>5, UpdatePaymentStatusStep, UpdateStockStep, ReserveStockByHandStep,
     ReleaseStockStep, ConfirmStockStep DEF Admin
<1>6. CASE DeleteIdempotencyKey
  BY <1>6, DeleteIdempotencyKeyStep
<1>7. ASSUME NEW o \in Orders, Overdue(o) PROVE IInv'
  BY <1>7, OverdueStep
<1>8. CASE UNCHANGED vars
  BY <1>8, StutterStep
<1>9. QED
  BY <1>1, <1>2, <1>3, <1>4, <1>5, <1>6, <1>7, <1>8 DEF Next

\* The invariant of the transactions: types, exclusive row locks, and for every
\* open transaction what it may rely on at its next statement (processCallback,
\* CreateOrder, ExpirePayments).
THEOREM Invariant == Spec => []IInv
BY InitInductive, NextInductive, PTL DEF Spec

\* Every variable keeps its type.  The writes a transaction makes at its commit
\* carry no CHECK of product_inventory: those of its statements are enough to keep
\* every quantity from going negative.
THEOREM TypeCorrect == Spec => []TypeOK
<1>1. IInv => TypeOK
  BY DEF IInv
<1>2. QED
  BY Invariant, <1>1, PTL

\* No interleaving of checkouts, callbacks and admin calls reserves more units of
\* a product than are in stock (ReserveStockWithTx), beyond the units that negative
\* quantities of administrators took.
THEOREM NeverOversold == Spec => []NoOversell
<1>1. IInv => NoOversell
  BY DEF IInv
<1>2. QED
  BY Invariant, <1>1, PTL
-----------------------------------------------------------------------------
(* The order book *)

\* The transactions' own steps and their rollback leave no trace in the book.
LEMMA Invisible ==
  ASSUME UNCHANGED <<inventory, orders>>
  PROVE  [Book!Next]_Book!vars
BY DEF inventory, orders, Book!vars

LEMMA CommitCreatePlaces ==
  ASSUME IInv, NEW t \in Txs, CommitCreate(t)
  PROVE  \E o \in Orders : Book!Place(o)
<1> DEFINE o == tx[t].order
           q == tx[t].qty
<1>1. /\ CreateOK(t) /\ tx[t].want = None /\ stock' = stock
      /\ reserved' = [p \in Products |-> reserved[p] + q[p]]
      /\ orderStatus' = [orderStatus EXCEPT ![o] = "PENDING"]
      /\ items' = [items EXCEPT ![o] = q]
  BY DEF CommitCreate, IInv, TxOK, TransactionOK
<1>2. /\ o \in Orders /\ orderStatus[o] = "NONE"
      /\ Contents(q) \subseteq tx[t].held /\ q \in [Products -> 0..MaxQty]
      /\ \A p \in tx[t].held \cap Products : reserved[p] + q[p] <= stock[p]
  BY <1>1, FieldTypes DEF CreateOK
<1>3. \A p \in Products : q[p] > 0 => reserved[p] + q[p] <= stock[p]
  BY <1>2 DEF Contents
<1>4. Book!Place(o)
  BY <1>1, <1>2, <1>3 DEF Book!Place
<1>5. QED
  BY <1>2, <1>4

LEMMA CommitCallbackSettles ==
  ASSUME IInv, NEW t \in Txs, CommitCallback(t)
  PROVE  \E o \in Orders : Book!Settle(o, "PAID") \/ Book!Settle(o, "CANCELLED")
<1> DEFINE o == tx[t].order
           q == tx[t].qty
           verdict == IF tx[t].kind = "confirm" THEN "PAID" ELSE "CANCELLED"
<1>1. /\ SettleOK(t) /\ tx[t].want = None /\ items' = items
      /\ stock' = IF tx[t].kind = "confirm" THEN [p \in Products |-> stock[p] - q[p]]
                                            ELSE stock
      /\ reserved' = [p \in Products |-> reserved[p] - q[p]]
      /\ orderStatus' = [orderStatus EXCEPT ![o] = verdict]
  BY DEF CommitCallback, IInv, TxOK, TransactionOK, orders
<1>2. /\ o \in Orders /\ orderStatus[o] = "PENDING" /\ q = items[o]
      /\ tx[t].todo = {} /\ q \in [Products -> 0..MaxQty]
      /\ \A p \in tx[t].held \cap Products : Covered(t, p)
  BY <1>1, FieldTypes, RowsAssumption DEF SettleOK, Rows
<1>3. \A p \in Products : /\ reserved[p] >= items[o][p]
                          /\ verdict = "PAID" => stock[p] >= items[o][p]
  <2>1. SUFFICES ASSUME NEW p \in Products
                 PROVE  reserved[p] >= q[p] /\ (verdict = "PAID" => stock[p] >= q[p])
    BY <1>2
  <2>2. q[p] \in Nat /\ reserved[p] \in Nat /\ stock[p] \in Nat
    BY <1>2, SizesAssumption DEF IInv, TypeOK
  <2>3. CASE q[p] > 0
    BY <1>1, <1>2, <2>3 DEF SettleOK, Covered, Contents
  <2>4. QED
    BY <2>2, <2>3
<1>4. Book!Settle(o, verdict)
  BY <1>1, <1>2, <1>3 DEF Book!Settle
<1>5. QED
  BY <1>2, <1>4

LEMMA AdminByHand ==
  ASSUME IInv, IInv', NEW p \in Products, NEW q \in Restocks \cup ManualQtys,
         UpdateStock(p, q) \/ ReserveStock(p, q) \/ ReleaseStock(p, q) \/ ConfirmStock(p, q)
  PROVE  Book!ByHand(p)
<1>1. /\ stock' = [stock EXCEPT ![p] = stock'[p]]
      /\ reserved' = [reserved EXCEPT ![p] = reserved'[p]]
      /\ UNCHANGED <<orderStatus, items>>
  BY DEF UpdateStock, ReserveStock, ReleaseStock, ConfirmStock, orders, IInv, TypeOK
<1>2. stock'[p] \in Nat /\ reserved'[p] \in Nat
  BY DEF IInv, TypeOK
<1>3. QED
  BY <1>1, <1>2 DEF Book!ByHand

LEMMA NextKeepsBook == IInv /\ IInv' /\ [Next]_vars => [Book!Next]_Book!vars
<1> SUFFICES ASSUME IInv, IInv', [Next]_vars PROVE [Book!Next]_Book!vars
  OBVIOUS
<1>1. ASSUME NEW t \in Txs, Request(t) PROVE UNCHANGED <<inventory, orders>>
  BY <1>1 DEF Request, StartCreate, LockPayment, LatePayment
<1>2. ASSUME NEW t \in Txs, SelectExpired(t) PROVE UNCHANGED <<inventory, orders>>
  BY <1>2 DEF SelectExpired
<1>3. ASSUME NEW t \in Txs, Statement(t) PROVE [Book!Next]_Book!vars
  <2>1. CASE CommitCreate(t)
    BY <2>1, CommitCreatePlaces DEF Book!Next
  <2>2. CASE CommitCallback(t)
    BY <2>2, CommitCallbackSettles DEF Book!Next
  <2>3. CASE ~CommitCreate(t) /\ ~CommitCallback(t)
    <3>1. UNCHANGED <<inventory, orders>>
      BY <1>3, <2>3 DEF Statement, ReserveStockWithTx, SaveIdempotencyKey, SettleStock,
         AddPaymentRecon, ExpirePayment, CommitExpire, Rejected, Rollback
    <3>2. QED
      BY <3>1, Invisible
  <2>4. QED
    BY <2>1, <2>2, <2>3
<1>4. ASSUME NEW t \in Txs, DeadlockVictim(t) \/ Fail(t) PROVE UNCHANGED <<inventory, orders>>
  BY <1>4 DEF DeadlockVictim, Fail, Rollback
<1>5. CASE Admin
  <2>1. ASSUME NEW o \in Orders, NEW s \in {"SUCCESS", "FAILED", "CANCELLED"},
               UpdatePaymentStatus(o, s)
        PROVE  [Book!Next]_Book!vars
    BY <2>1, Invisible DEF UpdatePaymentStatus
  <2>2. ASSUME NEW p \in Products, NEW q \in Restocks, UpdateStock(p, q)
        PROVE  [Book!Next]_Book!vars
    BY <2>2, AdminByHand DEF Book!Next
  <2>3. ASSUME NEW p \in Products, NEW q \in ManualQtys,
               ReserveStock(p, q) \/ ReleaseStock(p, q) \/ ConfirmStock(p, q)
        PROVE  [Book!Next]_Book!vars
    BY <2>3, AdminByHand DEF Book!Next
  <2>4. QED
    BY <1>5, <2>1, <2>2, <2>3 DEF Admin
<1>6. CASE DeleteIdempotencyKey
  BY <1>6, Invisible DEF DeleteIdempotencyKey
<1>7. ASSUME NEW o \in Orders, Overdue(o) PROVE UNCHANGED <<inventory, orders>>
  BY <1>7 DEF Overdue
<1>8. CASE UNCHANGED vars
  BY <1>8, Invisible DEF vars, inventory, orders
<1>9. QED
  BY <1>1, <1>2, <1>3, <1>4, <1>5, <1>6, <1>7, <1>8, Invisible DEF Next

\* The statements of CreateOrder and processCallback, interleaved with all the
\* others, amount to single steps on stock and orders: an order is placed only
\* on units nobody else was promised, and settled once, with its own units.
THEOREM ImplementsOrderBook == Spec => KeepsBook
<1>1. Init => Book!Init
  BY DEF Init, Book!Init, NoItems, Book!NoUnits
<1>2. QED
  BY Invariant, <1>1, NextKeepsBook, PTL DEF Spec, KeepsBook, Book!Spec
=============================================================================
