---------------------------- MODULE CheckoutLaws ----------------------------
(* What holds between the tables of Checkout, for every value of its        *)
(* constants: orders, payments, keys and outbox agree, and units are        *)
(* conserved: what is reserved is what pending orders ask for, and stock    *)
(* leaves with paid orders only.                                            *)
EXTENDS CheckoutProofs, FiniteSetTheorems

Told == <<orderStatus, orderKey, payStatus, due, keys, recon, outbox>>

\* The steps that change something an order, a payment, a key or an event says.
Telling ==
  \/ \E t \in Txs : \/ CommitCreate(t) \/ CommitCallback(t)
                    \/ CommitExpire(t) \/ AddPaymentRecon(t)
  \/ \E o \in Orders, s \in {"SUCCESS", "FAILED", "CANCELLED"} : UpdatePaymentStatus(o, s)
  \/ DeleteIdempotencyKey
  \/ \E o \in Orders : Overdue(o)

\* The key of an order whose window is open is its own: it is neither deleted nor
\* marked expired before the order is settled or overdue.
KeysOwned ==
  \A o \in Orders : orderStatus[o] = "PENDING" /\ o \notin due =>
    /\ orderKey[o] \in Keys
    /\ keys[orderKey[o]] = [order |-> o, status |-> "PENDING"]

LEMMA TellingSteps == [Next]_vars => Telling \/ UNCHANGED Told
<1> SUFFICES ASSUME [Next]_vars, ~Telling PROVE UNCHANGED Told
  OBVIOUS
<1>1. ASSUME NEW t \in Txs, Request(t) \/ SelectExpired(t) PROVE UNCHANGED Told
  BY <1>1 DEF Request, StartCreate, LockPayment, LatePayment, SelectExpired, orders, Told
<1>2. ASSUME NEW t \in Txs, Statement(t) PROVE UNCHANGED Told
  BY <1>2 DEF Telling, Statement, ReserveStockWithTx, SaveIdempotencyKey, SettleStock,
     ExpirePayment, Rejected, Rollback, orders, Told
<1>3. ASSUME NEW t \in Txs, DeadlockVictim(t) \/ Fail(t) PROVE UNCHANGED Told
  BY <1>3 DEF DeadlockVictim, Fail, Rollback, orders, Told
<1>4. CASE Admin
  BY <1>4 DEF Telling, Admin, UpdateStock, ReserveStock, ReleaseStock, ConfirmStock,
     orders, Told
<1>5. CASE UNCHANGED vars
  BY <1>5 DEF vars, Told
<1>6. QED
  BY <1>1, <1>2, <1>3, <1>4, <1>5 DEF Next, Telling

\* What a commit relies on, from the invariant.
LEMMA CreateFacts ==
  ASSUME IInv, NEW t \in Txs, CommitCreate(t)
  PROVE  /\ tx[t].order \in Orders /\ tx[t].key \in Keys
         /\ orderStatus[tx[t].order] = "NONE" /\ payStatus[tx[t].order] = "NONE"
         /\ tx[t].order \notin due
         /\ keys[tx[t].key] = NoKey
BY DEF CommitCreate, IInv, TxOK, TransactionOK, CreateOK, StatusOK

LEMMA CallbackFacts ==
  ASSUME IInv, NEW t \in Txs, CommitCallback(t)
  PROVE  /\ tx[t].order \in Orders
         /\ orderStatus[tx[t].order] = "PENDING" /\ payStatus[tx[t].order] = "PENDING"
BY DEF CommitCallback, IInv, TxOK, TransactionOK, SettleOK

LEMMA ExpireFacts ==
  ASSUME IInv, NEW t \in Txs, CommitExpire(t)
  PROVE  \A o \in tx[t].held : o \in due /\ payStatus[o] # "NONE"
BY DEF CommitExpire, IInv, TxOK, TransactionOK, ExpireOK

LEMMA ReconFacts ==
  ASSUME IInv, NEW t \in Txs, AddPaymentRecon(t)
  PROVE  tx[t].order \in Orders /\ payStatus[tx[t].order] = "EXPIRED"
BY DEF AddPaymentRecon, IInv, TxOK, TransactionOK, ReconOK

-----------------------------------------------------------------------------
LEMMA VerdictsStep == IInv /\ VerdictsAgree /\ [Next]_vars => VerdictsAgree'
<1> SUFFICES ASSUME IInv, VerdictsAgree, [Next]_vars PROVE VerdictsAgree'
  OBVIOUS
<1>t. /\ orderStatus \in [Orders -> OrderStatuses] /\ payStatus \in [Orders -> PayStatuses]
      /\ \A o \in Orders : payStatus[o] = "PENDING" => orderStatus[o] = "PENDING"
      /\ \A o \in Orders : payStatus[o] = "EXPIRED" => o \in due
      /\ \A o \in Orders : orderStatus[o] = "NONE" <=> payStatus[o] = "NONE"
  BY DEF IInv, TypeOK, StatusOK
<1>1. ASSUME NEW t \in Txs, CommitCreate(t) PROVE VerdictsAgree'
  BY <1>t, <1>1, CreateFacts DEF CommitCreate, VerdictsAgree, history
<1>2. ASSUME NEW t \in Txs, CommitCallback(t) PROVE VerdictsAgree'
  BY <1>t, <1>2, CallbackFacts DEF CommitCallback, VerdictsAgree
<1>3. ASSUME NEW t \in Txs, CommitExpire(t) PROVE VerdictsAgree'
  BY <1>t, <1>3, ExpireFacts DEF CommitExpire, VerdictsAgree, orders
<1>4. ASSUME NEW t \in Txs, AddPaymentRecon(t) PROVE VerdictsAgree'
  BY <1>t, <1>4, ReconFacts DEF AddPaymentRecon, VerdictsAgree, orders
<1>5. ASSUME NEW o \in Orders, NEW s \in {"SUCCESS", "FAILED", "CANCELLED"},
             UpdatePaymentStatus(o, s)
      PROVE  VerdictsAgree'
  BY <1>t, <1>5 DEF UpdatePaymentStatus, VerdictsAgree, orders
<1>6. CASE DeleteIdempotencyKey
  BY <1>6 DEF DeleteIdempotencyKey, VerdictsAgree, orders
<1>7. ASSUME NEW o \in Orders, Overdue(o) PROVE VerdictsAgree'
  BY <1>7 DEF Overdue, VerdictsAgree, orders
<1>8. CASE UNCHANGED Told
  BY <1>8 DEF Told, VerdictsAgree
<1>9. QED
  BY TellingSteps, <1>1, <1>2, <1>3, <1>4, <1>5, <1>6, <1>7, <1>8 DEF Telling

\* No callback, PATCH, expiration or retry, in whatever order, leaves an order and
\* its payment with contrary verdicts (processCallback, ExpirePayments).
THEOREM Agreement == Spec => []VerdictsAgree
<1>1. Init => VerdictsAgree
  BY DEF Init, VerdictsAgree
<1>2. QED
  BY Invariant, <1>1, VerdictsStep, PTL DEF Spec

-----------------------------------------------------------------------------
LEMMA SavedOnce ==
  ASSUME outbox \in [EventTypes -> [Orders -> Nat]],
         NEW e \in EventTypes, NEW o \in Orders,
         outbox' = [outbox EXCEPT ![e][o] = @ + 1]
  PROVE  /\ outbox'[e][o] = outbox[e][o] + 1
         /\ \A x \in Orders \ {o} : outbox'[e][x] = outbox[e][x]
         /\ \A f \in EventTypes \ {e} : outbox'[f] = outbox[f]
OBVIOUS

LEMMA OutboxStep == IInv /\ OutboxMatches /\ [Next]_vars => OutboxMatches'
<1> SUFFICES ASSUME IInv, OutboxMatches, [Next]_vars PROVE OutboxMatches'
  OBVIOUS
<1>t. /\ orderStatus \in [Orders -> OrderStatuses] /\ payStatus \in [Orders -> PayStatuses]
      /\ outbox \in [EventTypes -> [Orders -> Nat]]
      /\ "order.created" \in EventTypes /\ "payment.callback.processed" \in EventTypes
      /\ "payment.expired" \in EventTypes
  BY DEF IInv, TypeOK, EventTypes
<1>1. ASSUME NEW t \in Txs, CommitCreate(t) PROVE OutboxMatches'
  <2> DEFINE o == tx[t].order
  <2>1. /\ o \in Orders /\ orderStatus[o] = "NONE" /\ payStatus[o] = "NONE"
        /\ orderStatus' = [orderStatus EXCEPT ![o] = "PENDING"]
        /\ payStatus' = [payStatus EXCEPT ![o] = "PENDING"]
        /\ outbox' = [outbox EXCEPT !["order.created"][o] = @ + 1]
    BY <1>1, CreateFacts DEF CommitCreate
  <2>2. /\ outbox'["order.created"][o] = outbox["order.created"][o] + 1
        /\ \A x \in Orders \ {o} : outbox'["order.created"][x] = outbox["order.created"][x]
        /\ outbox'["payment.callback.processed"] = outbox["payment.callback.processed"]
        /\ outbox'["payment.expired"] = outbox["payment.expired"]
    BY <1>t, <2>1, SavedOnce
  <2>3. QED
    BY <1>t, <2>1, <2>2 DEF OutboxMatches
<1>2. ASSUME NEW t \in Txs, CommitCallback(t) PROVE OutboxMatches'
  <2> DEFINE o == tx[t].order
             paid == tx[t].kind = "confirm"
  <2>1. /\ o \in Orders /\ orderStatus[o] = "PENDING" /\ payStatus[o] = "PENDING"
        /\ orderStatus' = [orderStatus EXCEPT ![o] = IF paid THEN "PAID" ELSE "CANCELLED"]
        /\ payStatus' = [payStatus EXCEPT ![o] = IF paid THEN "SUCCESS" ELSE "FAILED"]
        /\ outbox' = [outbox EXCEPT !["payment.callback.processed"][o] = @ + 1]
    BY <1>2, CallbackFacts DEF CommitCallback
  <2>2. /\ outbox'["payment.callback.processed"][o] = outbox["payment.callback.processed"][o] + 1
        /\ \A x \in Orders \ {o} : outbox'["payment.callback.processed"][x]
                                    = outbox["payment.callback.processed"][x]
        /\ outbox'["order.created"] = outbox["order.created"]
        /\ outbox'["payment.expired"] = outbox["payment.expired"]
    BY <1>t, <2>1, SavedOnce
  <2>3. QED
    BY <1>t, <2>1, <2>2 DEF OutboxMatches
<1>3. ASSUME NEW t \in Txs, CommitExpire(t) PROVE OutboxMatches'
  BY <1>t, <1>3 DEF CommitExpire, OutboxMatches, orders
<1>4. ASSUME NEW t \in Txs, AddPaymentRecon(t) PROVE OutboxMatches'
  BY <1>4 DEF AddPaymentRecon, OutboxMatches, orders
<1>5. ASSUME NEW o \in Orders, NEW s \in {"SUCCESS", "FAILED", "CANCELLED"},
             UpdatePaymentStatus(o, s)
      PROVE  OutboxMatches'
  BY <1>t, <1>5 DEF UpdatePaymentStatus, OutboxMatches, orders
<1>6. CASE DeleteIdempotencyKey
  BY <1>6 DEF DeleteIdempotencyKey, OutboxMatches, orders
<1>7. ASSUME NEW o \in Orders, Overdue(o) PROVE OutboxMatches'
  BY <1>7 DEF Overdue, OutboxMatches, orders
<1>8. CASE UNCHANGED Told
  BY <1>8 DEF Told, OutboxMatches
<1>9. QED
  BY TellingSteps, <1>1, <1>2, <1>3, <1>4, <1>5, <1>6, <1>7, <1>8 DEF Telling

\* The outbox tells what was committed and nothing else: each order and each
\* settlement once, and exactly the payments that expired (CreateOrder,
\* processCallback, ExpirePayments).
THEOREM EventsTellTheTruth == Spec => []OutboxMatches
<1>1. Init => OutboxMatches
  BY DEF Init, OutboxMatches, EventTypes
<1>2. QED
  BY Invariant, <1>1, OutboxStep, PTL DEF Spec

-----------------------------------------------------------------------------
LEMMA KeysStep == IInv /\ KeysOwned /\ [Next]_vars => KeysOwned'
<1> SUFFICES ASSUME IInv, KeysOwned, [Next]_vars PROVE KeysOwned'
  OBVIOUS
<1>t. /\ orderStatus \in [Orders -> OrderStatuses] /\ orderKey \in [Orders -> Keys \cup {None}]
      /\ keys \in [Keys -> [order : Orders \cup {None}, status : KeyStatuses]]
      /\ None \notin Orders
  BY RowsAssumption DEF IInv, TypeOK
<1>1. ASSUME NEW t \in Txs, CommitCreate(t) PROVE KeysOwned'
  <2> DEFINE o == tx[t].order
             k == tx[t].key
  <2>1. /\ o \in Orders /\ k \in Keys /\ keys[k] = NoKey /\ due' = due
        /\ orderStatus' = [orderStatus EXCEPT ![o] = "PENDING"]
        /\ orderKey' = [orderKey EXCEPT ![o] = k]
        /\ keys' = [keys EXCEPT ![k] = [order |-> o, status |-> "PENDING"]]
    BY <1>1, CreateFacts DEF CommitCreate
  <2>2. ASSUME NEW x \in Orders, x # o, orderStatus'[x] = "PENDING", x \notin due
        PROVE  orderKey'[x] \in Keys /\ keys'[orderKey'[x]] = [order |-> x, status |-> "PENDING"]
    <3>1. /\ orderStatus[x] = "PENDING" /\ orderKey'[x] = orderKey[x]
      BY <1>t, <2>1, <2>2
    <3>2. orderKey[x] \in Keys /\ keys[orderKey[x]] = [order |-> x, status |-> "PENDING"]
      BY <2>2, <3>1 DEF KeysOwned
    <3>3. orderKey[x] # k
      BY <1>t, <2>1, <3>2 DEF NoKey
    <3>4. QED
      BY <1>t, <2>1, <3>1, <3>2, <3>3
  <2>3. orderKey'[o] = k /\ keys'[k] = [order |-> o, status |-> "PENDING"]
    BY <1>t, <2>1
  <2>4. QED
    BY <2>1, <2>2, <2>3 DEF KeysOwned
<1>2. ASSUME NEW t \in Txs, CommitCallback(t) PROVE KeysOwned'
  BY <1>t, <1>2, CallbackFacts DEF CommitCallback, KeysOwned, KeyExpired
<1>3. ASSUME NEW t \in Txs, CommitExpire(t) PROVE KeysOwned'
  BY <1>3 DEF CommitExpire, KeysOwned, orders
<1>4. ASSUME NEW t \in Txs, AddPaymentRecon(t) PROVE KeysOwned'
  BY <1>4 DEF AddPaymentRecon, KeysOwned, orders
<1>5. ASSUME NEW o \in Orders, NEW s \in {"SUCCESS", "FAILED", "CANCELLED"},
             UpdatePaymentStatus(o, s)
      PROVE  KeysOwned'
  BY <1>5 DEF UpdatePaymentStatus, KeysOwned, orders
<1>6. CASE DeleteIdempotencyKey
  <2>1. PICK S \in SUBSET Deletable :
          /\ keys' = [k \in Keys |-> IF k \in S THEN NoKey ELSE keys[k]]
          /\ UNCHANGED <<orders, due>>
    BY <1>6 DEF DeleteIdempotencyKey, Limited
  <2>2. \A k \in S : keys[k].order \in due \/ keys[k].status = "EXPIRED"
    BY <2>1 DEF Deletable
  <2>3. QED
    BY <1>t, <2>1, <2>2 DEF KeysOwned, orders
<1>7. ASSUME NEW o \in Orders, Overdue(o) PROVE KeysOwned'
  BY <1>7 DEF Overdue, KeysOwned, orders
<1>8. CASE UNCHANGED Told
  BY <1>8 DEF Told, KeysOwned
<1>9. QED
  BY TellingSteps, <1>1, <1>2, <1>3, <1>4, <1>5, <1>6, <1>7, <1>8 DEF Telling

\* Retries and double clicks with one idempotency key, at any moment, place one
\* order as long as its payment window is open (CheckIdempotency looks without a
\* lock; SaveIdempotencyKey and its primary key decide).
THEOREM KeyPlacesOneOrder == Spec => []OneOpenOrderPerKey
<1>1. Init => KeysOwned
  BY DEF Init, KeysOwned
<1>2. KeysOwned => OneOpenOrderPerKey
  <2>1. SUFFICES ASSUME KeysOwned, NEW o1 \in Orders, NEW o2 \in Orders,
                        orderKey[o1] = orderKey[o2],
                        orderStatus[o1] = "PENDING", orderStatus[o2] = "PENDING",
                        o1 \notin due, o2 \notin due
                 PROVE  o1 = o2
    BY DEF OneOpenOrderPerKey
  <2>2. [order |-> o1, status |-> "PENDING"] = [order |-> o2, status |-> "PENDING"]
    BY <2>1 DEF KeysOwned
  <2>3. [order |-> o1, status |-> "PENDING"].order = [order |-> o2, status |-> "PENDING"].order
    BY <2>2, Zenon
  <2>4. QED
    BY <2>3
<1>3. QED
  BY Invariant, <1>1, <1>2, KeysStep, PTL DEF Spec

-----------------------------------------------------------------------------
\* A paid or cancelled order stays what it is, and only the expiration worker
\* overwrites a payment that is settled (the sub-select of ExpirePayments).
THEOREM SettledStays == Spec => FinishedStays
<1> DEFINE Stays ==
      \A o \in Orders :
        /\ orderStatus[o] \in {"PAID", "CANCELLED"} => orderStatus'[o] = orderStatus[o]
        /\ payStatus[o] \notin {"NONE", "PENDING"} =>
             payStatus'[o] \in {payStatus[o], "EXPIRED"}
<1>1. IInv /\ [Next]_vars => Stays
  <2> SUFFICES ASSUME IInv, [Next]_vars PROVE Stays
    OBVIOUS
  <2>t. /\ orderStatus \in [Orders -> OrderStatuses]
        /\ payStatus \in [Orders -> PayStatuses]
    BY DEF IInv, TypeOK
  <2>1. ASSUME NEW t \in Txs, CommitCreate(t) PROVE Stays
    BY <2>t, <2>1, CreateFacts DEF CommitCreate
  <2>2. ASSUME NEW t \in Txs, CommitCallback(t) PROVE Stays
    BY <2>t, <2>2, CallbackFacts DEF CommitCallback
  <2>3. ASSUME NEW t \in Txs, CommitExpire(t) PROVE Stays
    BY <2>t, <2>3 DEF CommitExpire, orders
  <2>4. ASSUME NEW t \in Txs, AddPaymentRecon(t) PROVE Stays
    BY <2>4 DEF AddPaymentRecon, orders
  <2>5. ASSUME NEW o \in Orders, NEW s \in {"SUCCESS", "FAILED", "CANCELLED"},
               UpdatePaymentStatus(o, s)
        PROVE  Stays
    BY <2>t, <2>5 DEF UpdatePaymentStatus, orders
  <2>6. CASE DeleteIdempotencyKey
    BY <2>6 DEF DeleteIdempotencyKey, orders
  <2>7. ASSUME NEW o \in Orders, Overdue(o) PROVE Stays
    BY <2>7 DEF Overdue, orders
  <2>8. CASE UNCHANGED Told
    BY <2>8 DEF Told
  <2>9. QED
    BY TellingSteps, <2>1, <2>2, <2>3, <2>4, <2>5, <2>6, <2>7, <2>8 DEF Telling
<1>2. QED
  BY Invariant, <1>1, PTL DEF Spec, FinishedStays

-----------------------------------------------------------------------------
(* Units *)

\* Units(p, status) for orders with statuses f and items g.
UnitsIn(f, g, p, status) ==
  {u \in Orders \X (1..MaxQty) : f[u[1]] = status /\ u[2] <= g[u[1]][p]}

LEMMA UnitsNow ==
  ASSUME NEW p, NEW status
  PROVE  /\ Units(p, status) = UnitsIn(orderStatus, items, p, status)
         /\ Units(p, status)' = UnitsIn(orderStatus', items', p, status)
BY DEF Units, UnitsIn

LEMMA UnitsFinite ==
  ASSUME NEW f, NEW g, NEW p, NEW status
  PROVE  /\ IsFiniteSet(UnitsIn(f, g, p, status))
         /\ Cardinality(UnitsIn(f, g, p, status)) \in Nat
<1>1. IsFiniteSet(1..MaxQty)
  BY SizesAssumption, FS_Interval
<1>2. IsFiniteSet(Orders \X (1..MaxQty))
  BY <1>1, SizesAssumption, FS_Product
<1>3. UnitsIn(f, g, p, status) \in SUBSET (Orders \X (1..MaxQty))
  BY DEF UnitsIn
<1>4. IsFiniteSet(UnitsIn(f, g, p, status))
  BY <1>2, <1>3, FS_Subset
<1>5. QED
  BY <1>4, FS_CardinalityType

\* n units of one order.
LEMMA UnitsOfOne ==
  ASSUME NEW o, NEW n \in Nat
  PROVE  IsFiniteSet({o} \X (1..n)) /\ Cardinality({o} \X (1..n)) = n
<1>1. IsFiniteSet({o}) /\ Cardinality({o}) = 1
  BY FS_Singleton
<1>2. IsFiniteSet(1..n) /\ Cardinality(1..n) = n
  BY FS_Interval
<1>3. /\ IsFiniteSet({o} \X (1..n))
      /\ Cardinality({o} \X (1..n)) = Cardinality({o}) * Cardinality(1..n)
  BY <1>1, <1>2, FS_Product
<1>4. QED
  BY <1>1, <1>2, <1>3

\* An order that gets a status adds its units to those that have it.
LEMMA UnitsGained ==
  ASSUME NEW f, NEW g, NEW f2, NEW g2, NEW o \in Orders, NEW p, NEW status,
         \A x \in Orders \ {o} : f2[x] = f[x] /\ g2[x] = g[x],
         f[o] # status, f2[o] = status, g2[o][p] \in 0..MaxQty
  PROVE  Cardinality(UnitsIn(f2, g2, p, status))
           = Cardinality(UnitsIn(f, g, p, status)) + g2[o][p]
<1> DEFINE U  == UnitsIn(f, g, p, status)
           n  == g2[o][p]
           O1 == {o} \X (1..n)
<1>1. /\ IsFiniteSet(U) /\ Cardinality(U) \in Nat
      /\ IsFiniteSet(O1) /\ Cardinality(O1) = n /\ n \in Nat
  <2>1. n \in Nat
    BY SizesAssumption
  <2>2. IsFiniteSet(U) /\ Cardinality(U) \in Nat
    BY UnitsFinite
  <2>3. QED
    BY <2>1, <2>2, UnitsOfOne
<1>2. U \cap O1 = {}
  BY DEF UnitsIn
<1>3. UnitsIn(f2, g2, p, status) = U \cup O1
  <2>1. ASSUME NEW x \in Orders, NEW i \in 1..MaxQty
        PROVE  <<x, i>> \in UnitsIn(f2, g2, p, status) <=> <<x, i>> \in U \cup O1
    <3>1. CASE x = o
      BY <1>1, <3>1 DEF UnitsIn
    <3>2. CASE x # o
      BY <3>2 DEF UnitsIn
    <3>3. QED
      BY <3>1, <3>2
  <2>2. /\ UnitsIn(f2, g2, p, status) \subseteq Orders \X (1..MaxQty)
        /\ U \cup O1 \subseteq Orders \X (1..MaxQty)
    BY SizesAssumption DEF UnitsIn
  <2>3. QED
    BY <2>1, <2>2
<1>4. Cardinality(U \cup O1) = Cardinality(U) + Cardinality(O1) - Cardinality(U \cap O1)
  BY <1>1, FS_Union
<1>5. Cardinality(U \cap O1) = 0
  BY <1>2, FS_EmptySet
<1>6. QED
  BY <1>1, <1>3, <1>4, <1>5

\* The same of the orders before and after a step that changes one of them.
LEMMA StepGains ==
  ASSUME NEW o \in Orders, NEW p, NEW status,
         \A x \in Orders \ {o} : orderStatus'[x] = orderStatus[x] /\ items'[x] = items[x],
         orderStatus[o] # status, orderStatus'[o] = status, items'[o][p] \in 0..MaxQty
  PROVE  Cardinality(Units(p, status)') = Cardinality(Units(p, status)) + items'[o][p]
<1> DEFINE Gains(f, g, f2, g2, s) ==
      Cardinality(UnitsIn(f2, g2, p, s)) = Cardinality(UnitsIn(f, g, p, s)) + g2[o][p]
<1>1. ASSUME NEW f, NEW g, NEW f2, NEW g2, NEW s,
             \A x \in Orders \ {o} : f2[x] = f[x] /\ g2[x] = g[x],
             f[o] # s, f2[o] = s, g2[o][p] \in 0..MaxQty
      PROVE  Gains(f, g, f2, g2, s)
  BY <1>1, UnitsGained
<1> HIDE DEF Gains
<1>2. Gains(orderStatus, items, orderStatus', items', status)
  BY <1>1
<1>3. QED
  BY <1>2, UnitsNow DEF Gains

LEMMA StepLoses ==
  ASSUME NEW o \in Orders, NEW p, NEW status,
         \A x \in Orders \ {o} : orderStatus'[x] = orderStatus[x] /\ items'[x] = items[x],
         orderStatus[o] = status, orderStatus'[o] # status, items[o][p] \in 0..MaxQty
  PROVE  Cardinality(Units(p, status)) = Cardinality(Units(p, status)') + items[o][p]
<1>1. Cardinality(UnitsIn(orderStatus, items, p, status))
        = Cardinality(UnitsIn(orderStatus', items', p, status)) + items[o][p]
  BY UnitsGained
<1>2. QED
  BY <1>1, UnitsNow

LEMMA StepKeeps ==
  ASSUME NEW o \in Orders, NEW p, NEW status,
         \A x \in Orders \ {o} : orderStatus'[x] = orderStatus[x] /\ items'[x] = items[x],
         orderStatus[o] # status, orderStatus'[o] # status
  PROVE  Cardinality(Units(p, status)') = Cardinality(Units(p, status))
<1>1. Units(p, status)' = Units(p, status)
  BY DEF Units
<1>2. QED
  BY <1>1

LEMMA UnitsCounted ==
  ASSUME NEW p, NEW status
  PROVE  /\ Cardinality(Units(p, status)) \in Nat
         /\ Cardinality(Units(p, status)') \in Nat
BY UnitsNow, UnitsFinite

-----------------------------------------------------------------------------
Balanced(p) ==
  /\ reserved[p] = Cardinality(Units(p, "PENDING")) + manual[p]
  /\ stock[p] + Cardinality(Units(p, "PAID")) = supplied[p]

Ledgers == \A p \in Products : Balanced(p)

LEMMA CreateBalanced ==
  ASSUME IInv, Ledgers, NEW t \in Txs, CommitCreate(t)
  PROVE  Ledgers'
<1> DEFINE o == tx[t].order
           q == tx[t].qty
<1> SUFFICES ASSUME NEW p \in Products PROVE Balanced(p)'
  BY DEF Ledgers
<1>1. /\ o \in Orders /\ orderStatus[o] = "NONE" /\ q \in [Products -> 0..MaxQty]
      /\ orderStatus' = [orderStatus EXCEPT ![o] = "PENDING"]
      /\ items' = [items EXCEPT ![o] = q]
      /\ reserved'[p] = reserved[p] + q[p]
      /\ stock' = stock /\ manual' = manual /\ supplied' = supplied
  BY CreateFacts, FieldTypes DEF CommitCreate, history
<1>2. /\ \A x \in Orders \ {o} : orderStatus'[x] = orderStatus[x] /\ items'[x] = items[x]
      /\ orderStatus'[o] = "PENDING" /\ items'[o] = q /\ q[p] \in 0..MaxQty
  BY <1>1 DEF IInv, TypeOK
<1>3. Cardinality(Units(p, "PENDING")') = Cardinality(Units(p, "PENDING")) + q[p]
  BY <1>1, <1>2, StepGains
<1>4. Cardinality(Units(p, "PAID")') = Cardinality(Units(p, "PAID"))
  BY <1>1, <1>2, StepKeeps
<1>5. /\ Cardinality(Units(p, "PENDING")) \in Nat
      /\ manual[p] \in Int /\ reserved[p] \in Nat /\ q[p] \in Int
  BY <1>1, UnitsCounted, SizesAssumption DEF IInv, TypeOK
<1>6. QED
  BY <1>1, <1>3, <1>4, <1>5 DEF Ledgers, Balanced

LEMMA CallbackBalanced ==
  ASSUME IInv, Ledgers, NEW t \in Txs, CommitCallback(t)
  PROVE  Ledgers'
<1> DEFINE o == tx[t].order
           q == tx[t].qty
           paid == tx[t].kind = "confirm"
<1> SUFFICES ASSUME NEW p \in Products PROVE Balanced(p)'
  BY DEF Ledgers
<1>1. /\ o \in Orders /\ orderStatus[o] = "PENDING" /\ q \in [Products -> 0..MaxQty]
      /\ orderStatus' = [orderStatus EXCEPT ![o] = IF paid THEN "PAID" ELSE "CANCELLED"]
      /\ items' = items /\ q = items[o]
      /\ reserved'[p] = reserved[p] - q[p]
      /\ stock'[p] = IF paid THEN stock[p] - q[p] ELSE stock[p]
      /\ manual' = manual /\ supplied' = supplied
  BY CallbackFacts, FieldTypes
     DEF CommitCallback, history, IInv, TxOK, TransactionOK, SettleOK
<1>2. /\ \A x \in Orders \ {o} : orderStatus'[x] = orderStatus[x] /\ items'[x] = items[x]
      /\ orderStatus'[o] = (IF paid THEN "PAID" ELSE "CANCELLED")
      /\ items[o][p] \in 0..MaxQty
  BY <1>1 DEF IInv, TypeOK
<1>3. Cardinality(Units(p, "PENDING")) = Cardinality(Units(p, "PENDING")') + q[p]
  BY <1>1, <1>2, StepLoses
<1>4. Cardinality(Units(p, "PAID")')
        = IF paid THEN Cardinality(Units(p, "PAID")) + q[p] ELSE Cardinality(Units(p, "PAID"))
  <2>1. CASE paid
    BY <1>1, <1>2, <2>1, StepGains
  <2>2. CASE ~paid
    BY <1>1, <1>2, <2>2, StepKeeps
  <2>3. QED
    BY <2>1, <2>2
<1>5. /\ \A s \in {"PENDING", "PAID"} : /\ Cardinality(Units(p, s)) \in Nat
                                      /\ Cardinality(Units(p, s)') \in Nat
      /\ manual[p] \in Int /\ reserved[p] \in Nat /\ stock[p] \in Nat /\ q[p] \in Int
      /\ supplied[p] \in Int
  BY <1>1, UnitsCounted, SizesAssumption DEF IInv, TypeOK
<1>6. manual'[p] = manual[p] /\ supplied'[p] = supplied[p]
  BY <1>1
<1>7. QED
  BY <1>1, <1>3, <1>4, <1>5, <1>6 DEF Ledgers, Balanced

\* An administrator's statement is entered in the history with the same amount.
LEMMA AdminBalanced ==
  ASSUME IInv, Ledgers, NEW p \in Products, NEW q \in Restocks \cup ManualQtys,
         UpdateStock(p, q) \/ ReserveStock(p, q) \/ ReleaseStock(p, q) \/ ConfirmStock(p, q)
  PROVE  Ledgers'
<1> SUFFICES ASSUME NEW x \in Products PROVE Balanced(x)'
  BY DEF Ledgers
<1>1. q \in Int /\ UNCHANGED <<orderStatus, items>>
  BY QuantitiesAssumption DEF UpdateStock, ReserveStock, ReleaseStock, ConfirmStock, orders
<1>2. \A s : UnitsIn(orderStatus', items', x, s) = UnitsIn(orderStatus, items, x, s)
  BY <1>1
<1>3. /\ \A s \in {"PENDING", "PAID"} :
           Cardinality(UnitsIn(orderStatus, items, x, s)) \in Nat
      /\ manual[x] \in Int /\ supplied[x] \in Int
      /\ reserved[x] \in Nat /\ stock[x] \in Nat
  BY UnitsFinite DEF IInv, TypeOK
<1>4. Balanced(x)
  BY DEF Ledgers
<1>5. reserved'[x] - manual'[x] = reserved[x] - manual[x]
  BY <1>1, <1>3 DEF UpdateStock, ReserveStock, ReleaseStock, ConfirmStock, IInv, TypeOK
<1>6. stock'[x] - supplied'[x] = stock[x] - supplied[x]
  <2>1. CASE UpdateStock(p, q)
    BY <1>1, <1>3, <2>1 DEF UpdateStock, IInv, TypeOK
  <2>2. CASE ConfirmStock(p, q)
    BY <1>1, <1>3, <2>2 DEF ConfirmStock, IInv, TypeOK
  <2>3. CASE ReserveStock(p, q) \/ ReleaseStock(p, q)
    BY <2>3 DEF ReserveStock, ReleaseStock
  <2>4. QED
    BY <2>1, <2>2, <2>3
<1>7. reserved'[x] \in Int /\ manual'[x] \in Int /\ stock'[x] \in Int /\ supplied'[x] \in Int
  BY <1>1, <1>3 DEF UpdateStock, ReserveStock, ReleaseStock, ConfirmStock, IInv, TypeOK
<1>8. QED
  BY <1>2, <1>3, <1>4, <1>5, <1>6, <1>7, UnitsNow DEF Balanced

LEMMA LedgersStep == IInv /\ Ledgers /\ [Next]_vars => Ledgers'
<1> DEFINE Kept == UNCHANGED <<stock, reserved, orderStatus, items, manual, supplied>>
<1> SUFFICES ASSUME IInv, Ledgers, [Next]_vars PROVE Ledgers'
  OBVIOUS
<1>1. ASSUME NEW t \in Txs, Request(t) \/ SelectExpired(t) PROVE Kept
  BY <1>1 DEF Request, StartCreate, LockPayment, LatePayment, SelectExpired,
     orders, inventory, history
<1>2. ASSUME NEW t \in Txs, Statement(t), ~CommitCreate(t), ~CommitCallback(t) PROVE Kept
  BY <1>2 DEF Statement, ReserveStockWithTx, SaveIdempotencyKey, SettleStock, CommitExpire,
     AddPaymentRecon, ExpirePayment, Rejected, Rollback, orders, inventory, history
<1>3. ASSUME NEW t \in Txs, DeadlockVictim(t) \/ Fail(t) PROVE Kept
  BY <1>3 DEF DeadlockVictim, Fail, Rollback, orders, inventory, history
<1>4. CASE Admin
  <2>1. ASSUME NEW o \in Orders, NEW s \in {"SUCCESS", "FAILED", "CANCELLED"},
               UpdatePaymentStatus(o, s)
        PROVE  Kept
    BY <2>1 DEF UpdatePaymentStatus, orders, inventory, history
  <2>2. CASE Kept
    BY <2>2 DEF Ledgers, Balanced, Units
  <2>3. QED
    BY <1>4, <2>1, <2>2, AdminBalanced DEF Admin
<1>5. CASE DeleteIdempotencyKey \/ \E o \in Orders : Overdue(o)
  BY <1>5 DEF DeleteIdempotencyKey, Overdue, orders, inventory, history,
     Ledgers, Balanced, Units
<1>6. CASE Kept
  BY <1>6 DEF Ledgers, Balanced, Units
<1>7. CASE UNCHANGED vars
  BY <1>7, <1>6 DEF vars
<1>8. QED
  BY <1>1, <1>2, <1>3, <1>4, <1>5, <1>6, <1>7, CreateBalanced, CallbackBalanced DEF Next

LEMMA InitBalanced == Init => Ledgers
<1> SUFFICES ASSUME Init, NEW p \in Products PROVE Balanced(p)
  BY DEF Ledgers
<1>1. Units(p, "PENDING") = {} /\ Units(p, "PAID") = {}
  BY DEF Init, Units
<1>2. Cardinality({}) = 0
  BY FS_EmptySet
<1>3. QED
  <2>1. reserved[p] = 0 /\ manual[p] = 0 /\ stock[p] = supplied[p] /\ stock[p] \in Nat
    BY QuantitiesAssumption DEF Init, NoItems
  <2>2. QED
    BY <1>1, <1>2, <2>1 DEF Balanced

LEMMA LedgersAlways == Spec => []Ledgers
BY Invariant, InitBalanced, LedgersStep, PTL DEF Spec

\* What is reserved of a product is at any time what the pending orders ask for
\* and administrators reserved: no interleaving, failure or rollback of checkouts
\* and callbacks leaks a unit or gives one back twice.
THEOREM ReservedConserved == Spec => []ReservedLedger
<1>1. Ledgers => ReservedLedger
  BY DEF Ledgers, Balanced, ReservedLedger
<1>2. QED
  BY LedgersAlways, <1>1, PTL

\* Stock leaves with paid orders, once each (ConfirmStockWithTx).
THEOREM StockConserved == Spec => []StockLedger
<1>1. Ledgers => StockLedger
  BY DEF Ledgers, Balanced, StockLedger
<1>2. QED
  BY LedgersAlways, <1>1, PTL

\* A callback that got hold of a pending payment finds its order pending and its
\* units reserved, as long as administrators released no more by hand than they
\* had reserved, and in stock as long as they took none with a negative quantity
\* (processCallback).
THEOREM CallbackCanSettle == Spec => []CallbackSettles
<1>1. IInv /\ Ledgers => CallbackSettles
  <2> SUFFICES ASSUME IInv, Ledgers, NEW t \in Txs, Settles(t)
               PROVE  /\ payStatus[tx[t].order] = "PENDING"
                      /\ orderStatus[tx[t].order] = "PENDING"
                      /\ \A p \in Products :
                           /\ manual[p] >= 0 => reserved[p] >= tx[t].qty[p]
                           /\ manual[p] >= 0 /\ lowered[p] = 0 => Covered(t, p)
    BY DEF CallbackSettles
  <2> DEFINE o == tx[t].order
  <2>1. /\ o \in Orders /\ payStatus[o] = "PENDING" /\ orderStatus[o] = "PENDING"
        /\ tx[t].qty = items[o]
    BY DEF IInv, TxOK, TransactionOK, SettleOK
  <2>2. ASSUME NEW p \in Products, manual[p] >= 0 PROVE reserved[p] >= items[o][p]
    <3> DEFINE n == items[o][p]
               U == UnitsIn(orderStatus, items, p, "PENDING")
    <3>1. n \in 0..MaxQty /\ n \in Nat /\ manual[p] \in Int
      BY <2>1, SizesAssumption DEF IInv, TypeOK
    <3>2. IsFiniteSet(U) /\ Cardinality(U) \in Nat
      BY UnitsFinite
    <3>3. ({o} \X (1..n)) \in SUBSET U
      BY <2>1, <3>1, SizesAssumption DEF UnitsIn
    <3>4. Cardinality({o} \X (1..n)) <= Cardinality(U)
      BY <3>2, <3>3, FS_Subset
    <3>5. Cardinality({o} \X (1..n)) = n
      BY <3>1, UnitsOfOne
    <3>6. reserved[p] = Cardinality(U) + manual[p]
      BY UnitsNow DEF Ledgers, Balanced
    <3>7. QED
      BY <2>2, <3>1, <3>2, <3>4, <3>5, <3>6
  <2>3. ASSUME NEW p \in Products, manual[p] >= 0, lowered[p] = 0 PROVE Covered(t, p)
    <3>1. reserved[p] >= tx[t].qty[p] /\ reserved[p] <= stock[p] + 0
      BY <2>1, <2>2, <2>3 DEF IInv, NoOversell
    <3>2. reserved[p] \in Nat /\ stock[p] \in Nat /\ tx[t].qty[p] \in Int
      BY FieldTypes, SizesAssumption DEF IInv, TypeOK
    <3>3. QED
      BY <3>1, <3>2 DEF Covered
  <2>4. QED
    BY <2>1, <2>2, <2>3
<1>2. QED
  BY Invariant, LedgersAlways, <1>1, PTL
=============================================================================
