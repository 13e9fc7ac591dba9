----------------------------- MODULE CartProofs -----------------------------
(* Safety of Cart for any number of products and requests, any quantities   *)
(* and any width of a quantity.                                             *)
EXTENDS Cart, FiniteSetTheorems, TLAPS

Reqs == [phase : Phases, kind : Kinds \cup {None}, product : Products \cup {None},
         qty : AddQtys \cup NewQtys \cup {None}, seen : Carts]

-----------------------------------------------------------------------------
(* Quantities *)

LEMMA WrapInRange ==
  ASSUME NEW n \in Int
  PROVE  Wrap(n) \in Quantities
<1>1. Half \in Nat /\ Half > 0 /\ 2 * Half > 0
  BY CartAssumption
<1>2. ASSUME NEW a \in Int, NEW b \in Int, b > 0 PROVE a % b \in 0..(b-1)
  BY <1>2
<1>3. (n + Half) % (2 * Half) \in 0..(2 * Half - 1)
  BY <1>1, <1>2
<1>4. QED
  BY <1>1, <1>3 DEF Wrap, Quantities

LEMMA WrapKeeps ==
  ASSUME NEW n \in Quantities
  PROVE  Wrap(n) = n
<1>1. Half \in Nat /\ Half > 0 /\ n \in Int /\ n + Half \in 0..(2 * Half - 1)
  BY CartAssumption DEF Quantities
<1>2. ASSUME NEW a \in Int, NEW b \in Int, b > 0, 0 <= a, a < b PROVE a % b = a
  BY <1>2
<1>3. (n + Half) % (2 * Half) = n + Half
  BY <1>1, <1>2
<1>4. QED
  BY <1>1, <1>3 DEF Wrap

LEMMA QuantityTypes ==
  /\ Half \in Nat /\ Half > 0 /\ None \notin Int
  /\ AddQtys \subseteq Quantities /\ NewQtys \subseteq Quantities /\ Quantities \subseteq Int
BY CartAssumption DEF Quantities

LEMMA CountType ==
  ASSUME NEW c \in Carts, NEW p \in Products
  PROVE  /\ Count(c, p) \in Int /\ Count(c, p) <= Half
         /\ Has(c, p) => c[p] = Count(c, p) /\ c[p] \in Quantities
BY QuantityTypes DEF Count, Has, Carts, Quantities

LEMMA CountEmpty ==
  ASSUME NEW p \in Products
  PROVE  Count(Empty, p) = 0 /\ ~Has(Empty, p) /\ Empty \in Carts
BY DEF Count, Has, Empty, Carts

-----------------------------------------------------------------------------
(* What a request makes of the cart it read *)

LEMMA AddItemIs ==
  ASSUME NEW c \in Carts, NEW p \in Products, NEW q \in AddQtys, q > 0
  PROVE  LET d == AddItem(c, p, q) IN
         /\ d \in Carts /\ \A x \in Products \ {p} : d[x] = c[x]
         /\ Count(c, p) + q \in Quantities => d[p] = Count(c, p) + q
<1> DEFINE w == IF Has(c, p) THEN Wrap(c[p] + q) ELSE q
<1>1. q \in Quantities /\ q \in Int
  BY QuantityTypes
<1>2. CASE Has(c, p)
  <2>1. c[p] = Count(c, p) /\ c[p] \in Int
    BY <1>2, CountType, QuantityTypes
  <2>2. w \in Quantities /\ (Count(c, p) + q \in Quantities => w = Count(c, p) + q)
    BY <1>1, <1>2, <2>1, WrapInRange, WrapKeeps
  <2>3. QED
    BY <2>2 DEF AddItem, Carts
<1>3. CASE ~Has(c, p)
  <2>1. w = q /\ Count(c, p) = 0
    BY <1>3 DEF Count
  <2>2. QED
    BY <1>1, <1>3, <2>1 DEF AddItem, Carts
<1>4. QED
  BY <1>2, <1>3

\* The product asked for has the quantity it had when it was read and what was
\* asked for, unless that is too much for an integer; the others are as they were.
LEMMA ChangedIs ==
  ASSUME NEW r \in Requests, IInv, req[r].phase = "write"
  PROVE  LET j == req[r]
             d == Changed(j) IN
         /\ d \in Carts /\ j.product \in Products /\ j.seen \in Carts
         /\ \A p \in Products \ {j.product} : d[p] = j.seen[p] /\ Asked(j, p) = 0
         /\ Asked(j, j.product) \in Int
         /\ ~RunsOver(j) => Count(d, j.product) = Count(j.seen, j.product) + Asked(j, j.product)
         /\ Has(d, j.product) => d[j.product] > 0 \/ RunsOver(j) \/ j.product \in wrapped
<1> DEFINE j == req[r]
           d == Changed(j)
           x == j.product
<1>1. /\ j \in Reqs /\ j.seen \in Carts /\ x \in Products
      /\ j.kind \in {"add", "remove", "update"}
      /\ j.kind = "add" => j.qty \in AddQtys /\ j.qty > 0
      /\ j.kind = "update" => j.qty \in NewQtys
      /\ Has(j.seen, x) => j.seen[x] > 0 \/ x \in wrapped
  BY DEF IInv, TypeOK, RequestsOK, Reqs
<1> HIDE DEF j
<1>2. Count(j.seen, x) \in Int
  BY <1>1, CountType
<1>3. CASE j.kind = "add"
  <2>1. d = AddItem(j.seen, x, j.qty) /\ j.qty \in Int /\ j.qty > 0
    BY <1>1, <1>3, QuantityTypes DEF Changed
  <2>2. /\ d \in Carts /\ \A p \in Products \ {x} : d[p] = j.seen[p]
        /\ ~RunsOver(j) => d[x] = Count(j.seen, x) + j.qty
    BY <1>1, <1>3, <2>1, AddItemIs DEF RunsOver
  <2>3. \A p \in Products : Asked(j, p) = IF p = x THEN j.qty ELSE 0
    BY <1>3 DEF Asked
  <2>4. ~RunsOver(j) => Count(d, x) = Count(j.seen, x) + j.qty
    BY <1>2, <2>1, <2>2, QuantityTypes DEF Count, Has
  <2>5. Has(d, x) => d[x] > 0 \/ RunsOver(j) \/ x \in wrapped
    <3>1. CASE Has(j.seen, x)
      BY <1>1, <2>1, <2>2, <3>1, CountType
    <3>2. CASE ~Has(j.seen, x)
      BY <2>1, <2>2, <3>2 DEF Count
    <3>3. QED
      BY <3>1, <3>2
  <2>6. QED
    BY <1>1, <1>2, <2>1, <2>2, <2>3, <2>4, <2>5 DEF j
<1>4. CASE j.kind = "remove"
  <2>1. d = [j.seen EXCEPT ![x] = None] /\ ~RunsOver(j)
    BY <1>4 DEF Changed, RemoveItem, RunsOver
  <2>2. /\ d \in Carts /\ d[x] = None /\ \A p \in Products \ {x} : d[p] = j.seen[p]
    BY <1>1, <2>1 DEF Carts
  <2>3. \A p \in Products : Asked(j, p) = IF p = x THEN -Count(j.seen, x) ELSE 0
    BY <1>4 DEF Asked
  <2>4. Count(d, x) = 0 /\ ~Has(d, x)
    BY <2>2 DEF Count, Has
  <2>5. QED
    BY <1>1, <1>2, <2>2, <2>3, <2>4 DEF j
<1>5. CASE j.kind = "update"
  <2> DEFINE n == IF j.qty > 0 THEN j.qty ELSE 0
  <2>1. j.qty \in Quantities /\ j.qty \in Int /\ n \in Int
    <3>1. j.qty \in Quantities /\ j.qty \in Int
      BY <1>1, <1>5, QuantityTypes
    <3>2. QED
      BY <3>1
  <2>2. d = [j.seen EXCEPT ![x] = IF j.qty <= 0 THEN None ELSE j.qty] /\ ~RunsOver(j)
    BY <1>5 DEF Changed, UpdateQuantity, RunsOver
  <2>3. /\ d \in Carts /\ d[x] = (IF j.qty <= 0 THEN None ELSE j.qty)
        /\ \A p \in Products \ {x} : d[p] = j.seen[p]
    BY <1>1, <2>1, <2>2 DEF Carts
  <2>4. \A p \in Products : Asked(j, p) = IF p = x THEN n - Count(j.seen, x) ELSE 0
    BY <1>5 DEF Asked
  <2>5. Count(d, x) = n /\ (Has(d, x) => d[x] > 0)
    BY <2>1, <2>3, QuantityTypes DEF Count, Has
  <2>6. QED
    BY <1>1, <1>2, <2>1, <2>2, <2>3, <2>4, <2>5 DEF j
<1>6. QED
  BY <1>1, <1>3, <1>4, <1>5

-----------------------------------------------------------------------------
(* Units in orders whose cart is not deleted yet *)

\* Placed(p) for requests R.
PlacedIn(R, p) == {u \in Requests \X (1..Half) :
                     R[u[1]].phase = "clear" /\ u[2] <= Count(R[u[1]].seen, p)}

\* The units of p that request r has read.
UnitsOf(R, r, p) == Count(R[r].seen, p)

LEMMA PlacedIs ==
  ASSUME NEW p
  PROVE  Placed(p) = PlacedIn(req, p) /\ Placed(p)' = PlacedIn(req', p)
BY DEF Placed, PlacedIn, Count, Has

LEMMA PlacedFinite ==
  ASSUME NEW R, NEW p
  PROVE  IsFiniteSet(PlacedIn(R, p)) /\ Cardinality(PlacedIn(R, p)) \in Nat
<1>1. IsFiniteSet(1..Half)
  BY QuantityTypes, FS_Interval
<1>2. IsFiniteSet(Requests \X (1..Half))
  BY <1>1, CartAssumption, FS_Product
<1>3. PlacedIn(R, p) \in SUBSET (Requests \X (1..Half))
  BY DEF PlacedIn
<1>4. IsFiniteSet(PlacedIn(R, p))
  BY <1>2, <1>3, FS_Subset
<1>5. QED
  BY <1>4, FS_CardinalityType

\* n units of one request.
LEMMA UnitsOfOne ==
  ASSUME NEW r, NEW n \in Nat
  PROVE  IsFiniteSet({r} \X (1..n)) /\ Cardinality({r} \X (1..n)) = n
<1>1. IsFiniteSet({r}) /\ Cardinality({r}) = 1
  BY FS_Singleton
<1>2. IsFiniteSet(1..n) /\ Cardinality(1..n) = n
  BY FS_Interval
<1>3. /\ IsFiniteSet({r} \X (1..n))
      /\ Cardinality({r} \X (1..n)) = Cardinality({r}) * Cardinality(1..n)
  BY <1>1, <1>2, FS_Product
<1>4. QED
  BY <1>1, <1>2, <1>3

\* An order that is placed adds its units.
LEMMA PlacedGains ==
  ASSUME NEW R, NEW R2, NEW r \in Requests, NEW p,
         \A x \in Requests \ {r} : R2[x] = R[x],
         R[r].phase # "clear", R2[r].phase = "clear", UnitsOf(R2, r, p) \in 0..Half
  PROVE  Cardinality(PlacedIn(R2, p)) = Cardinality(PlacedIn(R, p)) + UnitsOf(R2, r, p)
<1> DEFINE n == UnitsOf(R2, r, p)
           U == PlacedIn(R, p)
           N == {r} \X (1..n)
<1>1. n \in Nat /\ n <= Half /\ Half \in Nat
  BY QuantityTypes
<1>2. IsFiniteSet(U) /\ Cardinality(U) \in Nat
  BY PlacedFinite
<1> HIDE DEF n
<1>3. IsFiniteSet(N) /\ Cardinality(N) = n
  BY <1>1, UnitsOfOne
<1>4. U \cap N = {}
  BY DEF PlacedIn
<1>5. PlacedIn(R2, p) = U \cup N
  <2>1. ASSUME NEW x \in Requests, NEW i \in 1..Half
        PROVE  <<x, i>> \in PlacedIn(R2, p) <=> <<x, i>> \in U \cup N
    <3>1. CASE x = r
      BY <1>1, <3>1 DEF PlacedIn, n, UnitsOf
    <3>2. CASE x # r
      BY <3>2 DEF PlacedIn
    <3>3. QED
      BY <3>1, <3>2
  <2>2. /\ PlacedIn(R2, p) \subseteq Requests \X (1..Half)
        /\ U \cup N \subseteq Requests \X (1..Half)
    BY <1>1 DEF PlacedIn
  <2>3. QED
    BY <2>1, <2>2
<1>6. Cardinality(U \cup N) = Cardinality(U) + Cardinality(N) - Cardinality(U \cap N)
  BY <1>2, <1>3, FS_Union
<1>7. Cardinality(U \cap N) = 0
  BY <1>4, FS_EmptySet
<1>8. QED
  BY <1>1, <1>2, <1>3, <1>5, <1>6, <1>7 DEF n

LEMMA PlacedLoses ==
  ASSUME NEW R, NEW R2, NEW r \in Requests, NEW p,
         \A x \in Requests \ {r} : R2[x] = R[x],
         R[r].phase = "clear", R2[r].phase # "clear", UnitsOf(R, r, p) \in 0..Half
  PROVE  Cardinality(PlacedIn(R, p)) = Cardinality(PlacedIn(R2, p)) + UnitsOf(R, r, p)
<1>1. \A x \in Requests \ {r} : R[x] = R2[x]
  OBVIOUS
<1>2. QED
  BY <1>1, PlacedGains

LEMMA PlacedKeeps ==
  ASSUME NEW R, NEW R2, NEW r \in Requests, NEW p,
         \A x \in Requests \ {r} : R2[x] = R[x],
         R[r].phase # "clear", R2[r].phase # "clear"
  PROVE  PlacedIn(R2, p) = PlacedIn(R, p)
BY DEF PlacedIn

LEMMA StepKeeps ==
  ASSUME NEW r \in Requests, NEW p, \A x \in Requests \ {r} : req'[x] = req[x],
         req[r].phase # "clear", req'[r].phase # "clear"
  PROVE  Placed(p)' = Placed(p)
<1>1. PlacedIn(req', p) = PlacedIn(req, p)
  BY PlacedKeeps
<1>2. QED
  BY <1>1, PlacedIs

LEMMA StepGains ==
  ASSUME NEW r \in Requests, NEW p, \A x \in Requests \ {r} : req'[x] = req[x],
         req[r].phase # "clear", req'[r].phase = "clear", UnitsOf(req', r, p) \in 0..Half
  PROVE  Cardinality(Placed(p)') = Cardinality(Placed(p)) + UnitsOf(req', r, p)
<1>1. Cardinality(PlacedIn(req', p)) = Cardinality(PlacedIn(req, p)) + UnitsOf(req', r, p)
  BY PlacedGains
<1>2. QED
  BY <1>1, PlacedIs

LEMMA StepLoses ==
  ASSUME NEW r \in Requests, NEW p, \A x \in Requests \ {r} : req'[x] = req[x],
         req[r].phase = "clear", req'[r].phase # "clear", UnitsOf(req, r, p) \in 0..Half
  PROVE  Cardinality(Placed(p)) = Cardinality(Placed(p)') + UnitsOf(req, r, p)
<1>1. Cardinality(PlacedIn(req, p)) = Cardinality(PlacedIn(req', p)) + UnitsOf(req, r, p)
  BY PlacedLoses
<1>2. QED
  BY <1>1, PlacedIs

LEMMA PlacedNat == \A p : Cardinality(Placed(p)) \in Nat /\ Cardinality(Placed(p)') \in Nat
BY PlacedIs, PlacedFinite

-----------------------------------------------------------------------------
(* Steps *)

\* What RequestsOK says of a request, when products in w have run over.
Good(j, w) ==
  /\ j.phase = "write" =>
       /\ j.kind \in {"add", "remove", "update"} /\ j.product \in Products
       /\ j.kind = "add" => j.qty \in AddQtys /\ j.qty > 0
       /\ j.kind = "update" => j.qty \in NewQtys
  /\ \A p \in Products : Has(j.seen, p) => j.seen[p] > 0 \/ (p \in w /\ j.phase # "clear")

LEMMA RequestsOKIs ==
  /\ RequestsOK <=> \A r \in Requests : Good(req[r], wrapped)
  /\ RequestsOK' <=> \A r \in Requests : Good(req'[r], wrapped')
BY DEF RequestsOK, Good, Has

LEMMA GoodGrows ==
  ASSUME NEW j, NEW w, NEW v, w \subseteq v, Good(j, w)
  PROVE  Good(j, v)
BY DEF Good

\* One request goes on.
LEMMA ReqStep ==
  ASSUME IInv, NEW r \in Requests, NEW j \in Reqs, Good(j, wrapped'),
         req' = [req EXCEPT ![r] = j], wrapped \subseteq wrapped'
  PROVE  /\ req \in [Requests -> Reqs] /\ req' \in [Requests -> Reqs] /\ req'[r] = j
         /\ \A x \in Requests \ {r} : req'[x] = req[x]
         /\ RequestsOK'
<1>1. /\ req \in [Requests -> Reqs] /\ req' \in [Requests -> Reqs] /\ req'[r] = j
      /\ \A x \in Requests \ {r} : req'[x] = req[x]
  BY DEF IInv, TypeOK, Reqs
<1>2. RequestsOK'
  BY <1>1, RequestsOKIs, GoodGrows DEF IInv
<1>3. QED
  BY <1>1, <1>2

LEMMA IdleReq == Idle \in Reqs /\ Idle.phase = "idle" /\ \A w : Good(Idle, w)
<1>1. Empty \in Carts
  BY DEF Empty, Carts
<1>2. Idle \in Reqs /\ Idle.phase = "idle" /\ Idle.seen = Empty
  BY <1>1 DEF Idle, Reqs, Phases
<1>3. QED
  BY <1>2, CountEmpty DEF Good

\* The ledger follows what a step does to cart and orders.
LEMMA OweStep ==
  ASSUME IInv, NEW diff \in [Products -> Int], Owe(diff),
         causes \subseteq causes', wrapped \subseteq wrapped', cart' \in Carts,
         \A p \in Products : causes' = {} /\ p \notin wrapped' =>
           Count(cart', p) - Cardinality(Placed(p)')
             = Count(cart, p) - Cardinality(Placed(p)) + diff[p]
  PROVE  Ledger' /\ owed' \in [Products -> Int]
<1>1. owed \in [Products -> Int] /\ cart \in Carts
  BY DEF IInv, TypeOK
<1>2. \A p \in Products : owed'[p] = IF causes' = {} /\ p \notin wrapped' THEN owed[p] + diff[p] ELSE 0
  BY DEF Owe
<1>3. owed' \in [Products -> Int]
  BY <1>1 DEF Owe
<1>4. ASSUME causes' = {}, NEW p \in Products, p \notin wrapped'
      PROVE  owed'[p] = Count(cart', p) - Cardinality(Placed(p)')
  <2>1. owed[p] = Count(cart, p) - Cardinality(Placed(p))
    BY <1>4 DEF IInv, Ledger
  <2>2. owed'[p] = owed[p] + diff[p] /\ diff[p] \in Int
    BY <1>2, <1>4
  <2>3. /\ Count(cart, p) \in Int /\ Count(cart', p) \in Int
        /\ Cardinality(Placed(p)) \in Nat /\ Cardinality(Placed(p)') \in Nat
    BY <1>1, CountType, PlacedNat
  <2>4. Count(cart', p) - Cardinality(Placed(p)')
          = Count(cart, p) - Cardinality(Placed(p)) + diff[p]
    BY <1>4
  <2>5. QED
    BY <2>1, <2>2, <2>3, <2>4
<1>5. \A p : Count(cart, p)' = Count(cart', p)
  BY DEF Count, Has
<1>6. QED
  BY <1>3, <1>4, <1>5 DEF Ledger

\* A request that reads, or ends without having ordered anything.
LEMMA NothingOwed ==
  ASSUME IInv, NEW r \in Requests, NEW j \in Reqs, Good(j, wrapped),
         req' = [req EXCEPT ![r] = j], req[r].phase # "clear", j.phase # "clear",
         UNCHANGED <<cart, owed, causes, wrapped>>
  PROVE  IInv'
<1>1. /\ req' \in [Requests -> Reqs] /\ req'[r] = j /\ RequestsOK'
      /\ \A x \in Requests \ {r} : req'[x] = req[x]
  BY ReqStep
<1>2. \A p : Placed(p)' = Placed(p)
  BY <1>1, StepKeeps
<1>3. TypeOK'
  BY <1>1 DEF IInv, TypeOK, Reqs
<1>4. QuantitiesPositive'
  BY DEF IInv, QuantitiesPositive, Has
<1>5. Ledger'
  BY <1>2 DEF IInv, Ledger, Count, Has
<1>6. QED
  BY <1>1, <1>3, <1>4, <1>5 DEF IInv

LEMMA ReadStep ==
  ASSUME IInv, NEW r \in Requests, NEW kind \in Kinds, NEW p \in Products \cup {None},
         NEW q \in AddQtys \cup NewQtys \cup {None}, Read(r, kind, p, q),
         kind # "order" => p \in Products,
         kind = "add" => q \in AddQtys /\ q > 0,
         kind = "update" => q \in NewQtys
  PROVE  IInv'
<1> DEFINE f == IF kind = "order" THEN "commit" ELSE "write"
           j == [phase |-> f, kind |-> kind, product |-> p, qty |-> q, seen |-> cart]
<1>1. /\ req[r].phase = "idle" /\ req' = [req EXCEPT ![r] = j]
      /\ UNCHANGED <<cart, owed, causes, wrapped>>
  BY DEF Read
<1>2. f \in Phases /\ f # "clear" /\ cart \in Carts
  BY DEF Phases, IInv, TypeOK
<1>3. j \in Reqs /\ j.phase # "clear"
  BY <1>2 DEF Reqs
<1>4. Good(j, wrapped)
  BY DEF Good, Kinds, IInv, QuantitiesPositive
<1>5. QED
  BY <1>1, <1>3, <1>4, NothingOwed

LEMMA FailStep ==
  ASSUME IInv, NEW r \in Requests, Fail(r)
  PROVE  IInv'
BY IdleReq, NothingOwed DEF Fail, End

LEMMA WriteStep ==
  ASSUME IInv, NEW r \in Requests, NEW answered \in BOOLEAN, Write(r, answered)
  PROVE  IInv'
<1> DEFINE j == req[r]
           x == req[r].product
           diff == [p \in Products |-> Asked(j, p)]
<1>1. /\ j.phase = "write" /\ cart' = Changed(j) /\ req' = [req EXCEPT ![r] = Idle]
      /\ causes \subseteq causes' /\ Stale(r) \subseteq causes'
      /\ causes' \subseteq causes \cup {"stale", "unconfirmed"}
      /\ wrapped' = IF RunsOver(j) THEN wrapped \cup {x} ELSE wrapped
      /\ Owe(diff)
  BY DEF Write, End, Stale
<1>2. /\ cart' \in Carts /\ x \in Products /\ j.seen \in Carts
      /\ \A p \in Products \ {x} : cart'[p] = j.seen[p] /\ Asked(j, p) = 0
      /\ Asked(j, x) \in Int
      /\ ~RunsOver(j) => Count(cart', x) = Count(j.seen, x) + Asked(j, x)
      /\ Has(cart', x) => cart'[x] > 0 \/ RunsOver(j) \/ x \in wrapped
  BY <1>1, ChangedIs
<1>3. wrapped \subseteq wrapped' /\ wrapped' \subseteq wrapped \cup {x}
  BY <1>1
<1>4. /\ req' \in [Requests -> Reqs] /\ RequestsOK' /\ req'[r] = Idle
      /\ \A y \in Requests \ {r} : req'[y] = req[y]
  BY <1>1, <1>3, IdleReq, ReqStep
<1>5. \A p : Placed(p)' = Placed(p)
  BY <1>1, <1>4, IdleReq, StepKeeps
<1>6. diff \in [Products -> Int] /\ \A p \in Products : diff[p] = Asked(j, p)
  BY <1>2
<1> HIDE DEF diff
<1>7. ASSUME NEW p \in Products, causes' = {}, p \notin wrapped'
      PROVE  Count(cart', p) = Count(cart, p) + diff[p]
  <2>1. cart = j.seen
    BY <1>1, <1>7 DEF Stale
  <2>2. CASE p = x
    BY <1>1, <1>2, <1>6, <1>7, <2>1, <2>2
  <2>3. CASE p # x
    <3>1. cart'[p] = cart[p] /\ diff[p] = 0 /\ Count(cart, p) \in Int
      BY <1>2, <1>6, <2>1, <2>3, CountType
    <3>2. QED
      BY <3>1 DEF Count, Has
  <2>4. QED
    BY <2>2, <2>3
<1>8. Ledger' /\ owed' \in [Products -> Int]
  <2>1. ASSUME NEW p \in Products, causes' = {}, p \notin wrapped'
        PROVE  Count(cart', p) - Cardinality(Placed(p)')
                 = Count(cart, p) - Cardinality(Placed(p)) + diff[p]
    <3>1. Count(cart', p) = Count(cart, p) + diff[p] /\ Placed(p)' = Placed(p)
      BY <1>5, <1>7, <2>1
    <3>2. Count(cart, p) \in Int /\ diff[p] \in Int /\ Cardinality(Placed(p)) \in Nat
      BY <1>6, CountType, PlacedNat DEF IInv, TypeOK
    <3>3. QED
      BY <3>1, <3>2
  <2>2. QED
    BY <1>1, <1>2, <1>3, <1>6, <2>1, OweStep
<1>9. TypeOK'
  BY <1>1, <1>2, <1>3, <1>4, <1>8 DEF IInv, TypeOK, Reqs, Causes
<1>10. QuantitiesPositive'
  <2>1. ASSUME NEW p \in Products, Has(cart', p), p \notin wrapped'
        PROVE  cart'[p] > 0
    <3>1. CASE p = x
      BY <1>1, <1>2, <2>1, <3>1
    <3>2. CASE p # x
      <4>1. cart'[p] = j.seen[p] /\ Has(j.seen, p) /\ p \notin wrapped
        BY <1>2, <1>3, <2>1, <3>2 DEF Has
      <4>2. QED
        BY <4>1 DEF IInv, RequestsOK
    <3>3. QED
      BY <3>1, <3>2
  <2>2. QED
    BY <2>1 DEF QuantitiesPositive, Has
<1>11. QED
  BY <1>4, <1>8, <1>9, <1>10 DEF IInv

\* The document goes, and with it what was in it.
LEMMA EmptiedStep ==
  ASSUME IInv, cart' = Empty, UNCHANGED <<req, causes, wrapped>>,
         Owe([p \in Products |-> -Count(cart, p)])
  PROVE  IInv'
<1> DEFINE diff == [p \in Products |-> -Count(cart, p)]
<1>1. cart \in Carts /\ cart' \in Carts
  BY DEF IInv, TypeOK, Empty, Carts
<1>2. diff \in [Products -> Int] /\ \A p \in Products : diff[p] = -Count(cart, p)
  BY <1>1, CountType
<1> HIDE DEF diff
<1>3. \A p : Placed(p)' = Placed(p)
  BY DEF Placed, Count, Has
<1>4. Ledger' /\ owed' \in [Products -> Int]
  <2>1. ASSUME NEW p \in Products
        PROVE  Count(cart', p) - Cardinality(Placed(p)')
                 = Count(cart, p) - Cardinality(Placed(p)) + diff[p]
    <3>1. /\ Count(cart', p) = 0 /\ diff[p] = -Count(cart, p) /\ Count(cart, p) \in Int
          /\ Placed(p)' = Placed(p) /\ Cardinality(Placed(p)) \in Nat
      BY <1>1, <1>2, <1>3, CountType, CountEmpty, PlacedNat
    <3>2. QED
      BY <3>1
  <2>2. QED
    BY <1>1, <1>2, <2>1, OweStep DEF diff
<1>5. TypeOK'
  BY <1>1, <1>4 DEF IInv, TypeOK
<1>6. RequestsOK'
  BY DEF IInv, RequestsOK, Has
<1>7. QuantitiesPositive'
  BY CountEmpty DEF QuantitiesPositive, Has
<1>8. QED
  BY <1>4, <1>5, <1>6, <1>7 DEF IInv

LEMMA CommitOrderStep ==
  ASSUME IInv, NEW r \in Requests, CommitOrder(r)
  PROVE  IInv'
<1> DEFINE j == [req[r] EXCEPT !.phase = "clear"]
           diff == [p \in Products |-> -Count(req[r].seen, p)]
<1>1. /\ req[r] \in Reqs /\ req[r].phase = "commit" /\ req[r].seen \in Carts
      /\ \A p \in Products : Has(req[r].seen, p) => req[r].seen[p] > 0
      /\ req' = [req EXCEPT ![r] = j]
      /\ UNCHANGED <<cart, causes, wrapped>> /\ Owe(diff) /\ cart \in Carts
  BY DEF CommitOrder, IInv, TypeOK, Reqs
<1>2. j \in Reqs /\ j.phase = "clear" /\ j.seen = req[r].seen
  BY <1>1 DEF Reqs, Phases
<1>3. Good(j, wrapped')
  BY <1>1, <1>2 DEF Good
<1> HIDE DEF j
<1>4. /\ req' \in [Requests -> Reqs] /\ RequestsOK' /\ req'[r] = j
      /\ \A y \in Requests \ {r} : req'[y] = req[y]
  BY <1>1, <1>2, <1>3, ReqStep
<1>5. \A p \in Products : Count(req[r].seen, p) \in 0..Half
  <2>1. ASSUME NEW p \in Products PROVE Count(req[r].seen, p) >= 0
    <3>1. Has(req[r].seen, p) => req[r].seen[p] > 0 /\ req[r].seen[p] \in Int
      BY <1>1, CountType, QuantityTypes
    <3>2. QED
      BY <3>1 DEF Count
  <2>2. QED
    BY <1>1, <2>1, CountType, QuantityTypes
<1>6. diff \in [Products -> Int] /\ \A p \in Products : diff[p] = -Count(req[r].seen, p)
  BY <1>1, CountType
<1> HIDE DEF diff
<1>7. Ledger' /\ owed' \in [Products -> Int]
  <2>1. ASSUME NEW p \in Products
        PROVE  Count(cart', p) - Cardinality(Placed(p)')
                 = Count(cart, p) - Cardinality(Placed(p)) + diff[p]
    <3>1. UnitsOf(req', r, p) = Count(req[r].seen, p)
      BY <1>2, <1>4 DEF UnitsOf
    <3>2. Cardinality(Placed(p)') = Cardinality(Placed(p)) + Count(req[r].seen, p)
      <4>1. req'[r].phase = "clear" /\ req[r].phase # "clear" /\ UnitsOf(req', r, p) \in 0..Half
        BY <1>1, <1>2, <1>4, <1>5, <3>1
      <4>2. QED
        BY <1>4, <3>1, <4>1, StepGains
    <3>3. /\ Count(cart', p) = Count(cart, p) /\ diff[p] = -Count(req[r].seen, p)
          /\ Count(cart, p) \in Int /\ Count(req[r].seen, p) \in Int /\ Cardinality(Placed(p)) \in Nat
      BY <1>1, <1>6, CountType, PlacedNat
    <3>4. QED
      BY <3>2, <3>3
  <2>2. QED
    BY <1>1, <1>6, <2>1, OweStep
<1>8. TypeOK'
  BY <1>1, <1>4, <1>7 DEF IInv, TypeOK, Reqs
<1>9. QuantitiesPositive'
  BY <1>1 DEF IInv, QuantitiesPositive, Has
<1>10. QED
  BY <1>4, <1>7, <1>8, <1>9 DEF IInv

\* An order's request ends: the cart is deleted, or a cause of a difference is noted.
LEMMA ClearStep ==
  ASSUME IInv, NEW r \in Requests, req[r].phase = "clear", End(r), wrapped' = wrapped,
         Owe([p \in Products |-> 0]), cart' \in {cart, Empty},
         NEW c \in {"stale", "leftover"}, causes' \in {causes, causes \cup {c}},
         causes' = {} => cart' = Empty /\ cart = req[r].seen
  PROVE  IInv'
<1> DEFINE diff == [p \in Products |-> 0]
<1>1. /\ req[r].seen \in Carts /\ cart \in Carts /\ cart' \in Carts
      /\ \A p \in Products : Has(req[r].seen, p) => req[r].seen[p] > 0
      /\ causes \subseteq causes' /\ (causes' = {} => causes' = causes)
  BY CountEmpty DEF IInv, TypeOK, RequestsOK, Empty, Carts
<1>2. /\ req' \in [Requests -> Reqs] /\ RequestsOK' /\ req'[r] = Idle
      /\ \A y \in Requests \ {r} : req'[y] = req[y]
  BY IdleReq, ReqStep DEF End
<1>3. diff \in [Products -> Int] /\ \A p \in Products : diff[p] = 0
  OBVIOUS
<1> HIDE DEF diff
<1>4. \A p \in Products : Count(req[r].seen, p) \in 0..Half
  <2>1. ASSUME NEW p \in Products PROVE Count(req[r].seen, p) >= 0
    <3>1. Has(req[r].seen, p) => req[r].seen[p] > 0 /\ req[r].seen[p] \in Int
      BY <1>1, CountType, QuantityTypes
    <3>2. QED
      BY <3>1 DEF Count
  <2>2. QED
    BY <1>1, <2>1, CountType, QuantityTypes
<1>5. Ledger' /\ owed' \in [Products -> Int]
  <2>1. ASSUME NEW p \in Products, causes' = {}
        PROVE  Count(cart', p) - Cardinality(Placed(p)')
                 = Count(cart, p) - Cardinality(Placed(p)) + diff[p]
    <3>1. Count(cart', p) = 0 /\ Count(cart, p) = Count(req[r].seen, p)
      BY <1>1, <2>1, CountEmpty
    <3>2. Cardinality(Placed(p)) = Cardinality(Placed(p)') + Count(req[r].seen, p)
      <4>1. req'[r].phase # "clear" /\ UnitsOf(req, r, p) = Count(req[r].seen, p)
        BY <1>2, IdleReq DEF UnitsOf
      <4>2. UnitsOf(req, r, p) \in 0..Half
        BY <1>4, <4>1
      <4>3. QED
        BY <1>2, <4>1, <4>2, StepLoses
    <3>3. Count(req[r].seen, p) \in Int /\ Cardinality(Placed(p)') \in Nat /\ diff[p] = 0
      BY <1>1, <1>3, CountType, PlacedNat
    <3>4. QED
      BY <3>1, <3>2, <3>3
  <2>2. QED
    BY <1>1, <1>3, <2>1, OweStep DEF diff
<1>6. TypeOK'
  BY <1>1, <1>2, <1>5 DEF IInv, TypeOK, Reqs, Causes
<1>7. QuantitiesPositive'
  BY CountEmpty DEF IInv, QuantitiesPositive, Has
<1>8. QED
  BY <1>2, <1>5, <1>6, <1>7 DEF IInv

LEMMA ClearCartStep ==
  ASSUME IInv, NEW r \in Requests, ClearCart(r)
  PROVE  IInv'
<1>1. /\ req[r].phase = "clear" /\ End(r) /\ wrapped' = wrapped
      /\ Owe([p \in Products |-> 0]) /\ cart' = Empty
      /\ causes' = causes \cup Stale(r)
  BY DEF ClearCart
<1>2. causes' \in {causes, causes \cup {"stale"}} /\ (causes' = {} => cart = req[r].seen)
  BY <1>1 DEF Stale
<1>3. QED
  BY <1>1, <1>2, ClearStep

LEMMA ClearFailsStep ==
  ASSUME IInv, NEW r \in Requests, ClearFails(r)
  PROVE  IInv'
<1>1. /\ req[r].phase = "clear" /\ End(r) /\ wrapped' = wrapped
      /\ Owe([p \in Products |-> 0]) /\ cart' = cart
      /\ causes' = causes \cup {"leftover"} /\ causes' # {}
  BY DEF ClearFails
<1>2. QED
  BY <1>1, ClearStep

-----------------------------------------------------------------------------
(* The theorems *)

LEMMA InitInv == Init => IInv
<1> SUFFICES ASSUME Init PROVE IInv
  OBVIOUS
<1>1. TypeOK
  <2>1. req \in [Requests -> Reqs]
    BY IdleReq DEF Init
  <2>2. cart \in Carts
    BY DEF Init, Empty, Carts
  <2>3. QED
    BY <2>1, <2>2 DEF Init, TypeOK, Reqs
<1>2. RequestsOK
  BY IdleReq, RequestsOKIs DEF Init
<1>3. QuantitiesPositive
  BY CountEmpty DEF Init, QuantitiesPositive
<1>4. Ledger
  <2>1. ASSUME NEW p \in Products PROVE Count(cart, p) = 0 /\ Cardinality(Placed(p)) = 0
    <3>1. Placed(p) = {}
      BY IdleReq DEF Init, Placed
    <3>2. QED
      BY <3>1, CountEmpty, FS_EmptySet DEF Init
  <2>2. QED
    BY <2>1 DEF Init, Ledger
<1>5. QED
  BY <1>1, <1>2, <1>3, <1>4 DEF IInv

LEMMA StutterStep == IInv /\ UNCHANGED vars => IInv'
<1> SUFFICES ASSUME IInv, UNCHANGED vars PROVE IInv'
  OBVIOUS
<1>1. \A p : Placed(p)' = Placed(p)
  BY DEF vars, Placed, Count, Has
<1>2. TypeOK' /\ RequestsOK' /\ QuantitiesPositive'
  BY DEF vars, IInv, TypeOK, RequestsOK, QuantitiesPositive, Has
<1>3. Ledger'
  BY <1>1 DEF vars, IInv, Ledger, Count, Has
<1>4. QED
  BY <1>2, <1>3 DEF IInv

LEMMA NextStep == IInv /\ Next => IInv'
<1> SUFFICES ASSUME IInv, Next PROVE IInv'
  OBVIOUS
<1>1. ASSUME NEW r \in Requests, NEW p \in Products, NEW q \in AddQtys, ReadToAdd(r, p, q)
      PROVE  IInv'
  BY <1>1, ReadStep DEF ReadToAdd, Kinds
<1>2. ASSUME NEW r \in Requests, NEW p \in Products, ReadToRemove(r, p)
      PROVE  IInv'
  BY <1>2, ReadStep DEF ReadToRemove, Kinds
<1>3. ASSUME NEW r \in Requests, NEW p \in Products, NEW q \in NewQtys, ReadToUpdate(r, p, q)
      PROVE  IInv'
  BY <1>3, ReadStep DEF ReadToUpdate, Kinds
<1>4. ASSUME NEW r \in Requests, ReadToOrder(r) PROVE IInv'
  BY <1>4, ReadStep DEF ReadToOrder, Kinds
<1>5. CASE DeleteCart
  BY <1>5, EmptiedStep DEF DeleteCart
<1>6. CASE Expire
  BY <1>6, EmptiedStep DEF Expire
<1>7. QED
  BY <1>1, <1>2, <1>3, <1>4, <1>5, <1>6, WriteStep, CommitOrderStep, ClearCartStep,
     ClearFailsStep, FailStep DEF Next, Step

\* The cart's invariant: what is in the cart is owed to the customer or part of an
\* order about to delete it, in every interleaving of the routes.
THEOREM CartInvariant == Spec => []IInv
<1>1. IInv /\ [Next]_vars => IInv'
  BY NextStep, StutterStep
<1>2. QED
  BY InitInv, <1>1, PTL DEF Spec

\* No quantity is lost, comes back or is ordered twice, but for the named causes.
THEOREM CartConserved == Spec => []CartLedger
<1>1. IInv => CartLedger
  <2> SUFFICES ASSUME IInv, causes = {}, \A r \in Requests : req[r].phase # "clear",
                      NEW p \in Products \ wrapped
               PROVE  Count(cart, p) = owed[p]
    BY DEF CartLedger
  <2>1. Placed(p) = {}
    BY DEF Placed
  <2>2. owed[p] = Count(cart, p) - 0
    BY <2>1, FS_EmptySet DEF IInv, Ledger
  <2>3. Count(cart, p) \in Int
    BY CountType DEF IInv, TypeOK
  <2>4. QED
    BY <2>2, <2>3
<1>2. QED
  BY CartInvariant, <1>1, PTL

\* No route leaves a quantity of zero or less in the cart, unless it ran over.
THEOREM QuantitiesStayPositive == Spec => []QuantitiesPositive
<1>1. IInv => QuantitiesPositive
  BY DEF IInv
<1>2. QED
  BY CartInvariant, <1>1, PTL
=============================================================================
