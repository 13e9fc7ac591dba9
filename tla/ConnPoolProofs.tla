--------------------------- MODULE ConnPoolProofs ---------------------------
(* Safety of ConnPool for any number of requests and payments and any size  *)
(* of the pool.                                                             *)
EXTENDS ConnPool, FiniteSetTheorems, TLAPS

Reqs == [phase : Phases, kind : Kinds \cup {None}, payment : Payments \cup {None}]

Open    == At({"lock", "items", "reading", "commit"})
Reading == At({"reading"})

\* The connection of the worker.
Sweeping == IF SweepOpen THEN 1 ELSE 0

-----------------------------------------------------------------------------
(* Counting connections *)

LEMMA Finite ==
  ASSUME NEW S \in SUBSET Requests
  PROVE  IsFiniteSet(S) /\ Cardinality(S) \in Nat
<1>1. IsFiniteSet(S)
  BY ConnPoolAssumption, FS_Subset
<1>2. QED
  BY <1>1, FS_CardinalityType

LEMMA AtTypes ==
  /\ Open \in SUBSET Requests /\ Reading \in SUBSET Requests
  /\ Open' \in SUBSET Requests /\ Reading' \in SUBSET Requests
BY DEF Open, Reading, At

LEMMA UsedIs ==
  /\ Used = Cardinality(Open) + Cardinality(Reading) + Sweeping
  /\ Used' = Cardinality(Open') + Cardinality(Reading') + Sweeping'
  /\ Sweeping \in {0, 1} /\ Sweeping' \in {0, 1}
  /\ Cardinality(Open) \in Nat /\ Cardinality(Reading) \in Nat
  /\ Cardinality(Open') \in Nat /\ Cardinality(Reading') \in Nat
BY AtTypes, Finite DEF Used, Open, Reading, Sweeping

\* One more request in a set of them needs one connection more at most.
LEMMA OneMore ==
  ASSUME NEW S \in SUBSET Requests, NEW T \in SUBSET Requests, NEW r, T \subseteq S \cup {r}
  PROVE  Cardinality(T) <= Cardinality(S) + 1
<1>1. IsFiniteSet(S) /\ Cardinality(S) \in Nat /\ Cardinality(T) \in Nat
  BY Finite
<1>2. /\ IsFiniteSet(S \cup {r})
      /\ Cardinality(S \cup {r}) = IF r \in S THEN Cardinality(S) ELSE Cardinality(S) + 1
  BY <1>1, FS_AddElement
<1>3. Cardinality(T) <= Cardinality(S \cup {r})
  BY <1>2, FS_Subset
<1>4. QED
  BY <1>1, <1>2, <1>3

LEMMA NoMore ==
  ASSUME NEW S \in SUBSET Requests, NEW T \in SUBSET S
  PROVE  Cardinality(T) <= Cardinality(S)
<1>1. IsFiniteSet(S)
  BY Finite
<1>2. QED
  BY <1>1, FS_Subset

\* No connection more is taken than there is.
LEMMA UsedStep ==
  ASSUME IInv, sweep' = sweep,
         \/ Open' \subseteq Open /\ Reading' \subseteq Reading
         \/ /\ Free > 0
            /\ \E r : \/ Open' \subseteq Open \cup {r} /\ Reading' \subseteq Reading
                      \/ Open' \subseteq Open /\ Reading' \subseteq Reading \cup {r}
  PROVE  Used' <= Size
<1>1. Used <= Size /\ Size \in Nat /\ Used \in Nat
  BY ConnPoolAssumption, UsedIs DEF IInv, TypeOK
<1>2. Sweeping' = Sweeping /\ (Free > 0 => Used + 1 <= Size)
  BY <1>1 DEF Free, Sweeping, SweepOpen
<1>3. CASE Open' \subseteq Open /\ Reading' \subseteq Reading
  BY <1>1, <1>2, <1>3, UsedIs, AtTypes, NoMore
<1>4. ASSUME Free > 0, NEW r, Open' \subseteq Open \cup {r}, Reading' \subseteq Reading
      PROVE  Used' <= Size
  <2>1. Cardinality(Open') <= Cardinality(Open) + 1 /\ Cardinality(Reading') <= Cardinality(Reading)
    BY <1>4, AtTypes, OneMore, NoMore
  <2>2. QED
    BY <1>1, <1>2, <1>4, <2>1, UsedIs
<1>5. ASSUME Free > 0, NEW r, Open' \subseteq Open, Reading' \subseteq Reading \cup {r}
      PROVE  Used' <= Size
  <2>1. Cardinality(Open') <= Cardinality(Open) /\ Cardinality(Reading') <= Cardinality(Reading) + 1
    BY <1>5, AtTypes, OneMore, NoMore
  <2>2. QED
    BY <1>1, <1>2, <1>5, <2>1, UsedIs
<1>6. QED
  BY <1>3, <1>4, <1>5

-----------------------------------------------------------------------------
(* Steps *)

\* One request goes on.
LEMMA ReqStep ==
  ASSUME TypeOK, NEW r \in Requests, NEW j \in Reqs, req' = [req EXCEPT ![r] = j]
  PROVE  /\ req \in [Requests -> Reqs] /\ req' \in [Requests -> Reqs] /\ req'[r] = j
         /\ \A x \in Requests \ {r} : req'[x] = req[x]
         /\ Open' \subseteq Open \cup {r} /\ Reading' \subseteq Reading \cup {r}
         /\ \A o : Holders(o)' \subseteq Holders(o) \cup {r}
         /\ \A o : Holders(o)' \ {r} = Holders(o) \ {r}
         /\ \A o : r \in Holders(o)' <=> j.phase \in {"items", "reading", "commit"} /\ j.payment = o
         /\ j.phase \notin {"lock", "items", "reading", "commit"} => Open' = Open \ {r}
         /\ j.phase # "reading" => Reading' = Reading \ {r}
<1>1. /\ req \in [Requests -> Reqs] /\ req' \in [Requests -> Reqs] /\ req'[r] = j
      /\ \A x \in Requests \ {r} : req'[x] = req[x]
  BY DEF TypeOK, Reqs
<1>2. QED
  BY <1>1 DEF Open, Reading, At, Holders

LEMMA IdleReq == Idle \in Reqs /\ Idle.phase = "idle" /\ Idle.kind # "create"
BY ConnPoolAssumption DEF Idle, Reqs, Phases, Kinds

\* What KindsOK says of a request.
Kind(j) ==
  /\ j.kind = "create" <=> j.payment = None /\ j.phase # "idle"
  /\ j.kind = "create" => j.phase \in {"begin", "commit"}
  /\ j.phase \in {"items", "reading"} => j.kind = "confirm"

\* A request goes on within the connections there are, and holds no row but the one it held.
LEMMA HoldsNoMore ==
  ASSUME IInv, NEW r \in Requests, NEW j \in Reqs, Kind(j), req' = [req EXCEPT ![r] = j],
         settled' = settled, sweep' = sweep, Used' <= Size,
         j.phase \in {"items", "reading", "commit"} /\ j.payment # None =>
           j.payment = req[r].payment /\ req[r].phase \in {"items", "reading", "commit"}
  PROVE  IInv'
<1>1. /\ req \in [Requests -> Reqs] /\ req' \in [Requests -> Reqs] /\ req'[r] = j
      /\ \A x \in Requests \ {r} : req'[x] = req[x]
  BY ReqStep DEF IInv
<1>2. \A o \in Payments : Holders(o)' \subseteq Holders(o)
  BY <1>1, ConnPoolAssumption DEF Holders, At
<1>3. TypeOK'
  BY <1>1 DEF IInv, TypeOK, Reqs
<1>4. KindsOK'
  BY <1>1 DEF IInv, KindsOK, Kind
<1>5. RowsOK' /\ SweepOK'
  BY <1>2 DEF IInv, RowsOK, SweepOK, SweepOpen
<1>6. QED
  BY <1>3, <1>4, <1>5 DEF IInv

LEMMA Ends ==
  ASSUME IInv, NEW r \in Requests, End(r), settled' = settled, sweep' = sweep
  PROVE  IInv'
<1>1. Kind(Idle)
  BY IdleReq DEF Kind
<1>2. Open' \subseteq Open /\ Reading' \subseteq Reading
  <2>1. Open' = Open \ {r} /\ Reading' = Reading \ {r}
    <3>1. TypeOK /\ req' = [req EXCEPT ![r] = Idle]
      BY DEF IInv, End
    <3>2. /\ Idle.phase \notin {"lock", "items", "reading", "commit"} => Open' = Open \ {r}
          /\ Idle.phase # "reading" => Reading' = Reading \ {r}
      BY <3>1, IdleReq, ReqStep
    <3>3. QED
      BY <3>2, IdleReq
  <2>2. QED
    BY <2>1
<1>3. QED
  BY <1>1, <1>2, UsedStep, IdleReq, HoldsNoMore DEF End

LEMMA ArriveStep ==
  ASSUME IInv, NEW r \in Requests, NEW kind \in Kinds, NEW o \in Payments \cup {None},
         Arrive(r, kind, o)
  PROVE  IInv'
<1> DEFINE j == [phase |-> "begin", kind |-> kind, payment |-> o]
<1>1. j \in Reqs /\ Kind(j) /\ j.phase = "begin"
  BY DEF Arrive, Reqs, Phases, Kind
<1>2. req' = [req EXCEPT ![r] = j] /\ settled' = settled /\ sweep' = sweep /\ TypeOK
  BY DEF Arrive, IInv
<1> HIDE DEF j
<1>3. Open' = Open \ {r} /\ Reading' = Reading \ {r}
  BY <1>1, <1>2, ReqStep
<1>4. QED
  BY <1>1, <1>2, <1>3, UsedStep, HoldsNoMore

\* Only ListOrderItems takes a second connection.
LEMMA NotReading ==
  ASSUME IInv, NEW r \in Requests, NEW j \in Reqs, j.phase # "reading",
         req' = [req EXCEPT ![r] = j]
  PROVE  /\ Open' \subseteq Open \cup {r} /\ Reading' \subseteq Reading
         /\ Reading' = Reading \ {r}
<1>1. TypeOK
  BY DEF IInv
<1>2. Open' \subseteq Open \cup {r} /\ (j.phase # "reading" => Reading' = Reading \ {r})
  BY <1>1, ReqStep
<1>3. Reading' = Reading \ {r}
  BY <1>2
<1>4. QED
  BY <1>2, <1>3

\* A request that goes on to phase f.
LEMMA Becoming ==
  ASSUME IInv, NEW r \in Requests, NEW f \in Phases, Become(r, f)
  PROVE  LET j == [req[r] EXCEPT !.phase = f] IN
         /\ req[r] \in Reqs /\ j \in Reqs /\ req' = [req EXCEPT ![r] = j]
         /\ j.phase = f /\ j.kind = req[r].kind /\ j.payment = req[r].payment
BY DEF IInv, TypeOK, Reqs, Become

LEMMA BeginStep ==
  ASSUME IInv, NEW r \in Requests, Begin(r)
  PROVE  IInv'
<1> DEFINE f == IF req[r].kind = "create" THEN "commit" ELSE "lock"
           j == [req[r] EXCEPT !.phase = f]
<1>1. /\ f \in Phases /\ Become(r, f) /\ req[r].phase = "begin" /\ Free > 0
      /\ settled' = settled /\ sweep' = sweep
  BY DEF Begin, Phases
<1>2. /\ j \in Reqs /\ req' = [req EXCEPT ![r] = j]
      /\ j.phase = f /\ j.kind = req[r].kind /\ j.payment = req[r].payment
  BY <1>1, Becoming
<1>3. j.kind = "create" <=> j.payment = None
  BY <1>1, <1>2 DEF IInv, KindsOK
<1>4. Kind(j) /\ (j.phase = "commit" => j.payment = None) /\ j.phase \in {"commit", "lock"}
  BY <1>1, <1>2, <1>3 DEF Kind
<1> HIDE DEF j
<1>5. Open' \subseteq Open \cup {r} /\ Reading' \subseteq Reading
  BY <1>2, <1>4, NotReading
<1>6. Used' <= Size
  BY <1>1, <1>5, UsedStep
<1>7. QED
  BY <1>1, <1>2, <1>4, <1>6, HoldsNoMore

LEMMA LockPaymentStep ==
  ASSUME IInv, NEW r \in Requests, LockPayment(r)
  PROVE  IInv'
<1>1. CASE req[r].payment \in settled
  BY <1>1, Ends DEF LockPayment
<1>2. CASE req[r].payment \notin settled
  <2> DEFINE f == IF req[r].kind = "confirm" THEN "items" ELSE "commit"
             j == [req[r] EXCEPT !.phase = f]
  <2>1. /\ f \in Phases /\ Become(r, f) /\ req[r].phase = "lock" /\ settled' = settled
        /\ Holders(req[r].payment) = {} /\ req[r].payment \notin sweep.rows /\ sweep' = sweep
    BY <1>2 DEF LockPayment, Phases, RowFree
  <2>2. /\ j \in Reqs /\ req' = [req EXCEPT ![r] = j]
        /\ j.phase = f /\ j.kind = req[r].kind /\ j.payment = req[r].payment
    BY <2>1, Becoming
  <2>3. j.kind # "create" /\ (j.kind = "create" <=> j.payment = None)
    BY <2>1, <2>2 DEF IInv, KindsOK
  <2>4. Kind(j) /\ j.phase \in {"items", "commit"}
    BY <2>1, <2>2, <2>3 DEF Kind
  <2> HIDE DEF j
  <2>5. /\ req' \in [Requests -> Reqs] /\ req'[r] = j
        /\ \A x \in Requests \ {r} : req'[x] = req[x]
        /\ Open' \subseteq Open \cup {r} /\ Reading' \subseteq Reading
        /\ \A o : Holders(o)' \ {r} = Holders(o) \ {r}
        /\ \A o : r \in Holders(o)' => j.payment = o
    <3>1. TypeOK /\ j.phase # "reading"
      BY <2>4 DEF IInv
    <3>2. Open' \subseteq Open \cup {r} /\ Reading' \subseteq Reading
      BY <2>2, <3>1, NotReading
    <3>3. /\ req' \in [Requests -> Reqs] /\ req'[r] = j
          /\ \A x \in Requests \ {r} : req'[x] = req[x]
      BY <2>2, <3>1, ReqStep
    <3>4. \A o : Holders(o)' \ {r} = Holders(o) \ {r}
      BY <2>2, <3>1, ReqStep
    <3>5. \A o : r \in Holders(o)' => j.payment = o
      BY <3>3 DEF Holders, At
    <3>6. QED
      BY <3>2, <3>3, <3>4, <3>5
  <2>6. r \in Open
    BY <2>1 DEF Open, At
  <2>7. Used' <= Size
    BY <2>1, <2>5, <2>6, UsedStep
  <2>8. TypeOK'
    BY <2>1, <2>5, <2>7 DEF IInv, TypeOK, Reqs
  <2>9. KindsOK'
    BY <2>4, <2>5 DEF IInv, KindsOK, Kind
  <2>10. RowsOK'
    <3>1. SUFFICES ASSUME NEW o \in Payments
                   PROVE  /\ \A x, y \in Holders(o)' : x = y
                          /\ Holders(o)' # {} => o \notin (settled \cup sweep.rows)'
      BY DEF RowsOK
    <3>2. CASE o = j.payment
      <4>1. Holders(o)' \subseteq {r}
        BY <2>1, <2>2, <2>5, <3>2
      <4>2. QED
        BY <1>2, <2>1, <2>2, <3>2, <4>1
    <3>3. CASE o # j.payment
      <4>1. Holders(o)' \subseteq Holders(o)
        BY <2>5, <3>3
      <4>2. QED
        BY <2>1, <4>1 DEF IInv, RowsOK
    <3>4. QED
      BY <3>2, <3>3
  <2>11. SweepOK'
    BY <2>1 DEF IInv, SweepOK, SweepOpen
  <2>12. QED
    BY <2>8, <2>9, <2>10, <2>11 DEF IInv
<1>3. QED
  BY <1>1, <1>2

LEMMA ListOrderItemsStep ==
  ASSUME IInv, NEW r \in Requests, ListOrderItems(r)
  PROVE  IInv'
<1> DEFINE j == [req[r] EXCEPT !.phase = "reading"]
<1>1. /\ Become(r, "reading") /\ req[r].phase = "items" /\ Free > 0
      /\ settled' = settled /\ sweep' = sweep
  BY DEF ListOrderItems
<1>2. /\ j \in Reqs /\ req' = [req EXCEPT ![r] = j]
      /\ j.phase = "reading" /\ j.kind = req[r].kind /\ j.payment = req[r].payment
  BY <1>1, Becoming DEF Phases
<1>3. Kind(j)
  BY <1>1, <1>2 DEF Kind, IInv, KindsOK
<1> HIDE DEF j
<1>4. r \in Open
  BY <1>1 DEF Open, At
<1>5. Open' \subseteq Open /\ Reading' \subseteq Reading \cup {r}
  BY <1>2, <1>4, ReqStep DEF IInv
<1>6. Used' <= Size
  BY <1>1, <1>5, UsedStep
<1>7. QED
  BY <1>1, <1>2, <1>3, <1>6, HoldsNoMore

LEMMA ItemsReadStep ==
  ASSUME IInv, NEW r \in Requests, ItemsRead(r)
  PROVE  IInv'
<1> DEFINE j == [req[r] EXCEPT !.phase = "commit"]
<1>1. /\ Become(r, "commit") /\ req[r].phase = "reading"
      /\ settled' = settled /\ sweep' = sweep
  BY DEF ItemsRead
<1>2. /\ j \in Reqs /\ req' = [req EXCEPT ![r] = j]
      /\ j.phase = "commit" /\ j.kind = req[r].kind /\ j.payment = req[r].payment
  BY <1>1, Becoming DEF Phases
<1>3. Kind(j)
  BY <1>1, <1>2 DEF Kind, IInv, KindsOK
<1> HIDE DEF j
<1>4. r \in Open
  BY <1>1 DEF Open, At
<1>5. Open' \subseteq Open /\ Reading' \subseteq Reading
  BY <1>2, <1>4, ReqStep DEF IInv
<1>6. Used' <= Size
  BY <1>1, <1>5, UsedStep
<1>7. QED
  BY <1>1, <1>2, <1>3, <1>6, HoldsNoMore

\* What is settled was held by the request, and by no other.
LEMMA CommitStep ==
  ASSUME IInv, NEW r \in Requests, Commit(r)
  PROVE  IInv'
<1>1. /\ req[r].phase = "commit" /\ req' = [req EXCEPT ![r] = Idle]
      /\ settled' = settled \cup ({req[r].payment} \ {None})
      /\ sweep' = sweep /\ req[r] \in Reqs
  BY DEF Commit, End, IInv, TypeOK, Reqs
<1>2. /\ req' \in [Requests -> Reqs] /\ req'[r] = Idle
      /\ \A x \in Requests \ {r} : req'[x] = req[x]
      /\ Open' = Open \ {r} /\ Reading' = Reading \ {r}
      /\ \A o : Holders(o)' = Holders(o) \ {r}
  <2>1. TypeOK /\ Idle.phase \notin {"lock", "items", "reading", "commit"}
    BY IdleReq DEF IInv
  <2>2. /\ req' \in [Requests -> Reqs] /\ req'[r] = Idle
        /\ \A x \in Requests \ {r} : req'[x] = req[x]
        /\ Open' = Open \ {r} /\ Reading' = Reading \ {r}
    BY <1>1, <2>1, IdleReq, ReqStep
  <2>3. \A o : r \notin Holders(o)' /\ Holders(o)' \ {r} = Holders(o) \ {r}
    BY <1>1, <2>1, IdleReq, ReqStep
  <2>4. QED
    BY <2>2, <2>3
<1>3. Used' <= Size
  BY <1>1, <1>2, UsedStep
<1>4. TypeOK'
  BY <1>1, <1>2, <1>3 DEF IInv, TypeOK, Reqs
<1>5. KindsOK'
  <2>1. Kind(Idle)
    BY IdleReq DEF Kind
  <2>2. QED
    BY <1>2, <2>1 DEF IInv, KindsOK, Kind
<1>6. RowsOK'
  <2>1. SUFFICES ASSUME NEW o \in Payments
                 PROVE  /\ \A x, y \in Holders(o)' : x = y
                        /\ Holders(o)' # {} => o \notin (settled \cup sweep.rows)'
    BY DEF RowsOK
  <2>2. \A x, y \in Holders(o) : x = y
    BY DEF IInv, RowsOK
  <2>3. CASE o = req[r].payment
    <3>1. r \in Holders(o)
      BY <1>1, <2>3 DEF Holders, At
    <3>2. QED
      BY <1>2, <2>2, <3>1
  <2>4. CASE o # req[r].payment
    BY <1>1, <1>2, <2>2, <2>4 DEF IInv, RowsOK
  <2>5. QED
    BY <2>3, <2>4
<1>7. SweepOK'
  BY <1>1 DEF IInv, SweepOK, SweepOpen
<1>8. QED
  BY <1>4, <1>5, <1>6, <1>7 DEF IInv

\* Nobody holds the row a PATCH writes.
LEMMA UpdateStatusStep ==
  ASSUME IInv, NEW r \in Requests, UpdateStatus(r)
  PROVE  IInv'
<1> DEFINE o == req[r].payment
<1>1. /\ req[r].phase = "lock" /\ req' = [req EXCEPT ![r] = Idle] /\ sweep' = sweep
      /\ settled' \in {settled \cup {o}, settled \ {o}}
      /\ Holders(o) = {} /\ req[r] \in Reqs
  BY DEF UpdateStatus, RowFree, End, IInv, TypeOK, Reqs
<1>2. o \in Payments
  BY <1>1 DEF Reqs, IInv, KindsOK, UpdateStatus
<1>3. /\ req' \in [Requests -> Reqs] /\ req'[r] = Idle
      /\ \A x \in Requests \ {r} : req'[x] = req[x]
      /\ Open' = Open \ {r} /\ Reading' = Reading \ {r}
      /\ \A p : Holders(p)' \subseteq Holders(p)
  <2>1. TypeOK /\ Idle.phase \notin {"lock", "items", "reading", "commit"}
    BY IdleReq DEF IInv
  <2>2. /\ req' \in [Requests -> Reqs] /\ req'[r] = Idle
        /\ \A x \in Requests \ {r} : req'[x] = req[x]
        /\ Open' = Open \ {r} /\ Reading' = Reading \ {r}
    BY <1>1, <2>1, IdleReq, ReqStep
  <2>3. \A p : r \notin Holders(p)' /\ Holders(p)' \ {r} = Holders(p) \ {r}
    BY <1>1, <2>1, IdleReq, ReqStep
  <2>4. QED
    BY <2>2, <2>3
<1>4. Used' <= Size
  BY <1>1, <1>3, UsedStep
<1>5. TypeOK'
  BY <1>1, <1>2, <1>3, <1>4 DEF IInv, TypeOK, Reqs
<1>6. KindsOK'
  <2>1. Kind(Idle)
    BY IdleReq DEF Kind
  <2>2. QED
    BY <1>3, <2>1 DEF IInv, KindsOK, Kind
<1>7. RowsOK'
  BY <1>1, <1>3 DEF IInv, RowsOK
<1>8. SweepOK'
  BY <1>1 DEF IInv, SweepOK, SweepOpen
<1>9. QED
  BY <1>5, <1>6, <1>7, <1>8 DEF IInv

\* The worker goes on: it takes a connection when there is one, and no row that
\* a callback holds.
LEMMA WorkerStep ==
  ASSUME IInv, req' = req,
         sweep' \in [phase : {"idle", "begin", "update", "commit"}, want : Payments \cup {None},
                    todo : SUBSET Payments, rows : SUBSET Payments],
         settled' \subseteq Payments, SweepOK', SweepOpen' => SweepOpen \/ Free > 0,
         \A o \in settled' \cup sweep'.rows :
           o \in settled \cup sweep.rows \/ Holders(o) = {}
  PROVE  IInv'
<1>1. Open' = Open /\ Reading' = Reading /\ \A o : Holders(o)' = Holders(o)
  BY DEF Open, Reading, At, Holders
<1>2. Used' <= Size
  <2>1. Used <= Size /\ Size \in Nat /\ Used \in Nat
    BY ConnPoolAssumption, UsedIs DEF IInv, TypeOK
  <2>2. Sweeping' <= Sweeping \/ Used + 1 <= Size
    BY <2>1 DEF Sweeping, Free
  <2>3. QED
    BY <1>1, <2>1, <2>2, UsedIs
<1>3. TypeOK'
  BY <1>2 DEF IInv, TypeOK
<1>4. KindsOK'
  BY DEF IInv, KindsOK
<1>5. RowsOK'
  <2>1. SUFFICES ASSUME NEW o \in Payments
                 PROVE  /\ \A x, y \in Holders(o)' : x = y
                        /\ Holders(o)' # {} => o \notin (settled \cup sweep.rows)'
    BY DEF RowsOK
  <2>2. /\ \A x, y \in Holders(o) : x = y
        /\ Holders(o) # {} => o \notin settled \cup sweep.rows
    BY DEF IInv, RowsOK
  <2>3. QED
    BY <1>1, <2>2
<1>6. QED
  BY <1>3, <1>4, <1>5 DEF IInv

LEMMA SweepSteps ==
  ASSUME IInv, Tick \/ SweepWork
  PROVE  IInv'
<1>1. /\ sweep \in [phase : {"idle", "begin", "update", "commit"}, want : Payments \cup {None},
                   todo : SUBSET Payments, rows : SUBSET Payments]
      /\ settled \subseteq Payments /\ None \notin Payments /\ SweepOK
  BY ConnPoolAssumption DEF IInv, TypeOK
<1>2. ASSUME NEW todo \in SUBSET Payments, NEW rows \in SUBSET Payments, Sweep(todo, rows)
      PROVE  /\ sweep' \in [phase : {"idle", "begin", "update", "commit"},
                            want : Payments \cup {None},
                            todo : SUBSET Payments, rows : SUBSET Payments]
             /\ sweep'.rows = rows /\ SweepOpen' /\ SweepOK'
  <2>1. CASE sweep' = [phase |-> "commit", want |-> None, todo |-> {}, rows |-> rows]
    BY <1>2, <2>1 DEF SweepOpen, SweepOK
  <2>2. ASSUME NEW o \in todo,
               sweep' = [phase |-> "update", want |-> o, todo |-> todo \ {o}, rows |-> rows]
        PROVE  /\ sweep' \in [phase : {"idle", "begin", "update", "commit"},
                              want : Payments \cup {None},
                              todo : SUBSET Payments, rows : SUBSET Payments]
               /\ sweep'.rows = rows /\ SweepOpen' /\ SweepOK'
    BY <1>1, <2>2 DEF SweepOpen, SweepOK
  <2>3. QED
    BY <1>2, <2>1, <2>2 DEF Sweep
<1>3. CASE Tick
  <2>1. sweep' = [sweep EXCEPT !.phase = "begin"] /\ sweep.phase = "idle"
        /\ req' = req /\ settled' = settled
    BY <1>3 DEF Tick
  <2>2. SweepOK' /\ ~SweepOpen' /\ sweep'.rows = sweep.rows
    BY <1>1, <2>1 DEF SweepOK, SweepOpen
  <2>3. QED
    BY <1>1, <2>1, <2>2, WorkerStep
<1>4. CASE SweepBegin
  <2>1. PICK overdue \in SUBSET (Payments \ settled) : Sweep(overdue, {})
    BY <1>4 DEF SweepBegin
  <2>2. Free > 0 /\ req' = req /\ settled' = settled
    BY <1>4 DEF SweepBegin
  <2>3. QED
    BY <1>1, <1>2, <2>1, <2>2, WorkerStep
<1>5. CASE SweepRow
  <2>1. /\ sweep.phase = "update" /\ Holders(sweep.want) = {} /\ req' = req /\ settled' = settled
        /\ Sweep(sweep.todo, sweep.rows \cup {sweep.want})
    BY <1>5 DEF SweepRow
  <2>2. sweep.want \in Payments /\ SweepOpen
    BY <1>1, <2>1 DEF SweepOK, SweepOpen
  <2>3. /\ sweep' \in [phase : {"idle", "begin", "update", "commit"}, want : Payments \cup {None},
                       todo : SUBSET Payments, rows : SUBSET Payments]
        /\ sweep'.rows = sweep.rows \cup {sweep.want} /\ SweepOK'
    BY <1>1, <1>2, <2>1, <2>2
  <2>4. QED
    BY <1>1, <2>1, <2>2, <2>3, WorkerStep
<1>6. CASE SweepCommit
  <2>1. sweep' = NoSweep /\ settled' = settled \cup sweep.rows /\ req' = req
    BY <1>6 DEF SweepCommit
  <2>2. SweepOK' /\ ~SweepOpen' /\ sweep'.rows = {}
    BY <2>1 DEF SweepOK, SweepOpen, NoSweep
  <2>3. QED
    BY <1>1, <2>1, <2>2, WorkerStep DEF NoSweep
<1>7. QED
  BY <1>3, <1>4, <1>5, <1>6 DEF SweepWork

-----------------------------------------------------------------------------
(* The theorems *)

LEMMA InitInv == Init => IInv
<1> SUFFICES ASSUME Init PROVE IInv
  OBVIOUS
<1>1. \A r \in Requests : req[r] = Idle
  BY DEF Init
<1>2. Open = {} /\ Reading = {} /\ \A o : Holders(o) = {}
  BY <1>1, IdleReq DEF Open, Reading, At, Holders
<1>3. Used <= Size
  <2>1. Sweeping = 0
    BY DEF Init, NoSweep, Sweeping, SweepOpen
  <2>2. QED
    BY <1>2, <2>1, UsedIs, FS_EmptySet, ConnPoolAssumption
<1>4. TypeOK
  BY <1>3, IdleReq DEF Init, TypeOK, Reqs, NoSweep
<1>5. KindsOK
  BY <1>1, IdleReq DEF KindsOK
<1>6. RowsOK /\ SweepOK
  BY <1>2 DEF RowsOK, SweepOK, Init, NoSweep
<1>7. QED
  BY <1>4, <1>5, <1>6 DEF IInv

LEMMA StutterStep == IInv /\ UNCHANGED vars => IInv'
BY DEF vars, IInv, TypeOK, KindsOK, RowsOK, SweepOK, SweepOpen, Used, At, Holders

LEMMA NextStep == IInv /\ Next => IInv'
<1> SUFFICES ASSUME IInv, NEW r \in Requests,
                    \/ \E kind \in Kinds, o \in Payments \cup {None} : Arrive(r, kind, o)
                    \/ Work(r) \/ Timeout(r) \/ HangUp(r)
             PROVE  IInv'
  BY SweepSteps DEF Next
<1>1. Timeout(r) \/ HangUp(r) => IInv'
  BY Ends DEF Timeout, HangUp
<1>2. QED
  BY <1>1, ArriveStep, BeginStep, LockPaymentStep, UpdateStatusStep, ListOrderItemsStep,
     ItemsReadStep, CommitStep
  DEF Work

\* The pool never hands out more connections than it has, and the row of a payment
\* is held by one callback at a time, which finds it pending.
THEOREM PoolInvariant == Spec => []IInv
<1>1. IInv /\ [Next]_vars => IInv'
  BY NextStep, StutterStep
<1>2. QED
  BY InitInv, <1>1, PTL DEF Spec

\* Requests and the worker block each other for good in one way only: SUCCESS
\* callbacks that wait for second connections, and those that wait for their rows,
\* hold all connections.
THEOREM OnlyExhaustionBlocks == Spec => []StuckMeansExhausted
<1>1. IInv => StuckMeansExhausted
  <2> DEFINE Busy == {r \in Requests : req[r].phase # "idle"}
  <2> SUFFICES ASSUME IInv, Busy # {} \/ sweep.phase # "idle",
                      \A r \in Busy : Waits(r), sweep.phase # "idle" => SweepWaits
               PROVE  Exhausted
    BY DEF StuckMeansExhausted
  <2>1. ASSUME NEW o \in Payments, Holders(o) # {}
        PROVE  o \in Stuck /\ Free <= 0
    <3>1. PICK h \in Holders(o) : TRUE
      BY <2>1
    <3>2. h \in Busy /\ h \in Requests /\ req[h].phase \in {"items", "reading", "commit"}
      BY DEF Holders, At
    <3>3. req[h].phase = "items" /\ Free <= 0
      BY <3>2 DEF Waits
    <3>4. QED
      BY <3>2, <3>3 DEF At, Stuck
  <2>2. sweep.phase = "update" => SweepStuck /\ Free <= 0
    <3>1. sweep.phase = "update" => sweep.want \in Payments /\ Holders(sweep.want) # {}
      BY DEF IInv, TypeOK, SweepOK, SweepWaits
    <3>2. QED
      BY <2>1, <3>1 DEF SweepStuck
  <2>3. SweepOpen => SweepStuck /\ Free <= 0
    BY <2>2 DEF SweepOpen, SweepWaits
  <2>4. ASSUME NEW r \in Requests, req[r].phase = "lock"
        PROVE  req[r].payment \in Stuck \cup sweep.rows /\ Free <= 0
    <3>1. req[r].payment \in Payments
      BY <2>4 DEF IInv, TypeOK, KindsOK
    <3>2. Holders(req[r].payment) # {} \/ req[r].payment \in sweep.rows
      BY <2>4 DEF Waits, RowFree
    <3>3. req[r].payment \in sweep.rows => SweepOpen
      BY DEF IInv, SweepOK
    <3>4. QED
      BY <2>1, <2>3, <3>1, <3>2, <3>3
  <2>5. Free <= 0
    <3>1. ASSUME NEW b \in Busy
          PROVE  Free <= 0
      <4>1. CASE req[b].phase # "lock"
        BY <4>1 DEF Waits
      <4>2. CASE req[b].phase = "lock"
        BY <2>4, <4>2
      <4>3. QED
        BY <4>1, <4>2
    <3>2. sweep.phase # "idle" => Free <= 0
      BY <2>2 DEF SweepWaits
    <3>3. QED
      BY <3>1, <3>2
  <2>6. ASSUME NEW r \in At({"lock", "items", "reading", "commit"})
        PROVE  req[r].phase = "items" \/ req[r].phase = "lock"
    BY DEF At, Waits
  <2>7. QED
    BY <2>3, <2>4, <2>5, <2>6 DEF Exhausted, At
<1>2. QED
  BY PoolInvariant, <1>1, PTL

-----------------------------------------------------------------------------
(* What resolves an exhausted pool *)

\* Only the request r goes on, and the connections that are free do not change.
LEMMA StaysExhausted ==
  ASSUME IInv, Exhausted, NEW r \in Requests, NEW j \in Reqs,
         req' = [req EXCEPT ![r] = j], sweep' = sweep,
         req[r].phase \in {"idle", "begin"}, j.phase \in {"idle", "begin"}
  PROVE  Exhausted'
<1>1. /\ req \in [Requests -> Reqs] /\ req' \in [Requests -> Reqs] /\ req'[r] = j
      /\ \A x \in Requests \ {r} : req'[x] = req[x]
  BY ReqStep DEF IInv
<1>2. \A S \in SUBSET {"lock", "items", "reading", "commit"} : At(S)' = At(S)
  BY <1>1 DEF At
<1>3. At({"lock", "items", "reading", "commit"})' = At({"lock", "items", "reading", "commit"})
      /\ At({"reading"})' = At({"reading"}) /\ At({"items"})' = At({"items"})
  BY <1>2
<1>4. Free' = Free /\ SweepOpen' = SweepOpen
  BY <1>3 DEF Free, Used, SweepOpen
<1>5. \A o : Holders(o)' = Holders(o)
  BY <1>1 DEF Holders, At
<1>6. Stuck' = Stuck /\ SweepStuck' = SweepStuck
  BY <1>3, <1>5 DEF Stuck, SweepStuck
<1>7. \A x \in At({"lock", "items", "reading", "commit"}) : req'[x] = req[x]
  BY <1>1 DEF At
<1>8. QED
  BY <1>3, <1>4, <1>6, <1>7 DEF Exhausted

\* The worker's turn comes, and it waits for a connection as well.
LEMMA TickStaysExhausted ==
  ASSUME IInv, Exhausted, Tick
  PROVE  Exhausted'
<1>1. /\ req' = req /\ sweep'.phase = "begin" /\ sweep.phase = "idle"
      /\ sweep'.rows = sweep.rows
  BY DEF Tick, IInv, TypeOK
<1>2. /\ ~SweepOpen /\ ~SweepOpen'
      /\ \A S : At(S)' = At(S)
      /\ \A o : Holders(o)' = Holders(o)
  BY <1>1 DEF SweepOpen, At, Holders
<1>3. Free' = Free /\ Stuck' = Stuck
  BY <1>2 DEF Free, Used, Stuck
<1>4. QED
  BY <1>1, <1>2, <1>3 DEF Exhausted

\* When every connection waits no request goes on, nor the worker, and a checkout
\* waits for one.
LEMMA NobodyWorks ==
  ASSUME IInv, Exhausted
  PROVE  /\ ~SweepWork
         /\ \A r \in Requests : ~Work(r) /\ (req[r].kind = "create" => req[r].phase = "begin")
<1>1. ~(Free > 0)
  <2>1. Used \in Nat /\ Size \in Nat
    BY UsedIs, ConnPoolAssumption
  <2>2. QED
    BY <2>1 DEF Exhausted, Free
<1>2. ~SweepWork
  <2>1. ~SweepBegin
    BY <1>1 DEF SweepBegin
  <2>2. ~SweepRow
    BY DEF SweepRow, Exhausted, SweepOpen, SweepStuck, Stuck
  <2>3. ~SweepCommit
    BY DEF SweepCommit, Exhausted, SweepOpen, SweepStuck
  <2>4. QED
    BY <2>1, <2>2, <2>3 DEF SweepWork
<1>3. ASSUME NEW r \in Requests
      PROVE  ~Work(r) /\ (req[r].kind = "create" => req[r].phase = "begin")
  <2>1. ~Begin(r) /\ ~ListOrderItems(r)
    BY <1>1 DEF Begin, ListOrderItems
  <2>2. req[r].phase \notin {"reading", "commit"}
    BY DEF Exhausted, At
  <2>3. ~ItemsRead(r) /\ ~Commit(r)
    BY <2>2 DEF ItemsRead, Commit
  <2>4. ~LockPayment(r) /\ ~UpdateStatus(r)
    BY DEF Exhausted, LockPayment, UpdateStatus, RowFree, Stuck, At
  <2>5. QED
    BY <2>1, <2>2, <2>3, <2>4 DEF Work, IInv, KindsOK
<1>4. QED
  BY <1>2, <1>3

\* An exhausted pool stays so until one of the callbacks that wait is given up by
\* its caller: no step of the process, and no timeout, frees a connection.
THEOREM HangUpIsTheOnlyWayOut == Spec => OnlyHangUpHelps
<1>1. ASSUME IInv, [Next]_vars, Exhausted, ~Exhausted'
      PROVE  \E r \in At({"lock", "items"}) : HangUp(r)
  <2>1. CASE UNCHANGED vars
    BY <1>1, <2>1
    DEF vars, Exhausted, Free, Used, SweepOpen, SweepStuck, Stuck, At, Holders
  <2>2. ASSUME NEW r \in Requests, NEW kind \in Kinds, NEW o \in Payments \cup {None},
               Arrive(r, kind, o)
        PROVE  FALSE
    <3>1. [phase |-> "begin", kind |-> kind, payment |-> o] \in Reqs
      BY DEF Reqs, Phases
    <3>2. QED
      BY <1>1, <2>2, <3>1, StaysExhausted DEF Arrive
  <2>3. ASSUME NEW r \in Requests, Timeout(r) \/ HangUp(r), req[r].phase \in {"idle", "begin"}
        PROVE  FALSE
    BY <1>1, <2>3, IdleReq, StaysExhausted DEF Timeout, HangUp, End
  <2>4. ASSUME NEW r \in Requests, Timeout(r)
        PROVE  FALSE
    BY <1>1, <2>3, <2>4, NobodyWorks DEF Timeout
  <2>5. ASSUME NEW r \in Requests, HangUp(r)
        PROVE  r \in At({"lock", "items"})
    <3>1. req[r].phase \in Phases
      BY <1>1 DEF IInv, TypeOK
    <3>2. QED
      BY <1>1, <2>3, <2>5, <3>1 DEF Exhausted, At, Phases
  <2>6. QED
    BY <1>1, <2>1, <2>2, <2>4, <2>5, NobodyWorks, TickStaysExhausted DEF Next
<1>2. IInv /\ [Next]_vars =>
        [Exhausted /\ ~Exhausted' => \E r \in At({"lock", "items"}) : HangUp(r)]_vars
  BY <1>1
<1>3. QED
  BY PoolInvariant, <1>2, PTL DEF Spec, OnlyHangUpHelps
=============================================================================
