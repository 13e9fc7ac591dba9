-------------------------------- MODULE Cart --------------------------------
(***************************************************************************)
(* The cart of one user: a single Redis document that every request reads, *)
(* changes in memory and writes back without WATCH, that an order reads    *)
(* before its transaction and deletes after it, and that expires.          *)
(***************************************************************************)
EXTENDS Integers, FiniteSets

CONSTANTS
  Products,
  Requests,    \* requests of the user that may be in progress at a time
  AddQtys,     \* quantities of POST /cart
  NewQtys,     \* quantities of PATCH /cart
  Half,        \* 2^(w-1), for quantities of w bits
  None

ASSUME CartAssumption ==
  /\ Half \in Nat \ {0} /\ None \notin Int /\ IsFiniteSet(Requests)
  /\ AddQtys \cup NewQtys \subseteq (-Half)..(Half - 1)

\* Two's complement numbers.
Quantities == (-Half)..(Half - 1)

\* mutant: a quantity has no sign.
WrapUnsigned(n) == n % (2 * Half)

Wrap(n) == ((n + Half) % (2 * Half)) - Half

Carts  == [Products -> Quantities \cup {None}]
Empty  == [p \in Products |-> None]
Kinds  == {"add", "remove", "update", "order"}
Phases == {"idle", "write", "commit", "clear"}
Causes == {"stale", "unconfirmed", "leftover"}

VARIABLES
  cart,      \* the document, Empty when there is none
  req,       \* each request in progress: what it asks, and the cart it read
  owed,      \* history: the quantities the customer should find in the cart
  causes,    \* history: what may have put owed and cart apart
  wrapped    \* history: products whose quantity ran over

vars == <<cart, req, owed, causes, wrapped>>

Idle == [phase |-> "idle", kind |-> None, product |-> None, qty |-> None, seen |-> Empty]

TypeOK ==
  /\ cart \in Carts
  /\ req \in [Requests -> [phase : Phases, kind : Kinds \cup {None},
                           product : Products \cup {None},
                           qty : AddQtys \cup NewQtys \cup {None}, seen : Carts]]
  /\ owed \in [Products -> Int]
  /\ causes \subseteq Causes /\ wrapped \subseteq Products

Init ==
  /\ cart = Empty
  /\ req = [r \in Requests |-> Idle]
  /\ owed = [p \in Products |-> 0]
  /\ causes = {} /\ wrapped = {}

-----------------------------------------------------------------------------
(* The cart in memory *)

Has(c, p)   == c[p] # None
Count(c, p) == IF Has(c, p) THEN c[p] ELSE 0

\* An item that is there gets the new quantity on top of its own.
AddItem(c, p, q) == [c EXCEPT ![p] = IF Has(c, p) THEN Wrap(c[p] + q) ELSE q]

RemoveItem(c, p) == [c EXCEPT ![p] = None]

\* mutant: zero and less are written like any other quantity.
UpdateQuantityUnchecked(c, p, q) == [c EXCEPT ![p] = q]

UpdateQuantity(c, p, q) == [c EXCEPT ![p] = IF q <= 0 THEN None ELSE q]

\* What request j makes of the cart it read.
Changed(j) ==
  CASE j.kind = "add"    -> AddItem(j.seen, j.product, j.qty)
    [] j.kind = "remove" -> RemoveItem(j.seen, j.product)
    [] j.kind = "update" -> UpdateQuantity(j.seen, j.product, j.qty)

-----------------------------------------------------------------------------
(* Requests *)

\* The ledger is kept until something may have put it and the cart apart.
Owe(diff) ==
  owed' = [p \in Products |->
            IF causes' = {} /\ p \notin wrapped' THEN owed[p] + diff[p] ELSE 0]

\* Get: an absent document is a new cart to AddItem and an error to the others.
Read(r, kind, p, q) ==
  /\ req[r].phase = "idle"
  /\ req' = [req EXCEPT ![r] = [phase |-> IF kind = "order" THEN "commit" ELSE "write",
                                kind |-> kind, product |-> p, qty |-> q, seen |-> cart]]
  /\ UNCHANGED <<cart, owed, causes, wrapped>>

ReadToAdd(r, p, q)    == q > 0 /\ Read(r, "add", p, q)
ReadToRemove(r, p)    == Has(cart, p) /\ Read(r, "remove", p, None)
ReadToUpdate(r, p, q) == Has(cart, p) /\ Read(r, "update", p, q)
ReadToOrder(r)        == cart # Empty /\ Read(r, "order", None, None)

End(r) == req' = [req EXCEPT ![r] = Idle]

\* The cart changed since r read it: writing it back undoes that.
Stale(r) == IF cart = req[r].seen THEN {} ELSE {"stale"}

\* How much more of product p the customer has asked for with request j.
Asked(j, p) ==
  IF p # j.product THEN 0
  ELSE CASE j.kind = "add"    -> j.qty
         [] j.kind = "remove" -> -Count(j.seen, p)
         [] j.kind = "update" -> (IF j.qty > 0 THEN j.qty ELSE 0) - Count(j.seen, p)

RunsOver(j) == j.kind = "add" /\ Count(j.seen, j.product) + j.qty \notin Quantities

\* Save: the whole document is written; an error may come back although it was.
Write(r, answered) ==
  LET j == req[r] IN
  /\ j.phase = "write"
  /\ cart' = Changed(j)
  /\ causes' = causes \cup Stale(r) \cup (IF answered THEN {} ELSE {"unconfirmed"})
  /\ wrapped' = IF RunsOver(j) THEN wrapped \cup {j.product} ELSE wrapped
  /\ Owe([p \in Products |-> Asked(j, p)])
  /\ End(r)

\* DELETE /cart does not read the cart.
DeleteCart ==
  /\ cart' = Empty
  /\ UNCHANGED <<req, causes, wrapped>>
  /\ Owe([p \in Products |-> -Count(cart, p)])

\* The transaction of CreateOrder commits an order for the cart as it was read,
\* if every quantity passes the check of order_items.
CommitOrder(r) ==
  LET j == req[r] IN
  /\ j.phase = "commit"
  /\ \A p \in Products : Has(j.seen, p) => j.seen[p] > 0
  /\ req' = [req EXCEPT ![r].phase = "clear"]
  /\ UNCHANGED <<cart, causes, wrapped>>
  /\ Owe([p \in Products |-> -Count(j.seen, p)])

\* mutant: the cart stays when its order is placed.
KeepCart(r) ==
  /\ req[r].phase = "clear"
  /\ UNCHANGED <<cart, owed, causes, wrapped>>
  /\ End(r)

\* ... and deletes whatever the cart is by then.
ClearCart(r) ==
  /\ req[r].phase = "clear"
  /\ cart' = Empty
  /\ causes' = causes \cup Stale(r)
  /\ UNCHANGED wrapped
  /\ Owe([p \in Products |-> 0])
  /\ End(r)

\* The cart is not deleted: the request answers with an error, the order stands.
ClearFails(r) ==
  /\ req[r].phase = "clear"
  /\ causes' = causes \cup {"leftover"}
  /\ UNCHANGED <<cart, wrapped>>
  /\ Owe([p \in Products |-> 0])
  /\ End(r)

\* Redis, the price look-up or the transaction fails, or the context ends.
Fail(r) ==
  /\ req[r].phase \in {"write", "commit"}
  /\ End(r)
  /\ UNCHANGED <<cart, owed, causes, wrapped>>

\* 24 hours after the last write.
Expire ==
  /\ cart # Empty
  /\ cart' = Empty
  /\ UNCHANGED <<req, causes, wrapped>>
  /\ Owe([p \in Products |-> -Count(cart, p)])

-----------------------------------------------------------------------------
Step(r) ==
  \/ \E p \in Products :
       \/ \E q \in AddQtys : ReadToAdd(r, p, q)
       \/ ReadToRemove(r, p)
       \/ \E q \in NewQtys : ReadToUpdate(r, p, q)
  \/ ReadToOrder(r)
  \/ \E answered \in BOOLEAN : Write(r, answered)
  \/ CommitOrder(r) \/ ClearCart(r) \/ ClearFails(r) \/ Fail(r)

Next == (\E r \in Requests : Step(r)) \/ DeleteCart \/ Expire

Spec == Init /\ [][Next]_vars

-----------------------------------------------------------------------------
(* Safety *)

\* What customers put in the cart is there until they take it out or order it, and
\* what is ordered is not there any more: no quantity is lost, comes back or is
\* ordered twice, unless a request wrote back or deleted a cart that had changed
\* since it read it, a write was made and not confirmed, or the cart of an order
\* was left over.
CartLedger ==
  causes = {} /\ (\A r \in Requests : req[r].phase # "clear") =>
    \A p \in Products \ wrapped : Count(cart, p) = owed[p]

\* Quantities in the cart are positive (docs/cart.md), but for one that ran over:
\* AddItem adds without a look at the sum.
QuantitiesPositive ==
  \A p \in Products : Has(cart, p) => cart[p] > 0 \/ p \in wrapped

(* The inductive invariant *)

\* What a request was asked is what its route lets through, and an order is placed
\* of positive quantities only.
RequestsOK ==
  \A r \in Requests : LET j == req[r] IN
    /\ j.phase = "write" =>
         /\ j.kind \in {"add", "remove", "update"} /\ j.product \in Products
         /\ j.kind = "add" => j.qty \in AddQtys /\ j.qty > 0
         /\ j.kind = "update" => j.qty \in NewQtys
    /\ \A p \in Products : Has(j.seen, p) =>
         j.seen[p] > 0 \/ (p \in wrapped /\ j.phase # "clear")

\* The units of p in orders that are placed and whose cart is not deleted yet.
Placed(p) == {u \in Requests \X (1..Half) :
                req[u[1]].phase = "clear" /\ u[2] <= Count(req[u[1]].seen, p)}

\* What is in the cart is owed, or in an order that is about to delete it.
Ledger ==
  causes = {} =>
    \A p \in Products \ wrapped : owed[p] = Count(cart, p) - Cardinality(Placed(p))

IInv == TypeOK /\ RequestsOK /\ QuantitiesPositive /\ Ledger
=============================================================================
