------------------------------ MODULE OrderBook ------------------------------
(* What the shop promises about an order and its units: it is placed, paid  *)
(* or cancelled in one step, together with the stock that belongs to it,    *)
(* and its items never change again.                                        *)
EXTENDS Integers

CONSTANTS Products, Orders, MaxQty, InitialStock

VARIABLES
  stock, reserved,     \* units in the warehouse, and those promised of them
  orderStatus, items

vars == <<stock, reserved, orderStatus, items>>

NoUnits == [p \in Products |-> 0]

Init ==
  /\ stock = InitialStock /\ reserved = NoUnits
  /\ orderStatus = [o \in Orders |-> "NONE"]
  /\ items = [o \in Orders |-> NoUnits]

\* Only units that are in stock and promised to nobody else are promised.
Place(o) ==
  \E units \in [Products -> 0..MaxQty] :
    /\ orderStatus[o] = "NONE"
    /\ \A p \in Products : units[p] > 0 => reserved[p] + units[p] <= stock[p]
    /\ orderStatus' = [orderStatus EXCEPT ![o] = "PENDING"]
    /\ items' = [items EXCEPT ![o] = units]
    /\ reserved' = [p \in Products |-> reserved[p] + units[p]]
    /\ UNCHANGED stock

\* The order's units leave what is promised, and with the payment the stock.
Settle(o, verdict) ==
  /\ orderStatus[o] = "PENDING"
  /\ \A p \in Products :
       /\ reserved[p] >= items[o][p]
       /\ verdict = "PAID" => stock[p] >= items[o][p]
  /\ orderStatus' = [orderStatus EXCEPT ![o] = verdict]
  /\ reserved' = [p \in Products |-> reserved[p] - items[o][p]]
  /\ stock' = IF verdict = "PAID" THEN [p \in Products |-> stock[p] - items[o][p]]
                                  ELSE stock
  /\ UNCHANGED items

\* An administrator counts one product anew, maybe below what is promised of it.
ByHand(p) ==
  /\ stock'[p] \in Nat /\ reserved'[p] \in Nat
  /\ stock' = [stock EXCEPT ![p] = stock'[p]]
  /\ reserved' = [reserved EXCEPT ![p] = reserved'[p]]
  /\ UNCHANGED <<orderStatus, items>>

Next ==
  \/ \E o \in Orders : Place(o) \/ Settle(o, "PAID") \/ Settle(o, "CANCELLED")
  \/ \E p \in Products : ByHand(p)

Spec == Init /\ [][Next]_vars
=============================================================================
