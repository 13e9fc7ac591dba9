----------------------------- MODULE MCCheckout -----------------------------
(* Values of Checkout's constants for the model checker. *)
EXTENDS Checkout, TLC

CONSTANTS p1, p2, o1, o2, o3, k1, k2, t1, t2, t3, w1, w2

\* One product, a cart of one unit and a cart of two.
OneProductCarts == {[p \in {p1} |-> q] : q \in {1, 2}}
OneProductStock == [p \in {p1} |-> 2]

\* The routes take negative quantities too.
OneEitherWay == {1, -1}

\* Two products, every cart buys one of each: the order of the locks varies.
BothCarts == {[p \in {p1, p2} |-> 1]}
BothStock == [p \in {p1, p2} |-> 2]

\* Handlers, workers, orders and keys are interchangeable.
Symmetric == Permutations(Handlers) \cup Permutations(Workers)
             \cup Permutations(Orders) \cup Permutations(Keys)
=============================================================================
