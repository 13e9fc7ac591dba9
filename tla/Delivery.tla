------------------------------ MODULE Delivery ------------------------------
(* What the outbox promises of an event that was saved: it is sent, perhaps *)
(* more than once, and ends up published or given up, for good.             *)

CONSTANT Events

VARIABLES
  state,   \* "none", "saved", "published" or "dead"
  sent     \* events the broker has accepted

vars == <<state, sent>>

Init == state = [e \in Events |-> "none"] /\ sent = {}

Save(e) ==
  /\ state[e] = "none"
  /\ state' = [state EXCEPT ![e] = "saved"]
  /\ UNCHANGED sent

\* Nothing is sent that was not saved; a copy may still arrive when all is over.
Send(e) ==
  /\ state[e] # "none"
  /\ sent' = sent \cup {e}
  /\ UNCHANGED state

\* A batch of saved events is settled, all the same way.
Finish(S, outcome) ==
  /\ \A e \in S : state[e] = "saved"
  /\ state' = [e \in Events |-> IF e \in S THEN outcome ELSE state[e]]
  /\ UNCHANGED sent

Next ==
  \/ \E e \in Events : Save(e) \/ Send(e)
  \/ \E S \in SUBSET Events : Finish(S, "published") \/ Finish(S, "dead")

Finished(e) == state[e] \in {"published", "dead"}

Steps == Init /\ [][Next]_vars

Spec == /\ Steps
        /\ \A e \in Events : WF_vars(Finish({e}, "published") \/ Finish({e}, "dead"))
=============================================================================
