------------------------------ MODULE MCOutbox ------------------------------
(* Values of Outbox's constants for the model checker. *)
EXTENDS Outbox

CONSTANTS c1, p1, p2
=============================================================================
