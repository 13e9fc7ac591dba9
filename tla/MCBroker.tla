------------------------------ MODULE MCBroker ------------------------------
(* Small instances of Broker. *)
EXTENDS Broker

CONSTANT p1
=============================================================================
