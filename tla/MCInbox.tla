------------------------------- MODULE MCInbox -------------------------------
(* Small instances of Inbox. *)
EXTENDS Inbox

CONSTANTS p1, p2
=============================================================================
