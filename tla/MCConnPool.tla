----------------------------- MODULE MCConnPool -----------------------------
(* Small instances of ConnPool. *)
EXTENDS ConnPool

CONSTANTS o1, o2, r1, r2, r3
=============================================================================
