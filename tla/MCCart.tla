------------------------------- MODULE MCCart -------------------------------
(* Small instances of Cart. *)
EXTENDS Cart, TLC

CONSTANTS a, b, r1, r2

SymCart == Permutations({a, b}) \cup Permutations({r1, r2})
=============================================================================
