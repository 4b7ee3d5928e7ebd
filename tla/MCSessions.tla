----------------------------- MODULE MCSessions -----------------------------
(* Sessions on a small instance: the requests are alike, and the passwords. *)
EXTENDS Sessions, TLC

Symmetry == Permutations(Requests) \cup Permutations(Passwords)
=============================================================================
