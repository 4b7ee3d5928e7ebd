------------------------------- MODULE MCChat -------------------------------
(* Chat on a small instance: Alice writes every message but the last.       *)
EXTENDS Chat, TLC

CONSTANTS alice, bob, reply

SenderOf == [m \in Messages |-> IF m = reply THEN bob ELSE alice]

Symmetry == Permutations(Messages \ {reply}) \cup Permutations(Requests)
=============================================================================
