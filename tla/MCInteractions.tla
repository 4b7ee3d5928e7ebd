--------------------------- MODULE MCInteractions ---------------------------
(* Interactions on a small instance: the post's author and one other user,  *)
(* who writes the comments; comments and requests are interchangeable.      *)
EXTENDS Interactions, TLC

CONSTANTS owner, guest

ByGuest == [c \in Comments |-> guest]

Symmetry == Permutations(Comments) \cup Permutations(Requests)
=============================================================================
