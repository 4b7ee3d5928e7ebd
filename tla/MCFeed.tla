------------------------------- MODULE MCFeed -------------------------------
(* Feed on a small instance: one author, whose followers and posts are      *)
(* interchangeable.                                                         *)
EXTENDS Feed, TLC

CONSTANTS author

OneAuthor == [p \in Posts |-> author]

Symmetry == Permutations(Users \ {author}) \cup Permutations(Posts) \cup Permutations(Slots)
=============================================================================
