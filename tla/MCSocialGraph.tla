--------------------------- MODULE MCSocialGraph ---------------------------
(* SocialGraph on a small instance: interchangeable users and requests.     *)
EXTENDS SocialGraph, TLC

Symmetry == Permutations(Users) \cup Permutations(Requests)
=============================================================================
