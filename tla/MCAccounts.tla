----------------------------- MODULE MCAccounts -----------------------------
(* Accounts on a small instance: accounts, names, posts and requests of one  *)
(* kind are alike.                                                           *)
EXTENDS Accounts, TLC

Symmetry == Permutations(Users) \cup Permutations(Usernames)
    \cup Permutations(Posts) \cup Permutations(Requests)
=============================================================================
