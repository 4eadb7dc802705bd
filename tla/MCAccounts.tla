----------------------------- MODULE MCAccounts -----------------------------
(* Accounts on a small instance: no definition tells requests apart.       *)
EXTENDS Accounts, TLC

Symm == Permutations(Requests)
=============================================================================
