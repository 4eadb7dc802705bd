------------------------------ MODULE MCBilling ------------------------------
(* Billing on a small instance: orders and handlers are interchangeable.   *)
EXTENDS Billing, TLC

Symm == Permutations(Orders) \cup Permutations(Handlers)
=============================================================================
