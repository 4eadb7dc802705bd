---------------------------- MODULE MCQuotaLedger ----------------------------
(* QuotaLedger on small instances: the requests are interchangeable.       *)
EXTENDS QuotaLedger, TLC

Symm == Permutations(Requests)
=============================================================================
