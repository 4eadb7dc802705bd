----------------------- MODULE MCConversationContent -----------------------
(* ConversationContent on a small instance: no definition tells requests,   *)
(* users or codes apart.                                                    *)
EXTENDS ConversationContent, TLC

Symmetry == Permutations(Requests) \cup Permutations(Users) \cup Permutations(Codes)
=============================================================================
