--------------------------- MODULE MCAdminAccess ---------------------------
(* AdminAccess on a small instance: no definition tells requests apart.    *)
EXTENDS AdminAccess
=============================================================================
