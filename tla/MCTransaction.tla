--------------------------- MODULE MCTransaction ---------------------------
(* Transactions nested three deep, four effects, two signals.  *)
EXTENDS Transaction, TLC
=============================================================================
