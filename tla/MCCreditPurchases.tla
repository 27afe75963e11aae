--------------------------- MODULE MCCreditPurchases ---------------------------
(* Small instances of CreditPurchases for TLC: the constants are model values. *)
EXTENDS CreditPurchases
===============================================================================
