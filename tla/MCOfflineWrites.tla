--------------------------- MODULE MCOfflineWrites ----------------------------
(* Small instances of OfflineWrites for TLC: the constants are model values. *)
EXTENDS OfflineWrites
===============================================================================
