------------------------- MODULE MCVoucherRedemption -------------------------
(***************************************************************************)
(* VoucherRedemption on small instances.                                   *)
(***************************************************************************)
EXTENDS VoucherRedemption, TLC

Symmetry == Permutations(Rows) \cup Permutations(Requests) \cup Permutations(Drains)

=============================================================================
