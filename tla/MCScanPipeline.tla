--------------------------- MODULE MCScanPipeline ---------------------------
(***************************************************************************)
(* ScanPipeline on small instances: the grants' amounts and the symmetric  *)
(* sets that a .cfg cannot write.                                          *)
(***************************************************************************)
EXTENDS ScanPipeline, TLC

\* One credit in each grant.  With two grants the first is a signup bonus
\* and the second was bought; with one, it was bought.
OneEach == [g \in Grants |-> 1]

Symmetry == Permutations(Workers) \cup Permutations(Jobs)

=============================================================================
