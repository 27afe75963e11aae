-------------------------- MODULE MCDocumentReview --------------------------
(* Small instances of DocumentReview for TLC. *)
EXTENDS DocumentReview, TLC
CONSTANTS x, y, p1, p2, p3

\* A run reads one thing of everything, or another.
TwoReadings == {[f \in Read |-> v] : v \in {x, y}}

\* A total, which settles its tax and net too, a supplier, and a category.
ThreeEdits ==
  {{"payable_amount", "tax_amount", "tax_exclusive_amount"}, {"supplier"}, {"category_id"}}

Symmetry == Permutations({x, y}) \cup Permutations({p1, p2})
=============================================================================
