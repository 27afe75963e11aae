--------------------------- MODULE EvidenceRegister ---------------------------
(***************************************************************************)
(* What reconciliation promises of the books: an economic event is one     *)
(* receipt, one bank line, or one of each; a receipt and a line each       *)
(* belong to at most one event; and only a receipt and a line that are not *)
(* matched elsewhere are ever merged into one.                             *)
(***************************************************************************)

CONSTANTS Docs, Lines

VARIABLES
  booked,   \* receipts some event in the books is about
  cleared,  \* bank lines some event in the books is about
  matched   \* the pairs <<doc, line>> that are one event

registerVars == <<booked, cleared, matched>>

Init == booked = {} /\ cleared = {} /\ matched = {}

FreeDoc(d) == \A k \in Lines : <<d, k>> \notin matched
FreeLine(l) == \A e \in Docs : <<e, l>> \notin matched

BookDoc(d) ==
  /\ d \notin booked
  /\ booked' = booked \cup {d}
  /\ UNCHANGED <<cleared, matched>>

ClearLine(l) ==
  /\ l \notin cleared
  /\ cleared' = cleared \cup {l}
  /\ UNCHANGED <<booked, matched>>

\* Either side may already be in the books on its own.
Match(d, l) ==
  /\ FreeDoc(d) /\ FreeLine(l)
  /\ matched' = matched \cup {<<d, l>>}
  /\ booked' = booked \cup {d}
  /\ cleared' = cleared \cup {l}

\* The receipt stays in the books; the line returns to the unmatched ones.
Unmatch(d, l) ==
  /\ <<d, l>> \in matched
  /\ matched' = matched \ {<<d, l>>}
  /\ cleared' = cleared \ {l}
  /\ UNCHANGED booked

Next ==
  \/ \E d \in Docs : BookDoc(d)
  \/ \E l \in Lines : ClearLine(l)
  \/ \E d \in Docs, l \in Lines : Match(d, l) \/ Unmatch(d, l)

Spec == Init /\ [][Next]_registerVars

=============================================================================
