--------------------------- MODULE PointsPromise ---------------------------
(***************************************************************************)
(* What the outbox of receipt reports promises, without links, locks or    *)
(* messages: YourTal pays a receipt once; what the row of a report says    *)
(* is final and is not contradicted by what YourTal did.                   *)
(***************************************************************************)
CONSTANTS Captures,
          Ref        \* the name under which YourTal pays a report once

VARIABLES told,      \* what the row says: none, skipped, pending or an outcome
          paid       \* the reports YourTal paid

(* Outcomes after which the report never earns. *)
Lost == {"skipped", "duplicate", "refused", "link_broken", "cancelled"}

Init == told = [c \in Captures |-> "none"] /\ paid = {}

Queue(c, as) ==
  /\ told[c] = "none" /\ told' = [told EXCEPT ![c] = as]
  /\ UNCHANGED paid

Earn(c) ==
  /\ told[c] \notin Lost \cup {"none"}
  /\ \A o \in paid : Ref[o] # Ref[c]
  /\ paid' = paid \cup {c}
  /\ UNCHANGED told

(* A report that was paid is never called a duplicate, refused or broken. *)
MayTell(c, outcome) ==
  CASE outcome = "sent" -> c \in paid
    [] outcome = "duplicate" -> \E o \in paid \ {c} : Ref[o] = Ref[c]
    [] outcome \in {"refused", "link_broken"} -> c \notin paid
    [] OTHER -> outcome \in {"cancelled", "failed", "dead"}

Tell(c, outcome) ==
  /\ told[c] = "pending" /\ MayTell(c, outcome)
  /\ told' = [told EXCEPT ![c] = outcome]
  /\ UNCHANGED paid

(* The link broke: whatever waits under it is closed together. *)
Cancel(closed) ==
  /\ \A c \in closed : told[c] = "pending"
  /\ told' = [c \in Captures |-> IF c \in closed THEN "cancelled" ELSE told[c]]
  /\ UNCHANGED paid

Outcomes == {"sent", "duplicate", "refused", "link_broken", "cancelled", "failed", "dead"}

Next ==
  \/ \E c \in Captures : Earn(c) \/ Queue(c, "pending") \/ Queue(c, "skipped")
  \/ \E c \in Captures, outcome \in Outcomes : Tell(c, outcome)
  \/ \E closed \in SUBSET Captures : Cancel(closed)

Spec == Init /\ [][Next]_<<told, paid>>
=============================================================================
