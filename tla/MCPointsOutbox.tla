-------------------------- MODULE MCPointsOutbox --------------------------
(* Small instances of PointsOutbox for TLC. *)
EXTENDS PointsOutbox, TLC
CONSTANTS ann, r1, r2, c1, c2, d1, d2, x, y

(* Ann links two YourTal accounts, from two devices. *)
AnnLinks == [r \in Requests |-> IF r = r1 THEN x ELSE y]
AnnsAsk == [r \in Requests |-> ann]

(* Both captures are Ann's, and show one receipt without a number. *)
Anns == [c \in Captures |-> ann]
OneReceipt == [c \in Captures |-> "receipt"]

(* Two containers whose drains have the same pid, or different ones. *)
SameName == [d \in Drainers |-> "yourtal-1"]
OwnName == [d \in Drainers |-> d]

Symmetry == Permutations(Captures) \cup Permutations(Drainers)
=============================================================================
