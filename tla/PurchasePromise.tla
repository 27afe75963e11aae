---------------------------- MODULE PurchasePromise ----------------------------
(***************************************************************************)
(* What buying a pack of scan credits promises, with no webhook, checkout  *)
(* session or token in sight: a pack is added once, and only when money    *)
(* was taken for it; it is withdrawn once, and only when the money was     *)
(* returned; and between the two its credits are spent and given back one  *)
(* at a time.                                                              *)
(***************************************************************************)
EXTENDS Naturals

CONSTANTS
  Purchases,
  Pack       \* credits in a pack

VARIABLES
  money,   \* what became of the buyer's money: "none", "taken" or "returned"
  pack,    \* the pack: "none", "added" or "withdrawn"
  usable   \* its credits that can be spent

promiseVars == <<money, pack, usable>>

Init ==
  /\ money = [p \in Purchases |-> "none"]
  /\ pack = [p \in Purchases |-> "none"]
  /\ usable = [p \in Purchases |-> 0]

Charge(p) ==
  /\ money[p] = "none"
  /\ money' = [money EXCEPT ![p] = "taken"]
  /\ UNCHANGED <<pack, usable>>

Return(p) ==
  /\ money[p] = "taken"
  /\ money' = [money EXCEPT ![p] = "returned"]
  /\ UNCHANGED <<pack, usable>>

Add(p) ==
  /\ pack[p] = "none" /\ money[p] # "none"
  /\ pack' = [pack EXCEPT ![p] = "added"]
  /\ usable' = [usable EXCEPT ![p] = Pack]
  /\ UNCHANGED money

Withdraw(p) ==
  /\ pack[p] # "withdrawn" /\ money[p] = "returned"
  /\ pack' = [pack EXCEPT ![p] = "withdrawn"]
  /\ usable' = [usable EXCEPT ![p] = 0]
  /\ UNCHANGED money

Spend(p) ==
  /\ usable[p] > 0
  /\ usable' = [usable EXCEPT ![p] = @ - 1]
  /\ UNCHANGED <<money, pack>>

GiveBack(p) ==
  /\ pack[p] = "added" /\ usable[p] < Pack
  /\ usable' = [usable EXCEPT ![p] = @ + 1]
  /\ UNCHANGED <<money, pack>>

Next ==
  \E p \in Purchases :
    Charge(p) \/ Return(p) \/ Add(p) \/ Withdraw(p) \/ Spend(p) \/ GiveBack(p)

Spec == Init /\ [][Next]_promiseVars

=============================================================================
