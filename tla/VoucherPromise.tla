---------------------------- MODULE VoucherPromise ----------------------------
(***************************************************************************)
(* What redeeming a voucher promises, with no lease, answer or retry in    *)
(* sight: an attempt that was closed took nothing and never will, credits  *)
(* are added once and only for a voucher that was taken, and an attempt    *)
(* that is neither closed nor credited is open or before a person.         *)
(***************************************************************************)

CONSTANT Rows  \* attempts to redeem one voucher

VARIABLES
  attempt,  \* what the app says of it
  taken,    \* attempts whose order took the voucher's value at the merchant
  credits   \* grants of credits made for it

promiseVars == <<attempt, taken, credits>>

Outcomes == {"none", "open", "review", "closed", "credited"}

Init ==
  /\ attempt = [r \in Rows |-> "none"]
  /\ taken = {}
  /\ credits = [r \in Rows |-> 0]

Now(r, outcome) == attempt' = [attempt EXCEPT ![r] = outcome]

Open(r) ==
  /\ attempt[r] = "none"
  /\ Now(r, "open")
  /\ UNCHANGED <<taken, credits>>

Take(r) ==
  /\ attempt[r] = "open"
  /\ taken' = taken \cup {r}
  /\ UNCHANGED <<attempt, credits>>

Credit(r) ==
  /\ attempt[r] = "open" /\ r \in taken /\ credits[r] = 0
  /\ Now(r, "credited")
  /\ credits' = [credits EXCEPT ![r] = 1]
  /\ UNCHANGED taken

Close(r) ==
  /\ attempt[r] = "open" /\ r \notin taken
  /\ Now(r, "closed")
  /\ UNCHANGED <<taken, credits>>

Escalate(r) ==
  /\ attempt[r] = "open"
  /\ Now(r, "review")
  /\ UNCHANGED <<taken, credits>>

Next == \E r \in Rows : Open(r) \/ Take(r) \/ Credit(r) \/ Close(r) \/ Escalate(r)

Spec == Init /\ [][Next]_promiseVars

=============================================================================
