----------------------------- MODULE ScanPromise -----------------------------
(***************************************************************************)
(* What a scan promises the person who took it, with no queue, worker or   *)
(* transaction in sight: it is charged at most once, it is read or the     *)
(* credit comes back but a read scan's credit never does, and only a scan  *)
(* that is read and still paid for with a bought credit earns points, once.*)
(***************************************************************************)

CONSTANT Captures

VARIABLES
  charged,   \* a credit was taken for it
  bought,    \* that credit was a bought one
  returned,  \* the credit was given back
  read,      \* it has a document
  earned     \* it was reported for points

promiseVars == <<charged, bought, returned, read, earned>>

Init ==
  /\ charged = {} /\ bought = {} /\ returned = {}
  /\ read = {} /\ earned = {}

Charge(c) ==
  /\ c \notin charged
  /\ charged' = charged \cup {c}
  /\ bought' \in {bought, bought \cup {c}}
  /\ UNCHANGED <<returned, read, earned>>

\* A capture already given back, or never charged, may still be read: staff
\* re-extraction costs the user nothing.
Read(c) ==
  /\ c \notin read
  /\ read' = read \cup {c}
  /\ UNCHANGED <<charged, bought, returned, earned>>

GiveBack(c) ==
  /\ c \in charged \ (returned \cup read)
  /\ returned' = returned \cup {c}
  /\ UNCHANGED <<charged, bought, read, earned>>

Earn(c) ==
  /\ c \in (bought \cap read) \ (returned \cup earned)
  /\ earned' = earned \cup {c}
  /\ UNCHANGED <<charged, bought, returned, read>>

Next == \E c \in Captures : Charge(c) \/ Read(c) \/ GiveBack(c) \/ Earn(c)

Spec == Init /\ [][Next]_promiseVars

=============================================================================
