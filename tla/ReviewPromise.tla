---------------------------- MODULE ReviewPromise ----------------------------
(***************************************************************************)
(* What a document promises the people who correct it, with no version,    *)
(* request or review task in sight: a field a person has settled is theirs *)
(* against every machine run that began afterwards, and a document that is *)
(* in the books is rewritten by no run that began afterwards.              *)
(*                                                                         *)
(* A run may still take back what was settled or posted while it was at    *)
(* work: it goes by what it found when it began.  Only the fields in Firm  *)
(* are safe from that too.                                                 *)
(***************************************************************************)

CONSTANTS
  Fields,
  Values,
  Loose,  \* fields nobody can settle
  Kept,   \* fields a run leaves alone when it found them settled
  Firm    \* fields a run leaves alone when they are settled by its end

VARIABLES
  value,    \* what the document says
  settled,  \* fields a person has given
  posted,   \* a transaction in the books is made of it
  run       \* the machine run at work, if any: what it found settled, and posted

reviewVars == <<value, settled, posted, run>>

NoRun == [at |-> FALSE, settled |-> {}, posted |-> FALSE]

Init ==
  /\ value \in [Fields -> Values]
  /\ settled = {} /\ posted = FALSE
  /\ run = NoRun

\* A person changes the document, and settles what can be settled of it.
Settle ==
  /\ value' \in [Fields -> Values]
  /\ settled \subseteq settled' /\ settled' \subseteq Fields \ Loose
  /\ \A f \in Fields : value'[f] # value[f] => f \in settled' \cup Loose
  /\ UNCHANGED <<posted, run>>

Post ==
  /\ posted' = TRUE
  /\ UNCHANGED <<value, settled, run>>

BeginRun ==
  /\ ~run.at
  /\ run' = [at |-> TRUE, settled |-> settled, posted |-> posted]
  /\ UNCHANGED <<value, settled, posted>>

EndRun ==
  /\ run.at
  /\ value' \in [Fields -> Values]
  /\ run.posted => value' = value
  /\ \A f \in (run.settled \cap Kept) \cup (settled \cap Firm) : value'[f] = value[f]
  /\ run' = NoRun
  /\ UNCHANGED <<settled, posted>>

Next == Settle \/ Post \/ BeginRun \/ EndRun

Spec == Init /\ [][Next]_reviewVars

=============================================================================
