---------------------------- MODULE DocumentReview ----------------------------
(***************************************************************************)
(* One document, the people who correct and decide it, the machine runs    *)
(* that read its picture again, and whether the books were made of it.     *)
(*                                                                         *)
(* updateDocument compares the version in one statement and writes in the  *)
(* next, without a lock in between.  A re-extraction reads what is locked, *)
(* and whether the document is posted, in one statement and rewrites the   *)
(* document in a later one; the capture's row lock keeps two of them       *)
(* apart, but no person.                                                   *)
(*                                                                         *)
(* A value stands for what one edit or one reading made of a field: how    *)
(* tax and net are derived, and the compliance verdict, are left out.  The *)
(* version goes up by one for each transaction that writes the row.        *)
(***************************************************************************)
EXTENDS Naturals

CONSTANTS
  Requests,   \* requests of people, each about this document
  Versioned,  \* those whose client sends the version it showed
  Edits,      \* the sets of fields a correction may settle
  Values,
  Readings,   \* what a machine run may read
  NoValue,    \* no category
  MaxRuns     \* bound: re-extractions

Fields ==
  {"issue_date", "supplier", "payable_amount", "tax_amount", "tax_exclusive_amount",
   "category_id", "lines"}

\* Paths of documents.locked_fields: lines are never locked.
Lockable == Fields \ {"lines"}

\* What a reading gives: a category comes from a person or another receipt.
Read == Fields \ {"category_id"}

\* keep() is asked for these.
KeptIfLocked == {"issue_date", "supplier", "payable_amount", "tax_amount"}

\* contest() is asked for these.
Contestable == {"issue_date", "payable_amount", "tax_amount"}

ASSUME ConstantsAssumption ==
  /\ Versioned \subseteq Requests
  /\ Edits \subseteq SUBSET Lockable
  /\ Readings \subseteq [Read -> Values]
  /\ MaxRuns \in Nat

VARIABLES
  values,    \* the columns of the document, its lines among them
  locked,    \* documents.locked_fields
  version,   \* documents.version
  status,    \* documents.review_status
  books,     \* its live transaction: none, a draft, posted
  tasks,     \* review_tasks: a field a run disagrees about, or a run after posting
  save,      \* the saveExtraction at work, and what its first reading found
  runs,      \* re-extractions so far
  req,       \* where a request is, and the version its client showed
  \* History, for the properties:
  reading,   \* what the last run that was saved had read
  late,      \* what people changed since the run at work began
  touched,   \* what people changed since the last run that was saved began
  unseen,    \* what was changed since a client showed the document, until it writes
  raced      \* what of this was changed since its version was compared

rowVars == <<values, locked, version, status>>
clientVars == <<unseen, raced>>
vars == <<rowVars, books, tasks, save, runs, req, reading, late, touched, clientVars>>

Statuses == {"auto_accepted", "needs_review", "reviewed", "rejected"}
Accepted == {"auto_accepted", "reviewed"}

Things == Fields \cup {"status"}

NoSave == [open |-> FALSE, locked |-> {}, values |-> [f \in Contestable |-> NoValue], posted |-> FALSE]

SaveRecord ==
  [open : BOOLEAN, locked : SUBSET Lockable, values : [Contestable -> Values \cup {NoValue}],
   posted : BOOLEAN]

TypeOK ==
  /\ values \in [Fields -> Values \cup {NoValue}]
  /\ \A f \in Read : values[f] \in Values
  /\ locked \in SUBSET Lockable
  /\ version \in Nat
  /\ status \in Statuses
  /\ books \in {"none", "draft", "posted"}
  /\ tasks \subseteq Contestable \cup {"after_posting"}
  /\ save \in SaveRecord
  /\ runs \in 0..MaxRuns
  /\ req \in [Requests -> [step : {"idle", "opened", "checked", "over"}, seen : Nat]]
  /\ reading \in Readings
  /\ late \subseteq Things /\ touched \subseteq Things
  /\ unseen \in [Versioned -> SUBSET Things]
  /\ raced \in [Versioned -> SUBSET Things]

\* As the first extraction left it.
Init ==
  /\ reading \in Readings
  /\ values = [f \in Fields |-> IF f \in Read THEN reading[f] ELSE NoValue]
  /\ locked = {}
  /\ version = 1
  /\ status \in {"auto_accepted", "needs_review"}
  /\ books = "none"
  /\ tasks = {}
  /\ save = NoSave /\ runs = 0
  /\ req = [p \in Requests |-> [step |-> "idle", seen |-> 0]]
  /\ late = {} /\ touched = {}
  /\ unseen = [p \in Versioned |-> {}]
  /\ raced = [p \in Versioned |-> {}]

---------------------------------------------------------------------------
(* People                                                                  *)

\* What clients that show the document, or have begun to write, have not seen of
\* a change of S.
Unseen(S) ==
  /\ unseen' = [q \in Versioned |->
       IF req'[q].step \in {"opened", "checked"} THEN unseen[q] \cup S ELSE {}]
  /\ raced' = [q \in Versioned |-> IF req'[q].step = "checked" THEN raced[q] \cup S ELSE {}]

\* What a person's change of S is to the run at work and to the last one.
ByPerson(S) == late' = late \cup S /\ touched' = touched \cup S

Goto(p, step) == req' = [req EXCEPT ![p] = [step |-> step, seen |-> 0]]

\* Any write of the row (trigger documents_bump_version).
Bump == version' = version + 1

\* A client shows the document (getDocument).
OpenDocument(p) ==
  /\ req[p].step = "idle"
  /\ req' = [req EXCEPT ![p] = [step |-> "opened", seen |-> version]]
  /\ UNCHANGED <<rowVars, books, tasks, save, runs, reading, late, touched, clientVars>>

\* Variant: any version that was ever the document's.
OnceCurrent(p) == p \in Versioned => req[p].seen <= version

Current(p) == p \in Versioned => req[p].seen = version

\* updateDocument's first statement, for a correction.
CheckVersion(p) ==
  /\ req[p].step = "opened"
  /\ Current(p)
  /\ Goto(p, "checked")
  /\ Unseen({})
  /\ UNCHANGED <<rowVars, books, tasks, save, runs, reading, late, touched>>

Conflict(p) ==
  /\ req[p].step = "opened"
  /\ ~Current(p)
  /\ Goto(p, "over")
  /\ Unseen({})
  /\ UNCHANGED <<rowVars, books, tasks, save, runs, reading, late, touched>>

\* The category is not of this workspace, or the database fails.
EditRefused(p) ==
  /\ req[p].step = "checked"
  /\ Goto(p, "over")
  /\ Unseen({})
  /\ UNCHANGED <<rowVars, books, tasks, save, runs, reading, late, touched>>

\* Variant: a correction may clear any field.
ClearsField(p, F, v) ==
  /\ req[p].step = "checked"
  /\ values' = [f \in Fields |-> IF f \in F THEN v ELSE values[f]]
  /\ locked' = locked \cup F
  /\ Bump
  /\ Goto(p, "over")
  /\ ByPerson(F) /\ Unseen(F)
  /\ UNCHANGED <<status, books, tasks, save, runs, reading>>

\* The update: the fields of the correction, and their locks.  A total settles
\* its tax and net with it; a category may be cleared.
WriteEdit(p, F, v) ==
  /\ req[p].step = "checked"
  /\ v = NoValue => F \subseteq {"category_id"}
  /\ values' = [f \in Fields |-> IF f \in F THEN v ELSE values[f]]
  /\ locked' = locked \cup F
  /\ Bump
  /\ Goto(p, "over")
  /\ ByPerson(F) /\ Unseen(F)
  /\ UNCHANGED <<status, books, tasks, save, runs, reading>>

\* Share it or keep it to oneself: nothing here but the version shows it.
SetVisibility(p) ==
  /\ req[p].step = "opened"
  /\ Bump
  /\ Goto(p, "over") /\ Unseen({})
  /\ UNCHANGED <<values, locked, status, books, tasks, save, runs, reading, late, touched>>

\* Confirm and reject: updateDocument without a version.  Neither locks a field.
Decide(p, decision) ==
  /\ req[p].step = "opened"
  /\ status' = decision
  /\ Bump
  /\ Goto(p, "over")
  /\ ByPerson({"status"}) /\ Unseen({"status"})
  /\ UNCHANGED <<values, locked, books, tasks, save, runs, reading>>

\* The lines are another table: the document's version does not count them.
ReplaceLines(p, v) ==
  /\ req[p].step = "opened"
  /\ values' = [values EXCEPT !["lines"] = v]
  /\ Goto(p, "over")
  /\ ByPerson({"lines"}) /\ Unseen({"lines"})
  /\ UNCHANGED <<locked, version, status, books, tasks, save, runs, reading>>

---------------------------------------------------------------------------
(* The machine                                                             *)

\* saveExtraction has the capture's row and reads the document it has.
BeginSave ==
  /\ ~save.open
  /\ runs < MaxRuns
  /\ runs' = runs + 1
  /\ save' = [open |-> TRUE, locked |-> locked, values |-> [f \in Contestable |-> values[f]],
              posted |-> books = "posted"]
  /\ late' = {}
  /\ UNCHANGED <<rowVars, books, tasks, req, reading, touched, clientVars>>

\* Behind a posted transaction nothing moves: a person is asked.
AskAfterPosting ==
  /\ save.open /\ save.posted
  /\ tasks' = tasks \cup {"after_posting"}
  /\ save' = NoSave
  /\ UNCHANGED <<rowVars, books, runs, req, reading, late, touched, clientVars>>

\* Variant: only the total is compared.
ContestedTotal(new) ==
  {f \in {"payable_amount"} \cap save.locked : save.values[f] # new[f]}

\* What the new run would change of what a person settled.
Contested(new) == {f \in Contestable \cap save.locked : save.values[f] # new[f]}

\* applySupplierMemory fills a category nobody has given.
Unfiled == values["category_id"] = NoValue /\ "category_id" \notin locked

\* Variant: the tax is not asked for either.
KeepsTotalOnly(new, memory) ==
  [f \in Fields |->
     IF f = "category_id" THEN (IF Unfiled THEN memory ELSE values[f])
     ELSE IF f \in {"payable_amount"} \cap save.locked THEN values[f]
     ELSE new[f]]

\* The columns and lines after the save.
Rewritten(new, memory) ==
  [f \in Fields |->
     IF f = "category_id" THEN (IF Unfiled THEN memory ELSE values[f])
     ELSE IF f \in KeptIfLocked \cap save.locked THEN values[f]
     ELSE new[f]]

SaveExtraction(new, memory, verdict) ==
  /\ save.open /\ ~save.posted
  /\ values' = Rewritten(new, memory)
  /\ status' = IF Contested(new) # {} THEN "needs_review" ELSE verdict
  /\ tasks' = tasks \cup Contested(new)
  /\ Bump
  /\ save' = NoSave
  /\ reading' = new
  /\ touched' = late
  /\ UNCHANGED <<locked, books, runs, req, late>>
  /\ Unseen({f \in Fields : values'[f] # values[f]} \cup {"status"})

SaveRollsBack ==
  /\ save.open
  /\ save' = NoSave
  /\ UNCHANGED <<rowVars, books, tasks, runs, req, reading, late, touched, clientVars>>

---------------------------------------------------------------------------
(* The books                                                               *)

\* loadDocumentEvidence: only a document that is accepted is booked.
DraftTransaction ==
  /\ books = "none" /\ status \in Accepted
  /\ books' = "draft"
  /\ UNCHANGED <<rowVars, tasks, save, runs, req, reading, late, touched, clientVars>>

\* postTransaction does not look at the document again.
PostTransaction ==
  /\ books = "draft"
  /\ books' = "posted"
  /\ UNCHANGED <<rowVars, tasks, save, runs, req, reading, late, touched, clientVars>>

\* supersedeAndPost, for a merge with a statement line.
MergeAndPost ==
  /\ books # "posted" /\ status \in Accepted
  /\ books' = "posted"
  /\ UNCHANGED <<rowVars, tasks, save, runs, req, reading, late, touched, clientVars>>

---------------------------------------------------------------------------

Person(p) ==
  \/ OpenDocument(p) \/ CheckVersion(p) \/ Conflict(p) \/ EditRefused(p)
  \/ \E F \in Edits, v \in Values \cup {NoValue} : WriteEdit(p, F, v)
  \/ \E decision \in {"reviewed", "rejected"} : Decide(p, decision)
  \/ \E v \in Values : ReplaceLines(p, v)
  \/ SetVisibility(p)

Machine ==
  \/ BeginSave \/ AskAfterPosting \/ SaveRollsBack
  \/ \E new \in Readings, memory \in Values \cup {NoValue},
        verdict \in {"auto_accepted", "needs_review"} : SaveExtraction(new, memory, verdict)

Ledger == DraftTransaction \/ PostTransaction \/ MergeAndPost

Next == Machine \/ Ledger \/ \E p \in Requests : Person(p)

Spec == Init /\ [][Next]_vars

---------------------------------------------------------------------------
(* Properties                                                              *)

\* Where the last run read something else than a settled value, a task says so, and
\* the document waits for a person unless one has decided it since; what was touched
\* since that run began is apart.  The code says so of what it compares: a settled
\* supplier is kept without a word, and a settled net amount gives way to the reading.
DisagreementShown ==
  \A f \in (Read \cap locked) \ touched :
    values[f] # reading[f] =>
      \/ f \in KeptIfLocked \ Contestable
      \/ f \in tasks /\ (status = "needs_review" \/ "status" \in touched)

\* Things the document's version does not count.
Uncounted == {"lines"}

\* A correction that carries a version is written over nothing its client was not
\* shown, whoever changed it, but what was changed after its version was compared
\* (updateDocument locks nothing meanwhile), and the lines.
OverwritesOnlyRaces ==
  [][\A p \in Versioned, F \in Edits, v \in Values \cup {NoValue} :
       WriteEdit(p, F, v) => unseen[p] \subseteq raced[p] \cup Uncounted]_vars

\* A run that began on a confirmed document changes nothing a person checked:
\* a confirmation "locks the checked fields against re-extraction" (the API's text).
\* The code locks what a correction gave, and nothing else.
ConfirmedIsKept ==
  [][save.open /\ ~save'.open /\ status = "reviewed" /\ "status" \notin late
       => \A f \in Contestable : values'[f] = values[f]]_vars

\* What is settled or posted stands against every run that begins later; a category
\* against every run.
Review == INSTANCE ReviewPromise WITH
  Values  <- Values \cup {NoValue},
  Loose   <- {"lines"},
  Kept    <- KeptIfLocked,
  Firm    <- {"category_id"},
  value   <- values,
  settled <- locked,
  posted  <- books = "posted",
  run     <- [at |-> save.open, settled |-> save.locked, posted |-> save.posted]

KeepsReviewPromise == Review!Spec

=============================================================================
