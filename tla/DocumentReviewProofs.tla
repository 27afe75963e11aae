------------------------- MODULE DocumentReviewProofs -------------------------
(***************************************************************************)
(* What holds of DocumentReview for any number of requests, re-extractions *)
(* and values, and for any corrections a client may send.                  *)
(***************************************************************************)
EXTENDS DocumentReview, TLAPS

---------------------------------------------------------------------------
(* The inductive invariant                                                 *)

\* A save at work: what it found locked is locked still, what was locked since
\* came late, and what it compares is as it found it unless that came late too.
SaveStands ==
  /\ ~save.open => save = NoSave
  /\ save.open =>
       /\ save.locked \subseteq locked
       /\ locked \ save.locked \subseteq late
       /\ \A f \in Contestable \ late : save.values[f] = values[f]

\* A client that shows the document and has missed a change shows an old version,
\* but for what the version does not count; one that has passed the comparison
\* has missed only what was changed since.
VersionTells ==
  \A p \in Versioned :
    /\ req[p].step = "opened" =>
         req[p].seen <= version /\ (unseen[p] \subseteq Uncounted \/ req[p].seen < version)
    /\ req[p].step = "checked" => unseen[p] \subseteq raced[p] \cup Uncounted
    /\ unseen[p] # {} => req[p].step \in {"opened", "checked"}

IInv == TypeOK /\ SaveStands /\ VersionTells /\ DisagreementShown

---------------------------------------------------------------------------
(* Types                                                                   *)

LEMMA InitIInv == Init => IInv
  BY ConstantsAssumption DEF Init, IInv, TypeOK, SaveStands, VersionTells, DisagreementShown, Uncounted,
    Fields, Read, Lockable, Contestable, Things, NoSave, SaveRecord, Statuses

LEMMA TypeStep ==
  ASSUME TypeOK, [Next]_vars
  PROVE  TypeOK'
<1> USE ConstantsAssumption DEF TypeOK
<1>1. CASE UNCHANGED vars
  BY <1>1 DEF vars, rowVars, clientVars
<1>2. ASSUME NEW p \in Requests, Person(p)
      PROVE  TypeOK'
  <2> USE DEF Goto, Unseen, ByPerson, Bump, clientVars
  <2>1. CASE OpenDocument(p)
    BY <2>1 DEF OpenDocument, rowVars
  <2>2. CASE CheckVersion(p)
    BY <2>2 DEF CheckVersion, rowVars
  <2>3. CASE Conflict(p)
    BY <2>3 DEF Conflict, rowVars
  <2>4. CASE EditRefused(p)
    BY <2>4 DEF EditRefused, rowVars
  <2>5. ASSUME NEW F \in Edits, NEW v \in Values \cup {NoValue}, WriteEdit(p, F, v)
        PROVE  TypeOK'
    <3>1. F \subseteq Lockable /\ Lockable \subseteq Fields /\ Fields \subseteq Things
      BY DEF Lockable, Things
    <3>2. values' \in [Fields -> Values \cup {NoValue}] /\ \A f \in Read : values'[f] \in Values
      BY <2>5, <3>1 DEF WriteEdit, Read
    <3>3. locked' \in SUBSET Lockable /\ late' \subseteq Things /\ touched' \subseteq Things
      BY <2>5, <3>1 DEF WriteEdit
    <3>4. unseen' \in [Versioned -> SUBSET Things] /\ raced' \in [Versioned -> SUBSET Things]
      BY <2>5, <3>1 DEF WriteEdit
    <3>. QED
      BY <2>5, <3>2, <3>3, <3>4 DEF WriteEdit
  <2>6. ASSUME NEW decision \in {"reviewed", "rejected"}, Decide(p, decision)
        PROVE  TypeOK'
    BY <2>6 DEF Decide, Statuses, Things
  <2>7. ASSUME NEW v \in Values, ReplaceLines(p, v)
        PROVE  TypeOK'
    BY <2>7 DEF ReplaceLines, Things, Fields, Read
  <2>8. CASE SetVisibility(p)
    BY <2>8 DEF SetVisibility
  <2>. QED
    BY <1>2, <2>1, <2>2, <2>3, <2>4, <2>5, <2>6, <2>7, <2>8 DEF Person
<1>3. CASE BeginSave
  <2>1. save' \in SaveRecord
    BY <1>3 DEF BeginSave, SaveRecord, Contestable, Fields
  <2>2. runs' \in 0..MaxRuns
    BY <1>3 DEF BeginSave
  <2>. QED
    BY <1>3, <2>1, <2>2 DEF BeginSave, rowVars, clientVars
<1>4. CASE AskAfterPosting
  BY <1>4 DEF AskAfterPosting, rowVars, clientVars, NoSave, SaveRecord
<1>5. CASE SaveRollsBack
  BY <1>5 DEF SaveRollsBack, rowVars, clientVars, NoSave, SaveRecord
<1>6. ASSUME NEW new \in Readings, NEW memory \in Values \cup {NoValue},
             NEW verdict \in {"auto_accepted", "needs_review"},
             SaveExtraction(new, memory, verdict)
      PROVE  TypeOK'
  <2>1. new \in [Read -> Values]
    OBVIOUS
  <2>2. values' \in [Fields -> Values \cup {NoValue}] /\ \A f \in Read : values'[f] \in Values
    BY <1>6, <2>1 DEF SaveExtraction, Rewritten, Read
  <2>3. tasks' \subseteq Contestable \cup {"after_posting"}
    BY <1>6 DEF SaveExtraction, Contested
  <2>4. unseen' \in [Versioned -> SUBSET Things] /\ raced' \in [Versioned -> SUBSET Things]
    BY <1>6 DEF SaveExtraction, Unseen, Things
  <2>5. save' \in SaveRecord
    BY <1>6 DEF SaveExtraction, NoSave, SaveRecord
  <2>. QED
    BY <1>6, <2>2, <2>3, <2>4, <2>5 DEF SaveExtraction, Statuses, Bump
<1>7. CASE Ledger
  BY <1>7 DEF Ledger, DraftTransaction, PostTransaction, MergeAndPost, rowVars, clientVars
<1>. QED
  BY <1>1, <1>2, <1>3, <1>4, <1>5, <1>6, <1>7 DEF Next, Machine

---------------------------------------------------------------------------
(* What a save found                                                       *)

LEMMA SaveStep ==
  ASSUME TypeOK, SaveStands, [Next]_vars
  PROVE  SaveStands'
<1> USE DEF SaveStands
<1>1. CASE UNCHANGED vars
  BY <1>1 DEF vars, rowVars
<1>2. ASSUME NEW p \in Requests, Person(p)
      PROVE  SaveStands'
  <2>1. CASE OpenDocument(p)
    BY <2>1 DEF OpenDocument, rowVars
  <2>2. CASE CheckVersion(p)
    BY <2>2 DEF CheckVersion, rowVars
  <2>3. CASE Conflict(p)
    BY <2>3 DEF Conflict, rowVars
  <2>4. CASE EditRefused(p)
    BY <2>4 DEF EditRefused, rowVars
  <2>5. ASSUME NEW F \in Edits, NEW v \in Values \cup {NoValue}, WriteEdit(p, F, v)
        PROVE  SaveStands'
    BY <2>5 DEF WriteEdit, ByPerson, Contestable, Fields
  <2>6. ASSUME NEW decision \in {"reviewed", "rejected"}, Decide(p, decision)
        PROVE  SaveStands'
    BY <2>6 DEF Decide, ByPerson
  <2>7. ASSUME NEW v \in Values, ReplaceLines(p, v)
        PROVE  SaveStands'
    BY <2>7 DEF ReplaceLines, ByPerson, TypeOK, Contestable
  <2>8. CASE SetVisibility(p)
    BY <2>8 DEF SetVisibility
  <2>. QED
    BY <1>2, <2>1, <2>2, <2>3, <2>4, <2>5, <2>6, <2>7, <2>8 DEF Person
<1>3. CASE BeginSave
  BY <1>3 DEF BeginSave, rowVars
<1>4. CASE AskAfterPosting
  BY <1>4 DEF AskAfterPosting, NoSave
<1>5. CASE SaveRollsBack
  BY <1>5 DEF SaveRollsBack, NoSave
<1>6. ASSUME NEW new \in Readings, NEW memory \in Values \cup {NoValue},
             NEW verdict \in {"auto_accepted", "needs_review"},
             SaveExtraction(new, memory, verdict)
      PROVE  SaveStands'
  BY <1>6 DEF SaveExtraction, NoSave
<1>7. CASE Ledger
  BY <1>7 DEF Ledger, DraftTransaction, PostTransaction, MergeAndPost, rowVars
<1>. QED
  BY <1>1, <1>2, <1>3, <1>4, <1>5, <1>6, <1>7 DEF Next, Machine

---------------------------------------------------------------------------
(* What a version tells                                                    *)

\* A change that counts makes every version that is shown an old one.
LEMMA BumpTells ==
  ASSUME TypeOK, VersionTells, Bump, NEW S, Unseen(S),
         req' \in [Requests -> [step : {"idle", "opened", "checked", "over"}, seen : Nat]],
         \A q \in Requests : req'[q].step \in {"opened", "checked"} => req'[q] = req[q]
  PROVE  VersionTells'
<1> SUFFICES ASSUME NEW q \in Versioned
             PROVE  /\ req'[q].step = "opened" => req'[q].seen < version'
                    /\ req'[q].step = "checked" => unseen'[q] \subseteq raced'[q] \cup Uncounted
                    /\ unseen'[q] # {} => req'[q].step \in {"opened", "checked"}
  <2>1. \A q \in Versioned : req'[q].seen \in Nat /\ version' \in Nat
    BY ConstantsAssumption DEF TypeOK, Bump
  <2>. QED
    BY <2>1 DEF VersionTells, Uncounted
<1>0. q \in Requests /\ req[q].seen \in Nat
  BY ConstantsAssumption DEF TypeOK
<1>1. CASE req'[q].step = "opened"
  BY <1>0, <1>1 DEF TypeOK, VersionTells, Bump
<1>2. CASE req'[q].step = "checked"
  <2>1. unseen[q] \subseteq raced[q] \cup Uncounted
    BY <1>0, <1>2 DEF VersionTells
  <2>2. unseen'[q] = unseen[q] \cup S /\ raced'[q] = raced[q] \cup S
    BY <1>2 DEF Unseen
  <2>. QED
    BY <1>2, <2>1, <2>2
<1>3. CASE req'[q].step \notin {"opened", "checked"}
  BY <1>3 DEF Unseen
<1>. QED
  BY <1>1, <1>2, <1>3

\* So it is without a change that counts, whoever passes the comparison then.
LEMMA SameTells ==
  ASSUME TypeOK, VersionTells, version' = version, NEW S \in SUBSET Uncounted, Unseen(S),
         \A q \in Versioned : req'[q].step \in {"opened", "checked"} =>
           req'[q] = req[q] \/ (req'[q].step = "checked" /\ req[q].step = "opened" /\ req[q].seen = version)
  PROVE  VersionTells'
<1> SUFFICES ASSUME NEW q \in Versioned
             PROVE  /\ req'[q].step = "opened" =>
                         req'[q].seen <= version' /\ (unseen'[q] \subseteq Uncounted \/ req'[q].seen < version')
                    /\ req'[q].step = "checked" => unseen'[q] \subseteq raced'[q] \cup Uncounted
                    /\ unseen'[q] # {} => req'[q].step \in {"opened", "checked"}
  BY DEF VersionTells
<1>0. req[q].seen \in Nat /\ version \in Nat
  BY ConstantsAssumption DEF TypeOK
<1>1. CASE req'[q].step = "opened"
  <2>1. req'[q] = req[q] /\ unseen'[q] = unseen[q] \cup S
    BY <1>1 DEF Unseen
  <2>. QED
    BY <1>1, <2>1 DEF VersionTells
<1>2. CASE req'[q].step = "checked"
  <2>1. unseen'[q] = unseen[q] \cup S /\ raced'[q] = raced[q] \cup S
    BY <1>2 DEF Unseen
  <2>2. unseen[q] \subseteq raced[q] \cup Uncounted
    <3>1. CASE req'[q] = req[q]
      BY <1>2, <3>1 DEF VersionTells
    <3>2. CASE req[q].step = "opened" /\ req[q].seen = version
      BY <1>0, <3>2 DEF VersionTells
    <3>. QED
      BY <1>2, <3>1, <3>2
  <2>. QED
    BY <1>2, <2>1, <2>2
<1>3. CASE req'[q].step \notin {"opened", "checked"}
  BY <1>3 DEF Unseen
<1>. QED
  BY <1>1, <1>2, <1>3

\* A request that ends shows the document no more.
LEMMA GotoShows ==
  ASSUME TypeOK, NEW p \in Requests, Goto(p, "over")
  PROVE  /\ req' \in [Requests -> [step : {"idle", "opened", "checked", "over"}, seen : Nat]]
         /\ \A q \in Requests : req'[q].step \in {"opened", "checked"} => req'[q] = req[q]
  BY DEF Goto, TypeOK

LEMMA VersionStep ==
  ASSUME TypeOK, VersionTells, [Next]_vars
  PROVE  VersionTells'
<1>1. CASE UNCHANGED vars
  BY <1>1 DEF vars, rowVars, clientVars, VersionTells
<1>2. ASSUME NEW p \in Requests, Person(p)
      PROVE  VersionTells'
  <2>1. CASE OpenDocument(p)
    <3>1. \A q \in Versioned : q # p => req'[q] = req[q]
      BY <2>1, ConstantsAssumption DEF OpenDocument, TypeOK
    <3>2. p \in Versioned => unseen[p] = {} /\ req'[p].step = "opened" /\ req'[p].seen = version
      BY <2>1 DEF OpenDocument, VersionTells, TypeOK
    <3>3. version \in Nat /\ UNCHANGED <<version, unseen, raced>>
      BY <2>1 DEF OpenDocument, rowVars, clientVars, TypeOK
    <3>. QED
      BY <3>1, <3>2, <3>3 DEF VersionTells
  <2>2. CASE CheckVersion(p)
    <3>1. version' = version /\ Unseen({}) /\ Goto(p, "checked")
      BY <2>2 DEF CheckVersion, rowVars
    <3>2. \A q \in Versioned : q # p => req'[q] = req[q]
      BY <3>1, ConstantsAssumption DEF Goto, TypeOK
    <3>3. p \in Versioned => req'[p].step = "checked" /\ req[p].step = "opened" /\ req[p].seen = version
      BY <2>2, <3>1 DEF CheckVersion, Current, Goto, TypeOK
    <3>. QED
      BY <3>1, <3>2, <3>3, SameTells
  <2>3. ASSUME Conflict(p) \/ EditRefused(p) \/ \E v \in Values : ReplaceLines(p, v)
        PROVE  VersionTells'
    <3>1. PICK S \in SUBSET Uncounted : version' = version /\ Unseen(S) /\ Goto(p, "over")
      BY <2>3 DEF Conflict, EditRefused, ReplaceLines, Uncounted, rowVars
    <3>. QED
      BY <3>1, GotoShows, SameTells, ConstantsAssumption
  <2>4. ASSUME NEW F \in Edits, NEW v \in Values \cup {NoValue}, WriteEdit(p, F, v)
        PROVE  VersionTells'
    <3>1. Bump /\ Unseen(F) /\ Goto(p, "over")
      BY <2>4 DEF WriteEdit
    <3>. QED
      BY <3>1, GotoShows, BumpTells
  <2>5. ASSUME NEW decision \in {"reviewed", "rejected"}, Decide(p, decision)
        PROVE  VersionTells'
    <3>1. Bump /\ Unseen({"status"}) /\ Goto(p, "over")
      BY <2>5 DEF Decide
    <3>. QED
      BY <3>1, GotoShows, BumpTells
  <2>6. CASE SetVisibility(p)
    <3>1. Bump /\ Unseen({}) /\ Goto(p, "over")
      BY <2>6 DEF SetVisibility
    <3>. QED
      BY <3>1, GotoShows, BumpTells
  <2>. QED
    BY <1>2, <2>1, <2>2, <2>3, <2>4, <2>5, <2>6 DEF Person
<1>3. CASE BeginSave \/ AskAfterPosting \/ SaveRollsBack
  BY <1>3 DEF VersionTells, BeginSave, AskAfterPosting, SaveRollsBack, rowVars, clientVars
<1>4. ASSUME NEW new \in Readings, NEW memory \in Values \cup {NoValue},
             NEW verdict \in {"auto_accepted", "needs_review"},
             SaveExtraction(new, memory, verdict)
      PROVE  VersionTells'
  <2>1. Bump /\ req' = req
    BY <1>4 DEF SaveExtraction
  <2>2. Unseen({f \in Fields : values'[f] # values[f]} \cup {"status"})
    BY <1>4 DEF SaveExtraction
  <2>. QED
    BY <2>1, <2>2, BumpTells DEF TypeOK
<1>5. CASE Ledger
  BY <1>5 DEF VersionTells, Ledger, DraftTransaction, PostTransaction, MergeAndPost, rowVars, clientVars
<1>. QED
  BY <1>1, <1>2, <1>3, <1>4, <1>5 DEF Next, Machine

---------------------------------------------------------------------------
(* No silent disagreement                                                  *)

\* A settled field that nobody touched while the save was at work was found
\* settled.  It gives way to the reading, or is kept; then it is compared as it
\* stands, unless it is one the code does not compare.
LEMMA SaveShows ==
  ASSUME TypeOK, SaveStands, NEW new \in Readings, NEW memory \in Values \cup {NoValue},
         NEW verdict \in {"auto_accepted", "needs_review"},
         SaveExtraction(new, memory, verdict)
  PROVE  DisagreementShown'
<1> SUFFICES ASSUME NEW f \in (Read \cap locked) \ late, values'[f] # new[f],
                    f \notin KeptIfLocked \ Contestable
             PROVE  f \in tasks' /\ status' = "needs_review"
  BY DEF SaveExtraction, DisagreementShown
<1>1. f \in save.locked /\ f \in Fields /\ f # "category_id"
  BY DEF SaveExtraction, SaveStands, Read
<1>2. f \in KeptIfLocked /\ values'[f] = values[f]
  BY <1>1 DEF SaveExtraction, Rewritten
<1>3. f \in Contestable /\ save.values[f] = values[f]
  BY <1>2 DEF SaveExtraction, SaveStands
<1>4. f \in Contested(new)
  BY <1>1, <1>2, <1>3 DEF Contested
<1>. QED
  BY <1>4 DEF SaveExtraction

LEMMA DisagreementStep ==
  ASSUME TypeOK, SaveStands, DisagreementShown, [Next]_vars
  PROVE  DisagreementShown'
<1>1. CASE UNCHANGED vars
  BY <1>1 DEF vars, rowVars, DisagreementShown
<1>2. ASSUME NEW p \in Requests, Person(p)
      PROVE  DisagreementShown'
  <2> USE DEF DisagreementShown
  <2>1. CASE OpenDocument(p)
    BY <2>1 DEF OpenDocument, rowVars
  <2>2. CASE CheckVersion(p)
    BY <2>2 DEF CheckVersion, rowVars
  <2>3. CASE Conflict(p)
    BY <2>3 DEF Conflict, rowVars
  <2>4. CASE EditRefused(p)
    BY <2>4 DEF EditRefused, rowVars
  <2>5. ASSUME NEW F \in Edits, NEW v \in Values \cup {NoValue}, WriteEdit(p, F, v)
        PROVE  DisagreementShown'
    BY <2>5 DEF WriteEdit, ByPerson, Read
  <2>6. ASSUME NEW decision \in {"reviewed", "rejected"}, Decide(p, decision)
        PROVE  DisagreementShown'
    BY <2>6 DEF Decide, ByPerson
  <2>7. ASSUME NEW v \in Values, ReplaceLines(p, v)
        PROVE  DisagreementShown'
    BY <2>7 DEF ReplaceLines, ByPerson, TypeOK, Read, Lockable
  <2>8. CASE SetVisibility(p)
    BY <2>8 DEF SetVisibility
  <2>. QED
    BY <1>2, <2>1, <2>2, <2>3, <2>4, <2>5, <2>6, <2>7, <2>8 DEF Person
<1>3. CASE BeginSave
  BY <1>3 DEF BeginSave, rowVars, DisagreementShown
<1>4. CASE AskAfterPosting
  BY <1>4 DEF AskAfterPosting, rowVars, DisagreementShown
<1>5. CASE SaveRollsBack
  BY <1>5 DEF SaveRollsBack, rowVars, DisagreementShown
<1>6. ASSUME NEW new \in Readings, NEW memory \in Values \cup {NoValue},
             NEW verdict \in {"auto_accepted", "needs_review"},
             SaveExtraction(new, memory, verdict)
      PROVE  DisagreementShown'
  BY <1>6, SaveShows
<1>7. CASE Ledger
  BY <1>7 DEF Ledger, DraftTransaction, PostTransaction, MergeAndPost, rowVars, DisagreementShown
<1>. QED
  BY <1>1, <1>2, <1>3, <1>4, <1>5, <1>6, <1>7 DEF Next, Machine

---------------------------------------------------------------------------
(* The theorems                                                            *)

\* The inductive invariant holds of every behaviour.
THEOREM AlwaysIInv == Spec => []IInv
<1>1. IInv /\ [Next]_vars => IInv'
  BY TypeStep, SaveStep, VersionStep, DisagreementStep DEF IInv
<1>. QED
  BY InitIInv, <1>1, PTL DEF Spec

\* Documents, saves, requests and tasks keep their types: nothing but a category
\* is ever without a value (updateDocument, saveExtraction).
THEOREM TypeCorrect == Spec => []TypeOK
<1>1. IInv => TypeOK
  BY DEF IInv
<1>. QED
  BY AlwaysIInv, <1>1, PTL

\* A re-extraction that read something else than what a person settled, and keeps it,
\* is brought to a person, whoever edits or decides meanwhile (saveExtraction's
\* contest).  Of all settled fields that are read, only the supplier is kept in silence.
THEOREM DisagreementsShown == Spec => []DisagreementShown
<1>1. IInv => DisagreementShown
  BY DEF IInv
<1>. QED
  BY AlwaysIInv, <1>1, PTL

\* A correction that carries a version is written over nothing its client was not
\* shown, but what was changed after the comparison, and the lines (updateDocument,
\* trigger of migration 0012).
THEOREM VersionsCorrect == Spec => OverwritesOnlyRaces
<1> DEFINE OnlyRaces ==
      \A p \in Versioned, F \in Edits, v \in Values \cup {NoValue} :
        WriteEdit(p, F, v) => unseen[p] \subseteq raced[p] \cup Uncounted
<1>1. IInv => OnlyRaces
  BY DEF IInv, VersionTells, WriteEdit
<1>. QED
  BY AlwaysIInv, <1>1, PTL DEF Spec, OverwritesOnlyRaces

---------------------------------------------------------------------------
(* The promise                                                             *)

LEMMA PromiseInit == Init => Review!Init
  BY ConstantsAssumption DEF Init, Review!Init, Review!NoRun, NoSave, Read, Fields

LEMMA PromiseStep ==
  ASSUME IInv, TypeOK', [Next]_vars
  PROVE  [Review!Next]_(Review!reviewVars)
<1> USE DEF Review!Next, Review!reviewVars
<1>0. values' \in [Fields -> Values \cup {NoValue}] /\ locked \subseteq Lockable
  BY DEF TypeOK, IInv
<1>1. CASE UNCHANGED vars
  BY <1>1 DEF vars, rowVars
<1>2. ASSUME NEW p \in Requests, Person(p)
      PROVE  [Review!Next]_(Review!reviewVars)
  <2>1. CASE OpenDocument(p) \/ CheckVersion(p) \/ Conflict(p) \/ EditRefused(p)
    BY <2>1 DEF OpenDocument, CheckVersion, Conflict, EditRefused, rowVars
  <2>2. ASSUME NEW F \in Edits, NEW v \in Values \cup {NoValue}, WriteEdit(p, F, v)
        PROVE  Review!Settle
    <3>1. F \subseteq Lockable /\ Lockable = Fields \ {"lines"}
      BY ConstantsAssumption DEF Lockable
    <3>2. locked' = locked \cup F /\ UNCHANGED <<books, save>>
      BY <2>2 DEF WriteEdit
    <3>3. \A f \in Fields : values'[f] # values[f] => f \in locked'
      BY <2>2 DEF WriteEdit
    <3>. QED
      BY <1>0, <3>1, <3>2, <3>3 DEF Review!Settle
  <2>3. ASSUME NEW v \in Values, ReplaceLines(p, v)
        PROVE  Review!Settle
    <3>1. UNCHANGED <<locked, books, save>> /\ values' = [values EXCEPT !["lines"] = v]
      BY <2>3 DEF ReplaceLines
    <3>2. \A f \in Fields : values'[f] # values[f] => f = "lines"
      BY <3>1 DEF IInv, TypeOK
    <3>. QED
      BY <1>0, <3>1, <3>2 DEF Review!Settle, Lockable
  <2>4. ASSUME NEW decision \in {"reviewed", "rejected"}, Decide(p, decision)
        PROVE  UNCHANGED Review!reviewVars
    BY <2>4 DEF Decide
  <2>5. CASE SetVisibility(p)
    BY <2>5 DEF SetVisibility
  <2>. QED
    BY <1>2, <2>1, <2>2, <2>3, <2>4, <2>5 DEF Person
<1>3. CASE BeginSave
  <2>1. ~save.open /\ UNCHANGED <<values, locked, books>>
    BY <1>3 DEF BeginSave, rowVars
  <2>2. save'.open /\ save'.locked = locked /\ save'.posted = (books = "posted")
    BY <1>3 DEF BeginSave
  <2>. QED
    BY <2>1, <2>2 DEF Review!BeginRun
<1>4. ASSUME save.open, save' = NoSave, UNCHANGED <<locked, books>>,
             save.posted => values' = values,
             \A f \in (save.locked \cap KeptIfLocked) \cup (locked \cap {"category_id"}) :
               values'[f] = values[f]
      PROVE  Review!EndRun
  BY <1>0, <1>4 DEF Review!EndRun, Review!NoRun, NoSave
<1>5. CASE AskAfterPosting
  BY <1>4, <1>5 DEF AskAfterPosting, rowVars
<1>6. CASE SaveRollsBack
  BY <1>4, <1>6 DEF SaveRollsBack, rowVars
<1>7. ASSUME NEW new \in Readings, NEW memory \in Values \cup {NoValue},
             NEW verdict \in {"auto_accepted", "needs_review"},
             SaveExtraction(new, memory, verdict)
      PROVE  Review!EndRun
  <2>1. save.open /\ ~save.posted /\ save' = NoSave /\ UNCHANGED <<locked, books>>
    BY <1>7 DEF SaveExtraction
  <2>2. values' = Rewritten(new, memory)
    BY <1>7 DEF SaveExtraction
  <2>3. \A f \in save.locked \cap KeptIfLocked : values'[f] = values[f]
    BY <2>2 DEF Rewritten, KeptIfLocked, Fields
  <2>4. \A f \in locked \cap {"category_id"} : values'[f] = values[f]
    BY <2>2 DEF Rewritten, Unfiled, Fields
  <2>. QED
    BY <1>4, <2>1, <2>3, <2>4
<1>8. CASE Ledger
  <2>1. UNCHANGED <<values, locked, save>>
    BY <1>8 DEF Ledger, DraftTransaction, PostTransaction, MergeAndPost, rowVars
  <2>2. CASE books' = "posted"
    BY <2>1, <2>2 DEF Review!Post
  <2>3. CASE books' # "posted"
    BY <1>8, <2>1, <2>3 DEF Ledger, DraftTransaction, PostTransaction, MergeAndPost
  <2>. QED
    BY <2>2, <2>3
<1>. QED
  BY <1>1, <1>2, <1>3, <1>5, <1>6, <1>7, <1>8 DEF Next, Machine

\* Corrections, decisions, re-extractions and postings implement the promise:
\* what is settled or posted stands against every run that begins later.
THEOREM PromiseKept == Spec => KeepsReviewPromise
<1>1. IInv /\ IInv' /\ [Next]_vars => [Review!Next]_(Review!reviewVars)
  BY PromiseStep DEF IInv
<1>. QED
  BY PromiseInit, AlwaysIInv, <1>1, PTL DEF Spec, KeepsReviewPromise, Review!Spec

=============================================================================
