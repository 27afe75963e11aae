---------------------------- MODULE Reconciliation ----------------------------
(***************************************************************************)
(* Receipts, bank statement lines and the ledger transactions that         *)
(* materialise them.                                                       *)
(*                                                                         *)
(* A transaction is never edited: when the evidence of an event changes,   *)
(* supersedeAndPost voids the transactions that materialise the evidence   *)
(* and posts a new one, in one database transaction that migration 0032's  *)
(* constraints judge at its commit.  The requests around it (accept, link, *)
(* unlink, standalone post) are several database transactions each, and    *)
(* what one read is old by the time it acts.                               *)
(*                                                                         *)
(* Amounts, splits and tax are not modelled: a merge they refuse           *)
(* (amount_disagreement, lines_dont_reconcile and the others) is a request *)
(* that ends without a step.  supersedeAndPost is one step: it holds the   *)
(* rows of its document and line from its first read to its commit.        *)
(***************************************************************************)
EXTENDS Naturals, FiniteSets

CONSTANTS
  Docs,       \* documents that are not statements
  Lines,      \* statement lines
  Txns,       \* ids of transactions
  Requests,   \* API requests under way at once
  Reopened,   \* documents a person may edit out of a postable state again
  NoDoc, NoLine, NoTxn,
  MaxDeaths   \* bound: requests cut off by a failure of the process or the database

ASSUME ConstantsAssumption ==
  /\ NoDoc \notin Docs /\ NoLine \notin Lines /\ NoTxn \notin Txns
  /\ Reopened \subseteq Docs
  /\ IsFiniteSet(Txns) /\ IsFiniteSet(Requests)
  /\ MaxDeaths \in Nat

VARIABLES
  txn,        \* transactions: status, and the evidence its splits came from
  docObs,     \* event_observations of kind 'document': the transaction
  lineObs,    \* event_observations of kind 'statement_line': the transaction
  lineObsId,  \* which row of the line's observations this is: it was deleted so often
  cand,       \* match_candidates.status of a pair
  postable,   \* the document is confirmed and its lines add up
  req,        \* where a request is, and what it read
  deaths

ledgerVars == <<txn, docObs, lineObs, lineObsId>>
vars == <<ledgerVars, cand, postable, req, deaths>>

---------------------------------------------------------------------------

Unused == [status |-> "unused", doc |-> NoDoc, line |-> NoLine]
Idle   == [step |-> "idle", doc |-> NoDoc, line |-> NoLine, id |-> 0]

Statuses == {"none", "suggested", "accepted", "rejected", "unlinked"}

\* The database transaction a request runs next.
Steps == {"idle", "merge", "decide", "reject", "check", "delete", "rebook", "post"}

TxnRecord ==
  [status : {"unused", "draft", "posted", "void"},
   doc : Docs \cup {NoDoc}, line : Lines \cup {NoLine}]

RequestRecord ==
  [step : Steps, doc : Docs \cup {NoDoc}, line : Lines \cup {NoLine}, id : Nat]

TypeOK ==
  /\ txn \in [Txns -> TxnRecord]
  /\ docObs \in [Docs -> Txns \cup {NoTxn}]
  /\ lineObs \in [Lines -> Txns \cup {NoTxn}]
  /\ lineObsId \in [Lines -> Nat]
  /\ cand \in [Docs \X Lines -> Statuses]
  /\ postable \in [Docs -> BOOLEAN]
  /\ req \in [Requests -> RequestRecord]
  \* A request about a pair names one; a rebook, only a document.
  /\ \A r \in Requests :
       /\ req[r].step \in {"merge", "decide", "reject", "check", "delete", "rebook"}
            => req[r].doc \in Docs
       /\ req[r].step \in {"merge", "decide", "reject", "check", "delete", "post"}
            => req[r].line \in Lines
  /\ deaths \in 0..MaxDeaths

Init ==
  /\ txn = [t \in Txns |-> Unused]
  /\ docObs = [d \in Docs |-> NoTxn]
  /\ lineObs = [l \in Lines |-> NoTxn]
  /\ lineObsId = [l \in Lines |-> 0]
  /\ cand = [p \in Docs \X Lines |-> "none"]
  /\ postable = [d \in Docs |-> FALSE]
  /\ req = [r \in Requests |-> Idle]
  /\ deaths = 0

Live(t) == txn[t].status \in {"draft", "posted"}

\* The matcher's "both-sided" test: one transaction observes both.
Linked(d, l) == docObs[d] # NoTxn /\ docObs[d] = lineObs[l]

---------------------------------------------------------------------------
(* The ledger                                                              *)

\* The transactions that materialise either piece of evidence now.
Observing(d, l) ==
  ({docObs[x] : x \in Docs \cap {d}} \cup {lineObs[x] : x \in Lines \cap {l}}) \ {NoTxn}

\* Variants: the trigger looks at one kind of observation only.
LeavesNoDocument(t, d, l) == \A x \in Docs \ {d} : docObs[x] # t
LeavesNoLine(t, d, l) == \A x \in Lines \ {l} : lineObs[x] # t

\* trg_txn_no_link_on_void at the commit: a transaction that is voided keeps
\* no observation beside the ones that move to the new transaction.
LeavesNothing(t, d, l) ==
  /\ \A x \in Docs \ {d} : docObs[x] # t
  /\ \A x \in Lines \ {l} : lineObs[x] # t

MayVoid(d, l) == \A t \in Observing(d, l) : LeavesNothing(t, d, l)

\* Void what materialises the evidence, post n for all of it, re-point the
\* observations that exist and insert the ones that do not.
SupersedeAndPost(d, l, n) ==
  /\ txn[n].status = "unused"
  /\ d \in Docs => postable[d]
  /\ MayVoid(d, l)
  /\ txn' = [t \in Txns |->
       IF t = n THEN [status |-> "posted", doc |-> d, line |-> l]
       ELSE IF t \in Observing(d, l) THEN [txn[t] EXCEPT !.status = "void"]
       ELSE txn[t]]
  /\ docObs' = [x \in Docs |-> IF x = d THEN n ELSE docObs[x]]
  /\ lineObs' = [x \in Lines |-> IF x = l THEN n ELSE lineObs[x]]
  /\ UNCHANGED lineObsId

Count(S) == Cardinality(S)

\* Bound: a request starts only while there is a transaction id for it and
\* for every request under way.
Room ==
  Count({r \in Requests : req[r].step # "idle"}) < Count({t \in Txns : txn[t].status = "unused"})

\* Variant: the draft takes the document's observation from an earlier one.
DraftsAgain(d, n) ==
  /\ Room
  /\ txn[n].status = "unused"
  /\ postable[d]
  /\ txn' = [txn EXCEPT ![n] = [status |-> "draft", doc |-> d, line |-> NoLine]]
  /\ docObs' = [docObs EXCEPT ![d] = n]
  /\ UNCHANGED <<lineObs, lineObsId, cand, postable, req, deaths>>

\* draftTransactionFromDocument.  Its own check for a live transaction runs
\* before the document is locked; document_once refuses what slips past it.
DraftFromDocument(d, n) ==
  /\ Room
  /\ txn[n].status = "unused"
  /\ \A t \in Txns : txn[t].doc = d => ~Live(t)
  /\ postable[d]
  /\ docObs[d] = NoTxn
  /\ txn' = [txn EXCEPT ![n] = [status |-> "draft", doc |-> d, line |-> NoLine]]
  /\ docObs' = [docObs EXCEPT ![d] = n]
  /\ UNCHANGED <<lineObs, lineObsId, cand, postable, req, deaths>>

PostTransaction(t) ==
  /\ txn[t].status = "draft"
  /\ txn' = [txn EXCEPT ![t].status = "posted"]
  /\ UNCHANGED <<docObs, lineObs, lineObsId, cand, postable, req, deaths>>

\* A person confirms the document (or corrects its lines), or edits it back.
Confirm(d) ==
  /\ ~postable[d]
  /\ postable' = [postable EXCEPT ![d] = TRUE]
  /\ UNCHANGED <<ledgerVars, cand, req, deaths>>

Reopen(d) ==
  /\ d \in Reopened /\ postable[d]
  /\ postable' = [postable EXCEPT ![d] = FALSE]
  /\ UNCHANGED <<ledgerVars, cand, req, deaths>>

---------------------------------------------------------------------------
(* Candidates                                                              *)

\* listCandidates: the pair is open on both sides and has no row yet.
Suggest(d, l) ==
  /\ \A k \in Lines : ~Linked(d, k)
  /\ \A e \in Docs : ~Linked(e, l)
  /\ cand[<<d, l>>] = "none"
  /\ cand' = [cand EXCEPT ![<<d, l>>] = "suggested"]
  /\ UNCHANGED <<ledgerVars, postable, req, deaths>>

Begin(r, step, d, l, id) ==
  /\ req[r].step = "idle"
  /\ Room
  /\ req' = [req EXCEPT ![r] = [step |-> step, doc |-> d, line |-> l, id |-> id]]

Goto(r, step) == req' = [req EXCEPT ![r].step = step]
Done(r) == req' = [req EXCEPT ![r] = Idle]

Pair(r) == <<req[r].doc, req[r].line>>
Decide(p, status) == cand' = [cand EXCEPT ![p] = status]

BeginAccept(r, d, l) ==
  /\ cand[<<d, l>>] = "suggested"
  /\ Begin(r, "merge", d, l, 0)
  /\ UNCHANGED <<ledgerVars, cand, postable, deaths>>

\* manualLink's upsert: a pair that has a row keeps its status.
BeginManualLink(r, d, l) ==
  /\ Decide(<<d, l>>, IF cand[<<d, l>>] = "none" THEN "suggested" ELSE cand[<<d, l>>])
  /\ Begin(r, "merge", d, l, 0)
  /\ UNCHANGED <<ledgerVars, postable, deaths>>

\* supersedeAndDecide: the merge, and in a later transaction the decision.
Merge(r) ==
  /\ req[r].step = "merge"
  /\ \E n \in Txns : SupersedeAndPost(req[r].doc, req[r].line, n)
  /\ Goto(r, "decide")
  /\ UNCHANGED <<cand, postable, deaths>>

\* The document is not confirmed, the amounts disagree, or the commit is
\* refused: the candidate stays as it was.
MergeRefused(r) ==
  /\ req[r].step = "merge"
  /\ Done(r)
  /\ UNCHANGED <<ledgerVars, cand, postable, deaths>>

DecideAccepted(r) ==
  /\ req[r].step = "decide"
  /\ Decide(Pair(r), "accepted")
  /\ Done(r)
  /\ UNCHANGED <<ledgerVars, postable, deaths>>

\* rejectCandidate reads the status and writes it without a lock.
BeginReject(r, d, l) ==
  /\ cand[<<d, l>>] = "suggested"
  /\ Begin(r, "reject", d, l, 0)
  /\ UNCHANGED <<ledgerVars, cand, postable, deaths>>

Reject(r) ==
  /\ req[r].step = "reject"
  /\ Decide(Pair(r), "rejected")
  /\ Done(r)
  /\ UNCHANGED <<ledgerVars, postable, deaths>>

---------------------------------------------------------------------------
(* Unlink and the standalone post                                          *)

\* Variant: a line that was posted standalone is unlinked too.
UnlinksStandalone(r, l) ==
  /\ lineObs[l] # NoTxn
  /\ Begin(r, "check", txn[lineObs[l]].doc, l, lineObsId[l])
  /\ UNCHANGED <<ledgerVars, cand, postable, deaths>>

\* The observation, and the document of the transaction it observes.
BeginUnlink(r, l) ==
  /\ lineObs[l] # NoTxn
  /\ txn[lineObs[l]].doc # NoDoc
  /\ Begin(r, "check", txn[lineObs[l]].doc, l, lineObsId[l])
  /\ UNCHANGED <<ledgerVars, cand, postable, deaths>>

CheckUnlink(r) ==
  /\ req[r].step = "check"
  /\ IF cand[Pair(r)] = "accepted" THEN Goto(r, "delete") ELSE Done(r)
  /\ UNCHANGED <<ledgerVars, cand, postable, deaths>>

\* Variant: unlinking only takes the observation away.
DeletesOnly(r) ==
  /\ req[r].step = "delete"
  /\ lineObs[req[r].line] # NoTxn /\ lineObsId[req[r].line] = req[r].id
  /\ lineObs' = [lineObs EXCEPT ![req[r].line] = NoTxn]
  /\ lineObsId' = [lineObsId EXCEPT ![req[r].line] = @ + 1]
  /\ Decide(Pair(r), "unlinked")
  /\ Done(r)
  /\ UNCHANGED <<txn, docObs, postable, deaths>>

\* The row is deleted by its id; a later observation of the line has another.
DeleteObservation(r) ==
  /\ req[r].step = "delete"
  /\ LET l == req[r].line
         gone == lineObs[l] # NoTxn /\ lineObsId[l] = req[r].id
     IN  /\ lineObs' = IF gone THEN [lineObs EXCEPT ![l] = NoTxn] ELSE lineObs
         /\ lineObsId' = IF gone THEN [lineObsId EXCEPT ![l] = @ + 1] ELSE lineObsId
  /\ Decide(Pair(r), "unlinked")
  /\ req' = [req EXCEPT ![r].step = "rebook", ![r].line = NoLine]
  /\ UNCHANGED <<txn, docObs, postable, deaths>>

\* The remaining evidence is materialised again, in a transaction of its own.
Rebook(r) ==
  /\ req[r].step = "rebook"
  /\ \E n \in Txns : SupersedeAndPost(req[r].doc, NoLine, n)
  /\ Done(r)
  /\ UNCHANGED <<cand, postable, deaths>>

RebookRefused(r) ==
  /\ req[r].step = "rebook"
  /\ ~postable[req[r].doc] \/ ~MayVoid(req[r].doc, NoLine)
  /\ Done(r)
  /\ UNCHANGED <<ledgerVars, cand, postable, deaths>>

\* postStatementLineStandalone: its check, then supersedeAndPost.
BeginStandalone(r, l) ==
  /\ lineObs[l] = NoTxn
  /\ Begin(r, "post", NoDoc, l, 0)
  /\ UNCHANGED <<ledgerVars, cand, postable, deaths>>

PostStandalone(r) ==
  /\ req[r].step = "post"
  /\ \E n \in Txns : SupersedeAndPost(NoDoc, req[r].line, n)
  /\ Done(r)
  /\ UNCHANGED <<cand, postable, deaths>>

StandaloneRefused(r) ==
  /\ req[r].step = "post"
  /\ ~MayVoid(NoDoc, req[r].line)
  /\ Done(r)
  /\ UNCHANGED <<ledgerVars, cand, postable, deaths>>

\* The process stops, or a database call fails, between two transactions.
Dies(r) ==
  /\ req[r].step # "idle"
  /\ deaths < MaxDeaths
  /\ deaths' = deaths + 1
  /\ Done(r)
  /\ UNCHANGED <<ledgerVars, cand, postable>>

---------------------------------------------------------------------------

Asks(r) ==
  \/ \E d \in Docs, l \in Lines :
       BeginAccept(r, d, l) \/ BeginManualLink(r, d, l) \/ BeginReject(r, d, l)
  \/ \E l \in Lines : BeginUnlink(r, l) \/ BeginStandalone(r, l)

Runs(r) ==
  \/ Merge(r) \/ MergeRefused(r) \/ DecideAccepted(r) \/ Reject(r)
  \/ CheckUnlink(r) \/ DeleteObservation(r) \/ Rebook(r) \/ RebookRefused(r)
  \/ PostStandalone(r) \/ StandaloneRefused(r)

Elsewhere ==
  \/ \E d \in Docs, n \in Txns : DraftFromDocument(d, n)
  \/ \E t \in Txns : PostTransaction(t)
  \/ \E d \in Docs : Confirm(d) \/ Reopen(d)
  \/ \E d \in Docs, l \in Lines : Suggest(d, l)

Next == Elsewhere \/ \E r \in Requests : Asks(r) \/ Runs(r) \/ Dies(r)

Spec == Init /\ [][Next]_vars

\* A request that has started runs on to its end.
FairSpec == Spec /\ \A r \in Requests : WF_vars(Runs(r))

---------------------------------------------------------------------------
(* Properties                                                              *)

\* An observation points at a live transaction whose splits came from that
\* very evidence, whatever requests raced to book it (0032, supersedeAndPost).
ObservedIsMaterialised ==
  /\ \A d \in Docs : docObs[d] # NoTxn => Live(docObs[d]) /\ txn[docObs[d]].doc = d
  /\ \A l \in Lines : lineObs[l] # NoTxn => Live(lineObs[l]) /\ txn[lineObs[l]].line = l

\* A receipt is in the books once: no two live transactions are built from it
\* (a second draft, a draft against a merge, two merges of one receipt).
DocumentCountedOnce ==
  \A t, u \in Txns :
    Live(t) /\ Live(u) /\ txn[t].doc \in Docs /\ txn[t].doc = txn[u].doc => t = u

\* A transaction still built from a line that it no longer observes.
Stale(t) == Live(t) /\ txn[t].line \in Lines /\ lineObs[txn[t].line] # t

\* The books follow the evidence: a transaction that still counts a line an
\* unlink has taken away is voided.  Two things excuse one that is not: a request
\* was cut off, or its receipt was withdrawn and cannot be posted alone.
StaleIsVoided ==
  \A t \in Txns :
    Stale(t) ~> txn[t].status = "void" \/ deaths > 0 \/ txn[t].doc \in Reopened

\* A request that has taken an observation from receipt d has yet to rebook it.
Rebooks(d) == \E r \in Requests : req[r].step = "rebook" /\ req[r].doc = d

\* As long as a transaction counts a line that an unlink has taken away, the
\* unlink that will void it is on its way, though the two are transactions of
\* their own and any merge, post or other unlink may come between them.
StaleIsSeenTo ==
  \A t \in Txns : Stale(t) => Rebooks(txn[t].doc) \/ deaths > 0 \/ txn[t].doc \in Reopened

\* A pair a person has decided is never a suggestion again.
NeverResuggested ==
  [][\A p \in Docs \X Lines :
       cand[p] \notin {"none", "suggested"} => cand'[p] # "suggested"]_vars

\* The promise of the register: one event per receipt and per line, and only
\* evidence that is free on both sides is matched.
Register == INSTANCE EvidenceRegister WITH
  booked  <- {d \in Docs : docObs[d] # NoTxn},
  cleared <- {l \in Lines : lineObs[l] # NoTxn},
  matched <- {p \in Docs \X Lines : Linked(p[1], p[2])}

KeepsRegister == Register!Spec

=============================================================================
