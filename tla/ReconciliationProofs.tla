------------------------- MODULE ReconciliationProofs -------------------------
(***************************************************************************)
(* Proofs about Reconciliation, for every number of documents, lines,      *)
(* transactions, requests and failures.                                    *)
(***************************************************************************)
EXTENDS Reconciliation, TLAPS

\* A superseded ledger is well typed, whichever evidence it was given.
LEMMA SupersedeType ==
  ASSUME TypeOK, NEW d \in Docs \cup {NoDoc}, NEW l \in Lines \cup {NoLine},
         NEW n \in Txns, SupersedeAndPost(d, l, n)
  PROVE  /\ txn' \in [Txns -> TxnRecord]
         /\ docObs' \in [Docs -> Txns \cup {NoTxn}]
         /\ lineObs' \in [Lines -> Txns \cup {NoTxn}]
         /\ lineObsId' = lineObsId
<1>1. \A t \in Txns : txn[t] \in TxnRecord /\ [txn[t] EXCEPT !.status = "void"] \in TxnRecord
  BY DEF TypeOK, TxnRecord
<1>2. [status |-> "posted", doc |-> d, line |-> l] \in TxnRecord
  BY DEF TxnRecord
<1> QED
  BY <1>1, <1>2 DEF SupersedeAndPost, TypeOK

\* Every step of a request, of the ledger and of the candidates keeps the
\* types of the tables and of what a request has read.
LEMMA TypeStep ==
  ASSUME TypeOK, [Next]_vars PROVE TypeOK'
<1>0. MaxDeaths \in Nat /\ Idle \in RequestRecord
  BY ConstantsAssumption DEF Idle, RequestRecord, Steps
<1> USE <1>0 DEF TypeOK, ledgerVars, Statuses
<1>1. CASE Elsewhere
  <2>1. ASSUME NEW d \in Docs, NEW n \in Txns, DraftFromDocument(d, n) PROVE TypeOK'
    <3>1. [status |-> "draft", doc |-> d, line |-> NoLine] \in TxnRecord
      BY DEF TxnRecord
    <3> QED BY <2>1, <3>1 DEF DraftFromDocument
  <2>2. ASSUME NEW t \in Txns, PostTransaction(t) PROVE TypeOK'
    <3>0. txn[t] \in TxnRecord
      OBVIOUS
    <3>1. [txn[t] EXCEPT !.status = "posted"] \in TxnRecord
      BY <3>0 DEF TxnRecord
    <3> QED BY <2>2, <3>1 DEF PostTransaction
  <2>3. ASSUME NEW d \in Docs, Confirm(d) \/ Reopen(d) PROVE TypeOK'
    BY <2>3 DEF Confirm, Reopen
  <2>4. ASSUME NEW d \in Docs, NEW l \in Lines, Suggest(d, l) PROVE TypeOK'
    <3>1. cand' = [cand EXCEPT ![<<d, l>>] = "suggested"]
      BY <2>4 DEF Suggest
    <3>2. cand' \in [Docs \X Lines -> Statuses]
      BY <3>1
    <3> QED BY <2>4, <3>2 DEF Suggest
  <2> QED
    BY <1>1, <2>1, <2>2, <2>3, <2>4 DEF Elsewhere
<1>2. ASSUME NEW r \in Requests, Asks(r) PROVE TypeOK'
  <2>1. ASSUME NEW step \in {"merge", "reject", "check"}, NEW d \in Docs, NEW l \in Lines,
               NEW id \in Nat, Begin(r, step, d, l, id),
               cand' \in [Docs \X Lines -> Statuses],
               UNCHANGED <<ledgerVars, postable, deaths>>
        PROVE TypeOK'
    <3>1. [step |-> step, doc |-> d, line |-> l, id |-> id] \in RequestRecord
      BY DEF RequestRecord, Steps
    <3> QED BY <2>1, <3>1 DEF Begin
  <2>2. ASSUME NEW d \in Docs, NEW l \in Lines,
               BeginAccept(r, d, l) \/ BeginManualLink(r, d, l) \/ BeginReject(r, d, l)
        PROVE TypeOK'
    BY <2>1, <2>2 DEF BeginAccept, BeginManualLink, BeginReject, Decide
  <2>3. ASSUME NEW l \in Lines, BeginUnlink(r, l) PROVE TypeOK'
    <3>1. txn[lineObs[l]].doc \in Docs
      BY <2>3 DEF BeginUnlink, TxnRecord
    <3> QED BY <2>1, <2>3, <3>1 DEF BeginUnlink
  <2>4. ASSUME NEW l \in Lines, BeginStandalone(r, l) PROVE TypeOK'
    <3>1. [step |-> "post", doc |-> NoDoc, line |-> l, id |-> 0] \in RequestRecord
      BY DEF RequestRecord, Steps
    <3> QED BY <2>4, <3>1 DEF BeginStandalone, Begin
  <2> QED
    BY <1>2, <2>2, <2>3, <2>4 DEF Asks
<1>3. ASSUME NEW r \in Requests, Runs(r) PROVE TypeOK'
  <2>1. req[r] \in RequestRecord
    OBVIOUS
  <2>2. CASE Merge(r)
    <3>1. PICK n \in Txns : SupersedeAndPost(req[r].doc, req[r].line, n)
      BY <2>2 DEF Merge
    <3>2. req[r].doc \in Docs /\ req[r].line \in Lines
      BY <2>2 DEF Merge
    <3>3. [req[r] EXCEPT !.step = "decide"] \in RequestRecord
      BY DEF RequestRecord, Steps
    <3> QED BY <2>1, <2>2, <3>1, <3>2, <3>3, SupersedeType DEF Merge, Goto
  <2>3. CASE MergeRefused(r) \/ RebookRefused(r) \/ StandaloneRefused(r)
    BY <2>3 DEF MergeRefused, RebookRefused, StandaloneRefused, Done, Idle
  <2>4. CASE DecideAccepted(r) \/ Reject(r)
    BY <2>4 DEF DecideAccepted, Reject, Done, Idle, Decide
  <2>5. CASE CheckUnlink(r)
    <3>1. [req[r] EXCEPT !.step = "delete"] \in RequestRecord
      BY DEF RequestRecord, Steps
    <3>2. CASE Goto(r, "delete")
      <4>1. /\ req' \in [Requests -> RequestRecord]
            /\ \A q \in Requests : req'[q].doc = req[q].doc /\ req'[q].line = req[q].line
            /\ \A q \in Requests : req'[q].step # req[q].step => q = r
        BY <2>1, <3>1, <3>2 DEF Goto
      <4> QED BY <2>5, <4>1 DEF CheckUnlink
    <3>3. CASE Done(r)
      BY <2>5, <3>3 DEF CheckUnlink, Done, Idle
    <3> QED BY <2>5, <3>2, <3>3 DEF CheckUnlink
  <2>6. CASE DeleteObservation(r)
    <3>1. [req[r] EXCEPT !.step = "rebook", !.line = NoLine] \in RequestRecord
      BY DEF RequestRecord, Steps
    <3>2. req' = [req EXCEPT ![r] = [req[r] EXCEPT !.step = "rebook", !.line = NoLine]]
      BY <2>6 DEF DeleteObservation
    <3>3. /\ lineObs' \in [Lines -> Txns \cup {NoTxn}] /\ lineObsId' \in [Lines -> Nat]
          /\ cand' \in [Docs \X Lines -> Statuses]
          /\ UNCHANGED <<txn, docObs, postable, deaths>>
      <4>1. req[r].doc \in Docs /\ req[r].line \in Lines
        BY <2>6 DEF DeleteObservation
      <4>2. lineObs' \in [Lines -> Txns \cup {NoTxn}]
        BY <2>6, <4>1 DEF DeleteObservation
      <4>3. lineObsId' \in [Lines -> Nat]
        BY <2>6, <4>1 DEF DeleteObservation
      <4>4. cand' = [cand EXCEPT ![<<req[r].doc, req[r].line>>] = "unlinked"]
        BY <2>6 DEF DeleteObservation, Decide, Pair
      <4>5. cand' \in [Docs \X Lines -> Statuses]
        BY <4>4
      <4> QED BY <2>6, <4>2, <4>3, <4>5 DEF DeleteObservation
    <3>4. /\ req' \in [Requests -> RequestRecord]
          /\ req'[r].step = "rebook" /\ req'[r].doc = req[r].doc
          /\ \A q \in Requests \ {r} : req'[q] = req[q]
      BY <2>1, <3>1, <3>2
    <3>5. req[r].doc \in Docs
      BY <2>6 DEF DeleteObservation
    <3> QED BY <3>3, <3>4, <3>5
  <2>7. CASE Rebook(r)
    <3>1. PICK n \in Txns : SupersedeAndPost(req[r].doc, NoLine, n)
      BY <2>7 DEF Rebook
    <3>2. req[r].doc \in Docs
      BY <2>7 DEF Rebook
    <3>3. /\ txn' \in [Txns -> TxnRecord] /\ docObs' \in [Docs -> Txns \cup {NoTxn}]
          /\ lineObs' \in [Lines -> Txns \cup {NoTxn}] /\ lineObsId' = lineObsId
      BY <3>1, <3>2, SupersedeType
    <3> QED BY <2>7, <3>3 DEF Rebook, Done, Idle
  <2>8. CASE PostStandalone(r)
    <3>1. PICK n \in Txns : SupersedeAndPost(NoDoc, req[r].line, n)
      BY <2>8 DEF PostStandalone
    <3>2. req[r].line \in Lines
      BY <2>8 DEF PostStandalone
    <3>3. /\ txn' \in [Txns -> TxnRecord] /\ docObs' \in [Docs -> Txns \cup {NoTxn}]
          /\ lineObs' \in [Lines -> Txns \cup {NoTxn}] /\ lineObsId' = lineObsId
      BY <3>1, <3>2, SupersedeType
    <3> QED BY <2>8, <3>3 DEF PostStandalone, Done, Idle
  <2> QED
    BY <1>3, <2>2, <2>3, <2>4, <2>5, <2>6, <2>7, <2>8 DEF Runs
<1>4. ASSUME NEW r \in Requests, Dies(r) PROVE TypeOK'
  BY <1>4 DEF Dies, Done, Idle
<1>5. CASE UNCHANGED vars
  BY <1>5 DEF vars
<1> QED
  BY <1>1, <1>2, <1>3, <1>4, <1>5 DEF Next

\* The tables and the requests stay well typed in every behaviour.
THEOREM TypeCorrect == Spec => []TypeOK
<1>1. Init => TypeOK
  BY ConstantsAssumption DEF Init, TypeOK, Unused, Idle, TxnRecord, RequestRecord, Steps, Statuses
<1> QED
  BY <1>1, TypeStep, PTL DEF Spec

---------------------------------------------------------------------------
(* What the books and the observations agree on                            *)

\* A live transaction built from a receipt is the one its observation names.
LiveIsObserved ==
  \A t \in Txns : Live(t) /\ txn[t].doc \in Docs => docObs[txn[t].doc] = t

\* An unlink that has its observation's id still finds it on a transaction of
\* the receipt it read, unless another unlink took that row away first.
UnlinkFinds ==
  \A r \in Requests :
    req[r].step \in {"check", "delete"} =>
      LET l == req[r].line
      IN  /\ req[r].id <= lineObsId[l]
          /\ req[r].id = lineObsId[l] => lineObs[l] # NoTxn /\ txn[lineObs[l]].doc = req[r].doc

\* Inductive invariant.
Evidence == TypeOK /\ ObservedIsMaterialised /\ LiveIsObserved /\ UnlinkFinds

\* Superseding posts the new transaction for the evidence, voids what stood
\* for it and leaves every other observation and transaction alone.
Superseded(d, l, n) ==
  /\ txn'[n] = [status |-> "posted", doc |-> d, line |-> l] /\ Live(n)'
  /\ \A x \in Docs : docObs[x] # n /\ docObs'[x] = IF x = d THEN n ELSE docObs[x]
  /\ \A k \in Lines : lineObs[k] # n /\ lineObs'[k] = IF k = l THEN n ELSE lineObs[k]
  /\ \A t \in Txns \ {n} :
       \/ t \in Observing(d, l) /\ LeavesNothing(t, d, l) /\ ~Live(t)'
       \/ t \notin Observing(d, l) /\ txn'[t] = txn[t]

LEMMA SupersedeSteps ==
  ASSUME TypeOK, ObservedIsMaterialised, NEW d \in Docs \cup {NoDoc},
         NEW l \in Lines \cup {NoLine}, NEW n \in Txns, SupersedeAndPost(d, l, n)
  PROVE  Superseded(d, l, n)
<1>1. /\ txn'[n] = [status |-> "posted", doc |-> d, line |-> l]
      /\ \A t \in Txns \ {n} : txn'[t] = IF t \in Observing(d, l)
                                         THEN [txn[t] EXCEPT !.status = "void"] ELSE txn[t]
  BY DEF SupersedeAndPost, TypeOK
<1>2. ~Live(n)
  BY DEF SupersedeAndPost, Live
<1>3. \A t \in Txns : txn[t] \in TxnRecord
  BY DEF TypeOK
<1>4. \A t \in Txns : [txn[t] EXCEPT !.status = "void"].status = "void"
  BY <1>3 DEF TxnRecord
<1>5. Live(n)'
  BY <1>1 DEF Live
<1>6. \A t \in Txns \ {n} : t \in Observing(d, l) => LeavesNothing(t, d, l) /\ ~Live(t)'
  BY <1>1, <1>4 DEF Live, SupersedeAndPost, MayVoid
<1>7. n # NoTxn
  BY ConstantsAssumption
<1>8. \A x \in Docs : docObs[x] # n /\ docObs'[x] = IF x = d THEN n ELSE docObs[x]
  BY <1>2, <1>7 DEF ObservedIsMaterialised, SupersedeAndPost
<1>9. \A k \in Lines : lineObs[k] # n /\ lineObs'[k] = IF k = l THEN n ELSE lineObs[k]
  BY <1>2, <1>7 DEF ObservedIsMaterialised, SupersedeAndPost
<1> QED
  BY <1>1, <1>5, <1>6, <1>8, <1>9 DEF Superseded

\* What stood for the document or the line is among the transactions voided.
LEMMA ObservingHolds ==
  ASSUME TypeOK, NEW d, NEW l
  PROVE  /\ \A x \in Docs : x = d /\ docObs[x] # NoTxn => docObs[x] \in Observing(d, l)
         /\ \A k \in Lines : k = l /\ lineObs[k] # NoTxn => lineObs[k] \in Observing(d, l)
         /\ \A t \in Observing(d, l) : \/ d \in Docs /\ docObs[d] = t
                                       \/ l \in Lines /\ lineObs[l] = t
BY DEF Observing, TypeOK

\* Superseding keeps observations and transactions in agreement, and never
\* takes the receipt from under a line that has one.
LEMMA SupersedeEvidence ==
  ASSUME TypeOK, ObservedIsMaterialised, LiveIsObserved, NEW d \in Docs \cup {NoDoc},
         NEW l \in Lines \cup {NoLine}, NEW n \in Txns, SupersedeAndPost(d, l, n)
  PROVE  /\ ObservedIsMaterialised' /\ LiveIsObserved'
         /\ \A k \in Lines : lineObs[k] # NoTxn /\ txn[lineObs[k]].doc \in Docs
                               => lineObs'[k] # NoTxn /\ txn'[lineObs'[k]].doc = txn[lineObs[k]].doc
<1>0. Superseded(d, l, n)
  BY SupersedeSteps
<1> DEFINE P == [status |-> "posted", doc |-> d, line |-> l]
<1>1. n # NoTxn /\ NoDoc \notin Docs /\ NoLine \notin Lines /\ P.doc = d /\ P.line = l
  BY ConstantsAssumption
<1>2. txn'[n] = P /\ Live(n)'
  BY <1>0 DEF Superseded
<1>3. \A x \in Docs : docObs[x] # n /\ docObs'[x] = IF x = d THEN n ELSE docObs[x]
  BY <1>0 DEF Superseded
<1>4. \A k \in Lines : lineObs[k] # n /\ lineObs'[k] = IF k = l THEN n ELSE lineObs[k]
  BY <1>0 DEF Superseded
<1>5. \A t \in Txns \ {n} : \/ t \in Observing(d, l) /\ LeavesNothing(t, d, l) /\ ~Live(t)'
                            \/ t \notin Observing(d, l) /\ txn'[t] = txn[t]
  BY <1>0 DEF Superseded
<1>6. \A x \in Docs : docObs[x] \in Txns \cup {NoTxn}
  BY DEF TypeOK
<1>7. \A k \in Lines : lineObs[k] \in Txns \cup {NoTxn}
  BY DEF TypeOK
<1>8. \A t \in Txns \ {n} : txn'[t] = txn[t] => (Live(t)' <=> Live(t))
  BY DEF Live
<1> HIDE DEF P
<1>10. ASSUME NEW x \in Docs, docObs'[x] # NoTxn
       PROVE  Live(docObs[x])' /\ txn'[docObs'[x]].doc = x
  <2>1. CASE x = d
    BY <1>1, <1>2, <1>3, <2>1 DEF Live
  <2>2. CASE x # d
    <3>1. docObs'[x] = docObs[x] /\ docObs[x] \in Txns \ {n}
      BY <1>3, <1>6, <1>10, <2>2
    <3>2. ~LeavesNothing(docObs[x], d, l)
      BY <2>2 DEF LeavesNothing
    <3>3. txn'[docObs[x]] = txn[docObs[x]]
      BY <1>5, <3>1, <3>2
    <3>4. Live(docObs[x]) /\ txn[docObs[x]].doc = x
      BY <1>10, <3>1 DEF ObservedIsMaterialised
    <3> QED BY <1>8, <3>1, <3>3, <3>4 DEF Live
  <2> QED BY <2>1, <2>2
<1>11. ASSUME NEW k \in Lines, lineObs'[k] # NoTxn
       PROVE  /\ Live(lineObs[k])' /\ txn'[lineObs'[k]].line = k
              /\ k # l => lineObs'[k] = lineObs[k] /\ txn'[lineObs[k]] = txn[lineObs[k]]
  <2>1. CASE k = l
    BY <1>1, <1>2, <1>4, <2>1 DEF Live
  <2>2. CASE k # l
    <3>1. lineObs'[k] = lineObs[k] /\ lineObs[k] \in Txns \ {n}
      BY <1>4, <1>7, <1>11, <2>2
    <3>2. ~LeavesNothing(lineObs[k], d, l)
      BY <2>2 DEF LeavesNothing
    <3>3. txn'[lineObs[k]] = txn[lineObs[k]]
      BY <1>5, <3>1, <3>2
    <3>4. Live(lineObs[k]) /\ txn[lineObs[k]].line = k
      BY <1>11, <3>1 DEF ObservedIsMaterialised
    <3> QED BY <1>8, <3>1, <3>3, <3>4 DEF Live
  <2> QED BY <2>1, <2>2
<1>12. ASSUME NEW t \in Txns, Live(t)', txn'[t].doc \in Docs
       PROVE  docObs'[txn'[t].doc] = t
  <2>1. CASE t = n
    BY <1>1, <1>2, <1>3, <1>12, <2>1
  <2>2. CASE t # n
    <3>1. t \notin Observing(d, l) /\ txn'[t] = txn[t] /\ Live(t)
      BY <1>5, <1>8, <1>12, <2>2
    <3>2. docObs[txn[t].doc] = t /\ t # NoTxn
      BY <1>12, <3>1, ConstantsAssumption DEF LiveIsObserved
    <3>3. txn[t].doc # d
      BY <1>12, <3>1, <3>2, ObservingHolds
    <3> QED BY <1>3, <1>12, <3>1, <3>2, <3>3
  <2> QED BY <2>1, <2>2
<1>13. ASSUME NEW k \in Lines, lineObs[k] # NoTxn, txn[lineObs[k]].doc \in Docs
       PROVE  lineObs'[k] # NoTxn /\ txn'[lineObs'[k]].doc = txn[lineObs[k]].doc
  <2>1. lineObs'[k] # NoTxn
    BY <1>1, <1>4, <1>13
  <2>2. CASE k # l
    BY <1>11, <1>13, <2>1, <2>2
  <2>3. CASE k = l
    <3>1. lineObs[k] \in Observing(d, l) /\ lineObs[k] \in Txns
      BY <1>7, <1>13, <2>3, ObservingHolds
    <3>2. LeavesNothing(lineObs[k], d, l)
      BY <1>4, <1>5, <1>13, <3>1
    <3>3. docObs[txn[lineObs[k]].doc] = lineObs[k]
      BY <1>13, <3>1 DEF LiveIsObserved, ObservedIsMaterialised
    <3>4. d = txn[lineObs[k]].doc
      BY <1>13, <3>2, <3>3 DEF LeavesNothing
    <3> QED BY <1>1, <1>2, <1>4, <2>1, <2>3, <3>4
  <2> QED BY <2>2, <2>3
<1> QED
  BY <1>10, <1>11, <1>12, <1>13 DEF ObservedIsMaterialised, LiveIsObserved

\* No step begins an unlink: whoever is checking or deleting was before.
Carried ==
  \A q \in Requests :
    req'[q].step \in {"check", "delete"} =>
      /\ req[q].step \in {"check", "delete"}
      /\ req'[q].doc = req[q].doc /\ req'[q].line = req[q].line /\ req'[q].id = req[q].id

\* Nothing takes the receipt from under a line that has one.
ReceiptsStay ==
  \A k \in Lines : lineObs[k] # NoTxn /\ txn[lineObs[k]].doc \in Docs
                     => lineObs'[k] # NoTxn /\ txn'[lineObs'[k]].doc = txn[lineObs[k]].doc

\* What an unlink under way relies on survives such a step.
LEMMA FindsKept ==
  ASSUME TypeOK, UnlinkFinds, Carried, ReceiptsStay, lineObsId' = lineObsId
  PROVE  UnlinkFinds'
<1> SUFFICES ASSUME NEW r \in Requests, req'[r].step \in {"check", "delete"}
             PROVE  /\ req'[r].id <= lineObsId'[req'[r].line]
                    /\ req'[r].id = lineObsId'[req'[r].line]
                         => /\ lineObs'[req'[r].line] # NoTxn
                            /\ txn'[lineObs'[req'[r].line]].doc = req'[r].doc
  BY DEF UnlinkFinds
<1>1. /\ req[r].step \in {"check", "delete"}
      /\ req'[r].doc = req[r].doc /\ req'[r].line = req[r].line /\ req'[r].id = req[r].id
  BY DEF Carried
<1>2. req[r].line \in Lines /\ req[r].doc \in Docs
  BY <1>1 DEF TypeOK
<1>3. /\ req[r].id <= lineObsId[req[r].line]
      /\ req[r].id = lineObsId[req[r].line]
           => lineObs[req[r].line] # NoTxn /\ txn[lineObs[req[r].line]].doc = req[r].doc
  BY <1>1 DEF UnlinkFinds
<1> QED
  BY <1>1, <1>2, <1>3 DEF ReceiptsStay

\* Books and observations agree as long as neither changes.
LEMMA LedgerKept ==
  ASSUME Evidence, UNCHANGED ledgerVars
  PROVE  ObservedIsMaterialised' /\ LiveIsObserved' /\ ReceiptsStay
BY DEF Evidence, ledgerVars, ObservedIsMaterialised, LiveIsObserved, ReceiptsStay, Live

\* A request that supersedes leaves the evidence in agreement.
LEMMA SupersedingKeeps ==
  ASSUME Evidence, Carried, NEW d \in Docs \cup {NoDoc}, NEW l \in Lines \cup {NoLine},
         \E n \in Txns : SupersedeAndPost(d, l, n)
  PROVE  ObservedIsMaterialised' /\ LiveIsObserved' /\ UnlinkFinds'
<1>1. PICK n \in Txns : SupersedeAndPost(d, l, n)
  OBVIOUS
<1>2. TypeOK /\ ObservedIsMaterialised /\ LiveIsObserved /\ UnlinkFinds
  BY DEF Evidence
<1>3. ObservedIsMaterialised' /\ LiveIsObserved' /\ ReceiptsStay
  BY <1>1, <1>2, SupersedeEvidence DEF ReceiptsStay
<1>4. lineObsId' = lineObsId
  BY <1>1 DEF SupersedeAndPost
<1> QED
  BY <1>2, <1>3, <1>4, FindsKept

\* Every step keeps the books and the observations in agreement.
LEMMA EvidenceStep ==
  ASSUME Evidence, [Next]_vars PROVE Evidence'
<1> DEFINE Agrees == ObservedIsMaterialised /\ LiveIsObserved /\ UnlinkFinds
<1>0. TypeOK /\ TypeOK' /\ ObservedIsMaterialised /\ LiveIsObserved /\ UnlinkFinds
  BY TypeStep DEF Evidence
<1>1. ASSUME UNCHANGED ledgerVars, Carried PROVE Agrees'
  BY <1>0, <1>1, LedgerKept, FindsKept DEF ledgerVars
<1>2. ASSUME Elsewhere PROVE Agrees'
  <2>1. ASSUME NEW d \in Docs, NEW n \in Txns, DraftFromDocument(d, n) PROVE Agrees'
    <3>1. Carried /\ lineObsId' = lineObsId
      BY <2>1 DEF DraftFromDocument, Carried
    <3>2. /\ txn' = [txn EXCEPT ![n] = [status |-> "draft", doc |-> d, line |-> NoLine]]
          /\ docObs' = [docObs EXCEPT ![d] = n] /\ lineObs' = lineObs
          /\ ~Live(n) /\ n # NoTxn
      BY <2>1, ConstantsAssumption DEF DraftFromDocument, Live
    <3>3. \A t \in Txns \ {n} : txn'[t] = txn[t] /\ (Live(t)' <=> Live(t))
      BY <1>0, <3>2 DEF TypeOK, Live
    <3>4. Live(n)' /\ txn'[n].doc = d
      BY <1>0, <3>2 DEF TypeOK, Live
    <3>5. /\ \A x \in Docs : docObs[x] # n /\ docObs'[x] = IF x = d THEN n ELSE docObs[x]
          /\ \A k \in Lines : lineObs[k] # n
      BY <1>0, <3>2 DEF TypeOK, ObservedIsMaterialised
    <3>6. \A t \in Txns : Live(t) => txn[t].doc # d
      BY <2>1 DEF DraftFromDocument
    <3>7. /\ \A x \in Docs : docObs[x] \in Txns \cup {NoTxn}
          /\ \A k \in Lines : lineObs[k] \in Txns \cup {NoTxn}
      BY <1>0 DEF TypeOK
    <3>8. /\ \A x \in Docs : docObs'[x] # NoTxn => Live(docObs[x])' /\ txn'[docObs'[x]].doc = x
          /\ \A k \in Lines : lineObs[k] # NoTxn => Live(lineObs[k])' /\ txn'[lineObs[k]] = txn[lineObs[k]]
      BY <1>0, <3>2, <3>3, <3>4, <3>5, <3>7 DEF ObservedIsMaterialised, Live
    <3>9. LiveIsObserved'
      BY <1>0, <3>2, <3>3, <3>4, <3>5, <3>6 DEF LiveIsObserved
    <3>10. ReceiptsStay /\ ObservedIsMaterialised'
      BY <1>0, <3>2, <3>8 DEF ReceiptsStay, ObservedIsMaterialised, Live
    <3> QED BY <1>0, <3>1, <3>9, <3>10, FindsKept
  <2>2. ASSUME NEW t \in Txns, PostTransaction(t) PROVE Agrees'
    <3>1. /\ Carried /\ UNCHANGED <<docObs, lineObs, lineObsId>>
          /\ txn' = [txn EXCEPT ![t].status = "posted"] /\ Live(t)
      BY <2>2 DEF PostTransaction, Carried, Live
    <3>2. \A u \in Txns : txn[u] \in TxnRecord
      BY <1>0 DEF TypeOK
    <3>3. \A u \in Txns : /\ txn'[u].doc = txn[u].doc /\ txn'[u].line = txn[u].line
                          /\ Live(u)' <=> Live(u)
      BY <1>0, <3>1, <3>2 DEF TypeOK, TxnRecord, Live
    <3>4. /\ \A x \in Docs : docObs[x] \in Txns \cup {NoTxn}
          /\ \A k \in Lines : lineObs[k] \in Txns \cup {NoTxn}
      BY <1>0 DEF TypeOK
    <3>5. ObservedIsMaterialised' /\ LiveIsObserved' /\ ReceiptsStay
      BY <1>0, <3>1, <3>3, <3>4 DEF ObservedIsMaterialised, LiveIsObserved, ReceiptsStay
    <3> QED BY <1>0, <3>1, <3>5, FindsKept
  <2>3. ASSUME NEW d \in Docs, Confirm(d) \/ Reopen(d) PROVE Agrees'
    BY <1>1, <2>3 DEF Confirm, Reopen, Carried
  <2>4. ASSUME NEW d \in Docs, NEW l \in Lines, Suggest(d, l) PROVE Agrees'
    BY <1>1, <2>4 DEF Suggest, Carried
  <2> QED
    BY <1>2, <2>1, <2>2, <2>3, <2>4 DEF Elsewhere
<1>3. ASSUME NEW r \in Requests, Asks(r) PROVE Agrees'
  <2>1. ASSUME NEW step \in {"merge", "reject", "post"}, NEW d, NEW l,
               Begin(r, step, d, l, 0), UNCHANGED ledgerVars
        PROVE  Agrees'
    BY <1>0, <1>1, <2>1 DEF Begin, Carried, TypeOK
  <2>2. ASSUME NEW d \in Docs, NEW l \in Lines,
               BeginAccept(r, d, l) \/ BeginManualLink(r, d, l) \/ BeginReject(r, d, l)
        PROVE  Agrees'
    BY <2>1, <2>2 DEF BeginAccept, BeginManualLink, BeginReject
  <2>3. ASSUME NEW l \in Lines, BeginStandalone(r, l) PROVE Agrees'
    BY <2>1, <2>3 DEF BeginStandalone
  <2>4. ASSUME NEW l \in Lines, BeginUnlink(r, l) PROVE Agrees'
    <3> DEFINE q == [step |-> "check", doc |-> txn[lineObs[l]].doc, line |-> l, id |-> lineObsId[l]]
    <3>1. /\ lineObs[l] # NoTxn /\ txn[lineObs[l]].doc # NoDoc /\ UNCHANGED ledgerVars
          /\ req' = [req EXCEPT ![r] = q]
      BY <2>4 DEF BeginUnlink, Begin
    <3>2. req'[r] = q /\ \A p \in Requests \ {r} : req'[p] = req[p]
      BY <1>0, <3>1 DEF TypeOK
    <3>3. lineObs[l] \in Txns /\ txn[lineObs[l]] \in TxnRecord /\ lineObsId[l] \in Nat
      BY <1>0, <3>1 DEF TypeOK
    <3>4. txn[lineObs[l]].doc \in Docs
      BY <3>1, <3>3 DEF TxnRecord
    <3>5. UnlinkFinds'
      BY <1>0, <3>1, <3>2, <3>3, <3>4 DEF UnlinkFinds, ledgerVars
    <3> QED BY <3>1, <3>5, LedgerKept
  <2> QED
    BY <1>3, <2>2, <2>3, <2>4 DEF Asks
<1>4. ASSUME NEW r \in Requests, Runs(r) PROVE Agrees'
  <2>0. req[r] \in RequestRecord
    BY <1>0 DEF TypeOK
  <2>1. ASSUME Done(r) PROVE Carried
    BY <1>0, <2>1 DEF Done, Idle, Carried, TypeOK
  <2>2. CASE Merge(r)
    <3>1. Carried
      BY <1>0, <2>0, <2>2 DEF Merge, Goto, Carried, TypeOK, RequestRecord
    <3>2. req[r].doc \in Docs /\ req[r].line \in Lines
      BY <1>0, <2>2 DEF Merge, TypeOK
    <3> QED BY <2>2, <3>1, <3>2, SupersedingKeeps DEF Merge
  <2>3. CASE MergeRefused(r) \/ RebookRefused(r) \/ StandaloneRefused(r)
    BY <1>1, <2>1, <2>3 DEF MergeRefused, RebookRefused, StandaloneRefused
  <2>4. CASE DecideAccepted(r) \/ Reject(r)
    BY <1>1, <2>1, <2>4 DEF DecideAccepted, Reject
  <2>5. CASE CheckUnlink(r)
    <3>1. ASSUME Goto(r, "delete") PROVE Carried
      BY <1>0, <2>0, <2>5, <3>1 DEF CheckUnlink, Goto, Carried, TypeOK, RequestRecord
    <3>2. UNCHANGED ledgerVars /\ Carried
      BY <2>1, <2>5, <3>1 DEF CheckUnlink
    <3> QED BY <1>1, <3>2
  <2>6. CASE DeleteObservation(r)
    <3> DEFINE l == req[r].line
               gone == lineObs[l] # NoTxn /\ lineObsId[l] = req[r].id
    <3>1. /\ req[r].step = "delete" /\ UNCHANGED <<txn, docObs>>
          /\ lineObs' = IF gone THEN [lineObs EXCEPT ![l] = NoTxn] ELSE lineObs
          /\ lineObsId' = IF gone THEN [lineObsId EXCEPT ![l] = @ + 1] ELSE lineObsId
          /\ req' = [req EXCEPT ![r].step = "rebook", ![r].line = NoLine]
      BY <2>6 DEF DeleteObservation
    <3>2. Carried
      BY <1>0, <2>0, <3>1 DEF Carried, TypeOK, RequestRecord
    <3>3. l \in Lines
      BY <1>0, <3>1 DEF TypeOK
    <3>4. CASE ~gone
      BY <1>1, <3>1, <3>2, <3>4 DEF ledgerVars
    <3>5. CASE gone
      <4>1. /\ lineObs'[l] = NoTxn /\ lineObsId'[l] = lineObsId[l] + 1
            /\ \A k \in Lines \ {l} : lineObs'[k] = lineObs[k] /\ lineObsId'[k] = lineObsId[k]
        BY <1>0, <3>1, <3>3, <3>5 DEF TypeOK
      <4>2. ObservedIsMaterialised' /\ LiveIsObserved'
        BY <1>0, <3>1, <4>1 DEF ObservedIsMaterialised, LiveIsObserved, Live
      <4>3. \A q \in Requests : req[q].id \in Nat
        BY <1>0 DEF TypeOK, RequestRecord
      <4>4. \A q \in Requests : req'[q].step \in {"check", "delete"} => req[q].line \in Lines
        BY <1>0, <3>2 DEF TypeOK, Carried
      <4>5. lineObsId[l] \in Nat
        BY <1>0, <3>3 DEF TypeOK
      <4>6. ASSUME NEW q \in Requests, req'[q].step \in {"check", "delete"}
            PROVE  /\ req'[q].id <= lineObsId'[req'[q].line]
                   /\ req'[q].id = lineObsId'[req'[q].line]
                        => /\ lineObs'[req'[q].line] # NoTxn
                           /\ txn'[lineObs'[req'[q].line]].doc = req'[q].doc
        <5>1. /\ req[q].step \in {"check", "delete"}
              /\ req'[q].doc = req[q].doc /\ req'[q].line = req[q].line /\ req'[q].id = req[q].id
          BY <3>2, <4>6 DEF Carried
        <5>2. /\ req[q].id <= lineObsId[req[q].line]
              /\ req[q].id = lineObsId[req[q].line]
                   => lineObs[req[q].line] # NoTxn /\ txn[lineObs[req[q].line]].doc = req[q].doc
          BY <1>0, <5>1 DEF UnlinkFinds
        <5>3. CASE req[q].line = l
          BY <4>1, <4>3, <4>5, <5>1, <5>2, <5>3
        <5>4. CASE req[q].line # l
          BY <3>1, <4>1, <4>4, <4>6, <5>1, <5>2, <5>4
        <5> QED BY <5>3, <5>4
      <4> QED BY <4>2, <4>6 DEF UnlinkFinds
    <3> QED BY <3>4, <3>5
  <2>7. CASE Rebook(r)
    <3>1. req[r].doc \in Docs
      BY <1>0, <2>7 DEF Rebook, TypeOK
    <3> QED BY <2>1, <2>7, <3>1, SupersedingKeeps DEF Rebook
  <2>8. CASE PostStandalone(r)
    <3>1. req[r].line \in Lines
      BY <1>0, <2>8 DEF PostStandalone, TypeOK
    <3> QED BY <2>1, <2>8, <3>1, SupersedingKeeps DEF PostStandalone
  <2> QED
    BY <1>4, <2>2, <2>3, <2>4, <2>5, <2>6, <2>7, <2>8 DEF Runs
<1>5. ASSUME NEW r \in Requests, Dies(r) PROVE Agrees'
  <2>1. Carried
    BY <1>0, <1>5 DEF Dies, Done, Idle, Carried, TypeOK
  <2> QED BY <1>1, <1>5, <2>1 DEF Dies
<1>6. ASSUME UNCHANGED vars PROVE Agrees'
  BY <1>1, <1>6 DEF vars, Carried, ledgerVars
<1>7. Agrees'
  BY <1>2, <1>3, <1>4, <1>5, <1>6 DEF Next
<1> QED
  BY <1>0, <1>7 DEF Evidence

\* Books and observations agree in every behaviour.
THEOREM EvidenceHolds == Spec => []Evidence
<1>1. Init => Evidence
  <2>1. ASSUME Init PROVE TypeOK
    BY <2>1, ConstantsAssumption
       DEF Init, TypeOK, Unused, Idle, TxnRecord, RequestRecord, Steps, Statuses
  <2>2. ASSUME Init PROVE ObservedIsMaterialised /\ LiveIsObserved /\ UnlinkFinds
    BY <2>2 DEF Init, Unused, Idle, ObservedIsMaterialised, LiveIsObserved, UnlinkFinds, Live
  <2> QED
    BY <2>1, <2>2 DEF Evidence
<1> QED
  BY <1>1, EvidenceStep, PTL DEF Spec

\* Every observation is of a live transaction built from that evidence.
THEOREM ObservedCorrect == Spec => []ObservedIsMaterialised
<1>1. Evidence => ObservedIsMaterialised
  BY DEF Evidence
<1> QED
  BY <1>1, EvidenceHolds, PTL

\* No receipt is counted by two live transactions.
THEOREM CountedOnce == Spec => []DocumentCountedOnce
<1>1. Evidence => DocumentCountedOnce
  BY DEF Evidence, LiveIsObserved, DocumentCountedOnce
<1> QED
  BY <1>1, EvidenceHolds, PTL

---------------------------------------------------------------------------
(* Unlinks that are not through                                            *)

\* What is in the books from a receipt could be posted, unless it is one that
\* may be withdrawn.
PostedIsPostable ==
  \A t \in Txns : Live(t) /\ txn[t].doc \in Docs \ Reopened => postable[txn[t].doc]

\* No transaction turns stale.
StaleStays == \A t \in Txns : Stale(t)' => Stale(t) /\ txn'[t].doc = txn[t].doc

\* Every rebook under way stays so.
RebooksStay == \A d \in Docs : Rebooks(d) => Rebooks(d)'

LEMMA SeenToKept ==
  ASSUME TypeOK, StaleIsSeenTo, StaleStays, RebooksStay, UNCHANGED deaths
  PROVE  StaleIsSeenTo'
<1> SUFFICES ASSUME NEW t \in Txns, Stale(t)', ~(deaths' > 0), txn'[t].doc \notin Reopened
             PROVE  Rebooks(txn[t].doc)'
  BY DEF StaleIsSeenTo
<1>1. Stale(t) /\ txn'[t].doc = txn[t].doc
  BY DEF StaleStays
<1>2. Rebooks(txn[t].doc)
  BY <1>1 DEF StaleIsSeenTo
<1>3. txn[t].doc \in Docs
  BY <1>2 DEF TypeOK, Rebooks
<1>4. Rebooks(txn[t].doc)'
  BY <1>1, <1>2, <1>3 DEF RebooksStay, Rebooks
<1> QED BY <1>4

\* A step of a request that does not end its rebook.
LEMMA OthersRebook ==
  ASSUME TypeOK, NEW r \in Requests, req[r].step # "rebook" \/ req'[r].step = "rebook",
         \A q \in Requests \ {r} : req'[q] = req[q],
         req[r].step = "rebook" => req'[r].doc = req[r].doc
  PROVE  RebooksStay
BY DEF RebooksStay, Rebooks

\* Superseding leaves nothing stale of the document it posts.
LEMMA SupersedeStale ==
  ASSUME Evidence, PostedIsPostable, NEW d \in Docs \cup {NoDoc}, NEW l \in Lines \cup {NoLine},
         NEW n \in Txns, SupersedeAndPost(d, l, n), UNCHANGED postable
  PROVE  /\ StaleStays /\ PostedIsPostable'
         /\ \A t \in Txns : Stale(t)' /\ d \in Docs => txn[t].doc # d
<1>0. TypeOK /\ ObservedIsMaterialised /\ LiveIsObserved /\ Superseded(d, l, n) /\ n # NoTxn
  BY SupersedeSteps, ConstantsAssumption DEF Evidence
<1> DEFINE P == [status |-> "posted", doc |-> d, line |-> l]
<1>1. P.doc = d /\ P.line = l /\ txn'[n] = P /\ Live(n)'
  BY <1>0 DEF Superseded
<1> HIDE DEF P
<1>2. \A k \in Lines : lineObs'[k] = IF k = l THEN n ELSE lineObs[k]
  BY <1>0 DEF Superseded
<1>3. \A t \in Txns \ {n} : Live(t)' => t \notin Observing(d, l) /\ txn'[t] = txn[t] /\ Live(t)
  BY <1>0 DEF Superseded, Live
<1>4. d \in Docs => postable[d]
  BY DEF SupersedeAndPost
<1>5. ASSUME NEW t \in Txns, Stale(t)'
      PROVE  Stale(t) /\ txn'[t].doc = txn[t].doc /\ (d \in Docs => txn[t].doc # d)
  <2>1. t # n
    BY <1>1, <1>2, <1>5 DEF Stale
  <2>2. t \notin Observing(d, l) /\ txn'[t] = txn[t] /\ Live(t)
    BY <1>3, <1>5, <2>1 DEF Stale
  <2>3. txn[t].line \in Lines /\ lineObs'[txn[t].line] # t /\ t # NoTxn
    BY <1>5, <2>2, ConstantsAssumption DEF Stale
  <2>4. lineObs[txn[t].line] # t
    BY <1>0, <1>2, <2>2, <2>3, ObservingHolds
  <2>5. d \in Docs /\ txn[t].doc = d => docObs[d] = t
    BY <1>0, <2>2 DEF LiveIsObserved
  <2>6. d \in Docs => txn[t].doc # d
    BY <1>0, <2>2, <2>3, <2>5, ObservingHolds
  <2> QED BY <2>2, <2>3, <2>4, <2>6 DEF Stale
<1>6. PostedIsPostable'
  BY <1>1, <1>3, <1>4 DEF PostedIsPostable
<1> QED BY <1>5, <1>6 DEF StaleStays

\* A refused rebook of a stale transaction was of a withdrawn receipt.
LEMMA RefusedWasWithdrawn ==
  ASSUME Evidence, PostedIsPostable, NEW r \in Requests, RebookRefused(r),
         NEW t \in Txns, Stale(t), txn[t].doc = req[r].doc
  PROVE  txn[t].doc \in Reopened
<1>1. req[r].doc \in Docs /\ TypeOK /\ ObservedIsMaterialised /\ LiveIsObserved /\ t # NoTxn
  BY ConstantsAssumption DEF RebookRefused, Evidence, TypeOK
<1>2. Observing(req[r].doc, NoLine) \subseteq {t}
  BY <1>1, ObservingHolds, ConstantsAssumption DEF LiveIsObserved, Stale
<1>3. LeavesNothing(t, req[r].doc, NoLine)
  BY <1>1, ConstantsAssumption DEF LeavesNothing, ObservedIsMaterialised, Stale
<1>4. ~postable[req[r].doc]
  BY <1>2, <1>3 DEF RebookRefused, MayVoid
<1> QED BY <1>1, <1>4 DEF PostedIsPostable, Stale

\* The inductive invariant.
SeenTo == Evidence /\ PostedIsPostable /\ StaleIsSeenTo

LEMMA SeenToStep ==
  ASSUME SeenTo, [Next]_vars PROVE SeenTo'
<1> DEFINE Inv == PostedIsPostable /\ StaleIsSeenTo
<1>0. TypeOK /\ Evidence /\ ObservedIsMaterialised /\ UnlinkFinds /\ PostedIsPostable /\ StaleIsSeenTo
  BY DEF SeenTo, Evidence
<1>1. ASSUME UNCHANGED <<txn, lineObs>>, \A d \in Docs : postable[d] => postable'[d] \/ d \in Reopened
      PROVE  PostedIsPostable' /\ StaleStays
  BY <1>0, <1>1 DEF PostedIsPostable, StaleStays, Stale, Live
<1>2. ASSUME UNCHANGED req PROVE RebooksStay
  BY <1>2 DEF RebooksStay, Rebooks
<1>3. ASSUME Elsewhere PROVE Inv'
  <2>1. UNCHANGED <<req, deaths>>
    BY <1>3 DEF Elsewhere, DraftFromDocument, PostTransaction, Confirm, Reopen, Suggest
  <2>2. ASSUME NEW d \in Docs, NEW n \in Txns, DraftFromDocument(d, n) PROVE PostedIsPostable' /\ StaleStays
    <3> DEFINE P == [status |-> "draft", doc |-> d, line |-> NoLine]
    <3>1. P.doc = d /\ P.line = NoLine /\ NoLine \notin Lines
      BY ConstantsAssumption
    <3>2. txn'[n] = P /\ \A t \in Txns \ {n} : txn'[t] = txn[t]
      BY <1>0, <2>2 DEF DraftFromDocument, TypeOK
    <3> HIDE DEF P
    <3>3. postable[d] /\ UNCHANGED <<postable, lineObs>>
      BY <2>2 DEF DraftFromDocument
    <3> QED BY <1>0, <3>1, <3>2, <3>3 DEF PostedIsPostable, StaleStays, Stale, Live
  <2>3. ASSUME NEW t \in Txns, PostTransaction(t) PROVE PostedIsPostable' /\ StaleStays
    <3>1. \A u \in Txns : txn[u] \in TxnRecord
      BY <1>0 DEF TypeOK
    <3>2. \A u \in Txns : /\ txn'[u].doc = txn[u].doc /\ txn'[u].line = txn[u].line
                          /\ Live(u)' => Live(u)
      BY <1>0, <2>3, <3>1 DEF PostTransaction, TypeOK, TxnRecord, Live
    <3>3. UNCHANGED <<postable, lineObs>>
      BY <2>3 DEF PostTransaction
    <3> QED BY <1>0, <3>2, <3>3 DEF PostedIsPostable, StaleStays, Stale
  <2>4. ASSUME NEW d \in Docs, Confirm(d) \/ Reopen(d) PROVE PostedIsPostable' /\ StaleStays
    BY <1>0, <1>1, <2>4 DEF Confirm, Reopen, ledgerVars, TypeOK
  <2>5. ASSUME NEW d \in Docs, NEW l \in Lines, Suggest(d, l) PROVE PostedIsPostable' /\ StaleStays
    BY <1>1, <2>5 DEF Suggest, ledgerVars
  <2>6. PostedIsPostable' /\ StaleStays
    BY <1>3, <2>2, <2>3, <2>4, <2>5 DEF Elsewhere
  <2> QED BY <1>0, <1>2, <2>1, <2>6, SeenToKept
<1>4. ASSUME NEW r \in Requests, Asks(r) PROVE Inv'
  <2>1. req[r].step = "idle" /\ \A q \in Requests \ {r} : req'[q] = req[q]
    BY <1>0, <1>4 DEF Asks, BeginAccept, BeginManualLink, BeginReject, BeginUnlink, BeginStandalone,
       Begin, TypeOK
  <2>2. UNCHANGED <<ledgerVars, postable, deaths>>
    BY <1>4 DEF Asks, BeginAccept, BeginManualLink, BeginReject, BeginUnlink, BeginStandalone
  <2> QED BY <1>0, <1>1, <2>1, <2>2, OthersRebook, SeenToKept DEF ledgerVars
<1>5. ASSUME NEW r \in Requests, Runs(r) PROVE Inv'
  <2>0. \A q \in Requests \ {r} : req'[q] = req[q]
    BY <1>0, <1>5 DEF Runs, Merge, MergeRefused, DecideAccepted, Reject, CheckUnlink, DeleteObservation,
       Rebook, RebookRefused, PostStandalone, StandaloneRefused, Goto, Done, TypeOK
  <2>1. CASE Merge(r) \/ PostStandalone(r)
    <3>1. RebooksStay /\ UNCHANGED <<postable, deaths>>
      BY <1>0, <2>0, <2>1, OthersRebook DEF Merge, PostStandalone
    <3>2. PICK d \in Docs \cup {NoDoc}, l \in Lines, n \in Txns : SupersedeAndPost(d, l, n)
      BY <1>0, <2>1 DEF Merge, PostStandalone, TypeOK
    <3>3. StaleStays /\ PostedIsPostable'
      BY <1>0, <3>1, <3>2, SupersedeStale
    <3> QED BY <1>0, <3>1, <3>3, SeenToKept
  <2>2. CASE Rebook(r)
    <3>1. req[r].doc \in Docs /\ UNCHANGED <<postable, deaths>>
      BY <1>0, <2>2 DEF Rebook, TypeOK
    <3>2. PICK n \in Txns : SupersedeAndPost(req[r].doc, NoLine, n)
      BY <2>2 DEF Rebook
    <3>3. StaleStays /\ PostedIsPostable' /\ \A t \in Txns : Stale(t)' => txn[t].doc # req[r].doc
      BY <1>0, <3>1, <3>2, SupersedeStale
    <3>4. StaleIsSeenTo'
      <4> SUFFICES ASSUME NEW t \in Txns, Stale(t)', ~(deaths > 0), txn[t].doc \notin Reopened,
                          txn'[t].doc = txn[t].doc
                   PROVE  Rebooks(txn[t].doc)'
        BY <3>1, <3>3 DEF StaleIsSeenTo, StaleStays
      <4>1. PICK q \in Requests : req[q].step = "rebook" /\ req[q].doc = txn[t].doc
        BY <1>0, <3>3 DEF StaleIsSeenTo, StaleStays, Rebooks
      <4>2. req'[q] = req[q]
        BY <2>0, <3>3, <4>1
      <4> QED BY <4>1, <4>2 DEF Rebooks
    <3> QED BY <3>3, <3>4
  <2>3. CASE RebookRefused(r)
    <3>1. UNCHANGED <<ledgerVars, postable, deaths>>
      BY <2>3 DEF RebookRefused
    <3>2. PostedIsPostable' /\ StaleStays
      BY <1>1, <3>1 DEF ledgerVars
    <3>3. StaleIsSeenTo'
      <4> SUFFICES ASSUME NEW t \in Txns, Stale(t), ~(deaths > 0), txn[t].doc \notin Reopened,
                          txn'[t].doc = txn[t].doc
                   PROVE  Rebooks(txn[t].doc)'
        BY <3>1, <3>2 DEF StaleIsSeenTo, StaleStays
      <4>1. PICK q \in Requests : req[q].step = "rebook" /\ req[q].doc = txn[t].doc
        BY <1>0 DEF StaleIsSeenTo, Rebooks
      <4>2. q # r
        BY <1>0, <2>3, <4>1, RefusedWasWithdrawn
      <4> QED BY <2>0, <4>1, <4>2 DEF Rebooks
    <3> QED BY <3>2, <3>3
  <2>4. CASE DeleteObservation(r)
    <3> DEFINE l == req[r].line
               gone == lineObs[l] # NoTxn /\ lineObsId[l] = req[r].id
    <3>1. /\ req[r].step = "delete" /\ UNCHANGED <<txn, postable, deaths>>
          /\ lineObs' = IF gone THEN [lineObs EXCEPT ![l] = NoTxn] ELSE lineObs
      BY <2>4 DEF DeleteObservation
    <3>2. req'[r].step = "rebook" /\ req'[r].doc = req[r].doc
      <4>1. req[r] \in RequestRecord
        BY <1>0 DEF TypeOK
      <4>2. req'[r] = [req[r] EXCEPT !.step = "rebook", !.line = NoLine]
        BY <1>0, <2>4 DEF DeleteObservation, TypeOK
      <4> QED BY <4>1, <4>2 DEF RequestRecord
    <3>3. l \in Lines
      BY <1>0, <3>1 DEF TypeOK
    <3>4. RebooksStay
      BY <1>0, <2>0, <3>1, OthersRebook
    <3>5. ASSUME NEW t \in Txns, Stale(t)', ~gone \/ lineObs[l] # t
          PROVE  Stale(t)
      BY <1>0, <3>1, <3>3, <3>5 DEF Stale, Live, TypeOK
    <3>6. ASSUME gone PROVE txn[lineObs[l]].doc = req[r].doc
      BY <1>0, <3>1, <3>6 DEF UnlinkFinds
    <3>7. PostedIsPostable'
      BY <1>0, <3>1 DEF PostedIsPostable, Live
    <3>8. StaleIsSeenTo'
      <4> SUFFICES ASSUME NEW t \in Txns, Stale(t)', ~(deaths > 0), txn[t].doc \notin Reopened
                   PROVE  Rebooks(txn[t].doc)'
        BY <3>1 DEF StaleIsSeenTo
      <4>1. CASE gone /\ lineObs[l] = t
        BY <3>1, <3>2, <3>6, <4>1 DEF Rebooks
      <4>2. CASE ~gone \/ lineObs[l] # t
        <5>1. PICK q \in Requests : req[q].step = "rebook" /\ req[q].doc = txn[t].doc
          BY <1>0, <3>5, <4>2 DEF StaleIsSeenTo, Rebooks
        <5> QED BY <2>0, <3>1, <5>1 DEF Rebooks
      <4> QED BY <4>1, <4>2
    <3> QED BY <3>7, <3>8
  <2>5. CASE ~(Merge(r) \/ PostStandalone(r) \/ Rebook(r) \/ RebookRefused(r) \/ DeleteObservation(r))
    <3>1. req[r].step # "rebook" /\ UNCHANGED <<ledgerVars, postable, deaths>>
      BY <1>5, <2>5 DEF Runs, MergeRefused, DecideAccepted, Reject, CheckUnlink, StandaloneRefused
    <3> QED BY <1>0, <1>1, <2>0, <3>1, OthersRebook, SeenToKept DEF ledgerVars
  <2> QED BY <2>1, <2>2, <2>3, <2>4, <2>5
<1>6. ASSUME NEW r \in Requests, Dies(r) PROVE Inv'
  <2>1. deaths' > 0 /\ UNCHANGED <<ledgerVars, postable>>
    BY <1>0, <1>6, ConstantsAssumption DEF Dies, TypeOK
  <2> QED BY <1>1, <2>1 DEF StaleIsSeenTo, ledgerVars
<1>7. ASSUME UNCHANGED vars PROVE Inv'
  BY <1>0, <1>1, <1>2, <1>7, SeenToKept DEF vars, ledgerVars
<1>8. Inv'
  BY <1>3, <1>4, <1>5, <1>6, <1>7 DEF Next
<1> QED BY <1>8, EvidenceStep DEF SeenTo

\* Until it is voided, a transaction that counts a line no longer observed has
\* the unlink's rebook ahead of it: the safety half of StaleIsVoided.
THEOREM StaleCorrect == Spec => []StaleIsSeenTo
<1>1. Init => PostedIsPostable /\ StaleIsSeenTo
  BY DEF Init, Unused, PostedIsPostable, StaleIsSeenTo, Stale, Live
<1>2. SeenTo => StaleIsSeenTo
  BY DEF SeenTo
<1>3. SeenTo /\ [Next]_vars => SeenTo'
  BY SeenToStep
<1>4. Evidence /\ PostedIsPostable /\ StaleIsSeenTo => SeenTo
  BY DEF SeenTo
<1> QED BY <1>1, <1>2, <1>3, <1>4, EvidenceHolds, PTL DEF Spec

---------------------------------------------------------------------------
(* Candidates                                                              *)

\* A decided pair is not put back to 'suggested' by any request.
THEOREM ResuggestCorrect == Spec => NeverResuggested
<1> DEFINE Kept == \A p \in Docs \X Lines :
                     cand[p] \notin {"none", "suggested"} => cand'[p] # "suggested"
<1>1. ASSUME TypeOK, [Next]_vars PROVE Kept
  <2>0. cand \in [Docs \X Lines -> Statuses]
    BY <1>1 DEF TypeOK
  <2>1. ASSUME UNCHANGED cand PROVE Kept
    BY <2>1
  <2>2. ASSUME NEW q \in Docs \X Lines, NEW s \in Statuses, Decide(q, s),
               s = "suggested" => cand[q] \in {"none", "suggested"}
        PROVE  Kept
    BY <2>0, <2>2 DEF Decide
  <2>3. ASSUME Elsewhere PROVE Kept
    <3>1. ASSUME NEW d \in Docs, NEW l \in Lines, Suggest(d, l) PROVE Kept
      BY <2>0, <3>1 DEF Suggest
    <3> QED
      BY <2>1, <2>3, <3>1 DEF Elsewhere, DraftFromDocument, PostTransaction, Confirm, Reopen
  <2>4. ASSUME NEW r \in Requests, Asks(r) PROVE Kept
    <3>1. ASSUME NEW d \in Docs, NEW l \in Lines, BeginManualLink(r, d, l) PROVE Kept
      <4>1. <<d, l>> \in Docs \X Lines
        OBVIOUS
      <4>2. CASE cand[<<d, l>>] = "none"
        BY <2>2, <3>1, <4>1, <4>2 DEF BeginManualLink, Statuses
      <4>3. CASE cand[<<d, l>>] # "none"
        BY <2>0, <3>1, <4>1, <4>3 DEF BeginManualLink, Decide
      <4> QED BY <4>2, <4>3
    <3> QED
      BY <2>1, <2>4, <3>1 DEF Asks, BeginAccept, BeginReject, BeginUnlink, BeginStandalone
  <2>5. ASSUME NEW r \in Requests, Runs(r) PROVE Kept
    <3>1. ASSUME NEW s \in {"accepted", "rejected", "unlinked"}, Decide(Pair(r), s),
                 req[r].step \in {"decide", "reject", "delete"}
          PROVE  Kept
      <4>1. Pair(r) \in Docs \X Lines /\ s \in Statuses /\ s # "suggested"
        BY <1>1, <3>1 DEF Pair, TypeOK, Statuses
      <4> QED BY <2>2, <3>1, <4>1
    <3>2. CASE DecideAccepted(r) \/ Reject(r) \/ DeleteObservation(r)
      BY <3>1, <3>2 DEF DecideAccepted, Reject, DeleteObservation
    <3>3. CASE ~(DecideAccepted(r) \/ Reject(r) \/ DeleteObservation(r))
      BY <2>1, <2>5, <3>3 DEF Runs, Merge, MergeRefused, CheckUnlink, Rebook, RebookRefused,
         PostStandalone, StandaloneRefused
    <3> QED BY <3>2, <3>3
  <2>6. ASSUME NEW r \in Requests, Dies(r) PROVE Kept
    BY <2>1, <2>6 DEF Dies
  <2> QED
    BY <1>1, <2>1, <2>3, <2>4, <2>5, <2>6 DEF Next, vars
<1> QED
  BY <1>1, TypeCorrect, PTL DEF Spec, NeverResuggested

---------------------------------------------------------------------------
(* The register                                                            *)

\* Superseding matches exactly the pair it was given, and only evidence that
\* is free on both sides.
LEMMA SupersedeLinks ==
  ASSUME Evidence, NEW d \in Docs \cup {NoDoc},
         NEW l \in Lines \cup {NoLine}, NEW n \in Txns, SupersedeAndPost(d, l, n)
  PROVE  /\ \A x \in Docs : docObs'[x] # NoTxn <=> docObs[x] # NoTxn \/ x = d
         /\ \A k \in Lines : lineObs'[k] # NoTxn <=> lineObs[k] # NoTxn \/ k = l
         /\ \A x \in Docs, k \in Lines : Linked(x, k)' <=> Linked(x, k) \/ (x = d /\ k = l)
         /\ \A x \in Docs, k \in Lines : Linked(x, k) => (x = d <=> k = l)
<1>0. TypeOK /\ ObservedIsMaterialised /\ Superseded(d, l, n) /\ n # NoTxn
  BY SupersedeSteps, ConstantsAssumption DEF Evidence
<1>1. \A x \in Docs : docObs[x] # n /\ docObs'[x] = IF x = d THEN n ELSE docObs[x]
  BY <1>0 DEF Superseded
<1>2. \A k \in Lines : lineObs[k] # n /\ lineObs'[k] = IF k = l THEN n ELSE lineObs[k]
  BY <1>0 DEF Superseded
<1>3. \A t \in Observing(d, l) : LeavesNothing(t, d, l)
  BY DEF SupersedeAndPost, MayVoid
<1>4. ASSUME NEW x \in Docs, NEW k \in Lines, Linked(x, k) PROVE x = d <=> k = l
  <2>1. ASSUME x = d, k # l PROVE FALSE
    BY <1>0, <1>3, <1>4, <2>1, ObservingHolds DEF Linked, LeavesNothing
  <2>2. ASSUME x # d, k = l PROVE FALSE
    BY <1>0, <1>3, <1>4, <2>2, ObservingHolds DEF Linked, LeavesNothing
  <2> QED BY <2>1, <2>2
<1>5. ASSUME NEW x \in Docs, NEW k \in Lines
      PROVE  Linked(x, k)' <=> Linked(x, k) \/ (x = d /\ k = l)
  BY <1>0, <1>1, <1>2, <1>4 DEF Linked
<1> QED
  BY <1>0, <1>1, <1>2, <1>4, <1>5

\* Every request and every failure is a step of the register's promise or
\* changes nothing of it.
THEOREM RegisterKept == Spec => KeepsRegister
<1> DEFINE booked  == {d \in Docs : docObs[d] # NoTxn}
           cleared == {l \in Lines : lineObs[l] # NoTxn}
           matched == {p \in Docs \X Lines : Linked(p[1], p[2])}
           Step == [Register!Next]_(Register!registerVars)
<1>1. Init => Register!Init
  BY DEF Init, Register!Init, Linked
<1>2. ASSUME Evidence, [Next]_vars PROVE Step
  <2>0. TypeOK /\ ObservedIsMaterialised /\ LiveIsObserved /\ UnlinkFinds
    BY <1>2 DEF Evidence
  <2>1. ASSUME UNCHANGED <<docObs, lineObs>> PROVE Step
    BY <2>1 DEF Register!registerVars, Linked
  <2>2. ASSUME NEW d \in Docs \cup {NoDoc}, NEW l \in Lines \cup {NoLine},
               d \in Docs \/ l \in Lines,
               \E n \in Txns : SupersedeAndPost(d, l, n)
        PROVE  Step
    <3>0. PICK n \in Txns : SupersedeAndPost(d, l, n)
      BY <2>2
    <3>1. /\ \A x \in Docs : docObs'[x] # NoTxn <=> docObs[x] # NoTxn \/ x = d
          /\ \A k \in Lines : lineObs'[k] # NoTxn <=> lineObs[k] # NoTxn \/ k = l
          /\ \A x \in Docs, k \in Lines : Linked(x, k)' <=> Linked(x, k) \/ (x = d /\ k = l)
          /\ \A x \in Docs, k \in Lines : Linked(x, k) => (x = d <=> k = l)
      BY <1>2, <3>0, SupersedeLinks
    <3>2. CASE d \in Docs /\ l \in Lines
      <4>1. booked' = booked \cup {d} /\ cleared' = cleared \cup {l}
        BY <3>1, <3>2
      <4>2. matched' = matched \cup {<<d, l>>}
        BY <3>1, <3>2
      <4>3. CASE Linked(d, l)
        <5>1. d \in booked /\ l \in cleared /\ <<d, l>> \in matched
          BY <3>2, <4>3 DEF Linked
        <5> QED BY <4>1, <4>2, <5>1 DEF Register!registerVars
      <4>4. CASE ~Linked(d, l)
        <5>1. Register!FreeDoc(d) /\ Register!FreeLine(l)
          BY <3>1, <3>2, <4>4 DEF Register!FreeDoc, Register!FreeLine
        <5> QED BY <3>2, <4>1, <4>2, <5>1 DEF Register!Match, Register!Next
      <4> QED BY <4>3, <4>4
    <3>3. CASE l \notin Lines
      <4>1. booked' = booked \cup {d} /\ cleared' = cleared /\ matched' = matched
        BY <2>2, <3>1, <3>3
      <4>2. CASE d \in booked
        BY <4>1, <4>2 DEF Register!registerVars
      <4>3. CASE d \notin booked
        BY <2>2, <3>3, <4>1, <4>3 DEF Register!BookDoc, Register!Next
      <4> QED BY <4>2, <4>3
    <3>4. CASE d \notin Docs
      <4>1. booked' = booked /\ cleared' = cleared \cup {l} /\ matched' = matched
        BY <2>2, <3>1, <3>4
      <4>2. CASE l \in cleared
        BY <4>1, <4>2 DEF Register!registerVars
      <4>3. CASE l \notin cleared
        BY <2>2, <3>4, <4>1, <4>3 DEF Register!ClearLine, Register!Next
      <4> QED BY <4>2, <4>3
    <3> QED BY <3>2, <3>3, <3>4
  <2>3. ASSUME Elsewhere PROVE Step
    <3>1. ASSUME NEW d \in Docs, NEW n \in Txns, DraftFromDocument(d, n) PROVE Step
      <4>1. /\ docObs[d] = NoTxn /\ docObs' = [docObs EXCEPT ![d] = n] /\ lineObs' = lineObs
            /\ ~Live(n) /\ n # NoTxn
        BY <3>1, ConstantsAssumption DEF DraftFromDocument, Live
      <4>2. \A k \in Lines : lineObs[k] # n
        BY <2>0, <4>1 DEF ObservedIsMaterialised
      <4>3. \A x \in Docs : docObs'[x] = IF x = d THEN n ELSE docObs[x]
        BY <2>0, <4>1 DEF TypeOK
      <4>4. \A x \in Docs, k \in Lines : Linked(x, k)' <=> Linked(x, k)
        BY <4>1, <4>2, <4>3 DEF Linked
      <4>5. booked' = booked \cup {d} /\ cleared' = cleared /\ d \notin booked
        BY <4>1, <4>3
      <4>6. matched' = matched
        BY <4>4
      <4> QED BY <4>5, <4>6 DEF Register!BookDoc, Register!Next
    <3> QED
      BY <2>1, <2>3, <3>1 DEF Elsewhere, PostTransaction, Confirm, Reopen, Suggest, ledgerVars
  <2>4. ASSUME NEW r \in Requests, Asks(r) PROVE Step
    BY <2>1, <2>4 DEF Asks, BeginAccept, BeginManualLink, BeginReject, BeginUnlink,
       BeginStandalone, ledgerVars
  <2>5. ASSUME NEW r \in Requests, Runs(r) PROVE Step
    <3>1. CASE Merge(r)
      <4>1. req[r].doc \in Docs /\ req[r].line \in Lines
        BY <2>0, <3>1 DEF Merge, TypeOK
      <4> QED BY <2>2, <3>1, <4>1 DEF Merge
    <3>2. CASE Rebook(r)
      <4>1. req[r].doc \in Docs
        BY <2>0, <3>2 DEF Rebook, TypeOK
      <4> QED BY <2>2, <3>2, <4>1 DEF Rebook
    <3>3. CASE PostStandalone(r)
      <4>1. req[r].line \in Lines
        BY <2>0, <3>3 DEF PostStandalone, TypeOK
      <4> QED BY <2>2, <3>3, <4>1 DEF PostStandalone
    <3>4. CASE DeleteObservation(r)
      <4> DEFINE l == req[r].line
                 e == txn[lineObs[l]].doc
                 gone == lineObs[l] # NoTxn /\ lineObsId[l] = req[r].id
      <4>1. /\ req[r].step = "delete" /\ docObs' = docObs
            /\ lineObs' = IF gone THEN [lineObs EXCEPT ![l] = NoTxn] ELSE lineObs
        BY <3>4 DEF DeleteObservation
      <4>2. l \in Lines
        BY <2>0, <4>1 DEF TypeOK
      <4>3. CASE ~gone
        BY <2>1, <4>1, <4>3
      <4>4. CASE gone
        <5>1. lineObs[l] \in Txns /\ Live(lineObs[l]) /\ e \in Docs
          BY <2>0, <4>1, <4>2, <4>4 DEF TypeOK, UnlinkFinds, ObservedIsMaterialised
        <5>2. docObs[e] = lineObs[l]
          BY <2>0, <5>1 DEF LiveIsObserved
        <5>3. \A x \in Docs : docObs[x] = lineObs[l] => x = e
          BY <2>0, <4>4 DEF ObservedIsMaterialised
        <5>4. \A k \in Lines : lineObs'[k] = IF k = l THEN NoTxn ELSE lineObs[k]
          BY <2>0, <4>1, <4>2, <4>4 DEF TypeOK
        <5>5. \A x \in Docs, k \in Lines : Linked(x, k)' <=> Linked(x, k) /\ ~(x = e /\ k = l)
          BY <4>1, <5>2, <5>3, <5>4 DEF Linked
        <5>6. <<e, l>> \in matched
          BY <4>2, <4>4, <5>1, <5>2 DEF Linked
        <5>7. matched' = matched \ {<<e, l>>}
          BY <4>2, <5>1, <5>5
        <5>8. booked' = booked /\ cleared' = cleared \ {l}
          BY <4>1, <5>4
        <5> QED BY <4>2, <5>1, <5>6, <5>7, <5>8 DEF Register!Unmatch, Register!Next
      <4> QED BY <4>3, <4>4
    <3>5. CASE ~(Merge(r) \/ Rebook(r) \/ PostStandalone(r) \/ DeleteObservation(r))
      BY <2>1, <2>5, <3>5 DEF Runs, MergeRefused, DecideAccepted, Reject, CheckUnlink,
         RebookRefused, StandaloneRefused, ledgerVars
    <3> QED BY <3>1, <3>2, <3>3, <3>4, <3>5
  <2>6. ASSUME NEW r \in Requests, Dies(r) PROVE Step
    BY <2>1, <2>6 DEF Dies, ledgerVars
  <2> QED
    BY <1>2, <2>1, <2>3, <2>4, <2>5, <2>6 DEF Next, vars, ledgerVars
<1> QED
  BY <1>1, <1>2, EvidenceHolds, PTL DEF Spec, KeepsRegister, Register!Spec

=============================================================================
