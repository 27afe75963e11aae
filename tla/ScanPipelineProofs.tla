------------------------- MODULE ScanPipelineProofs -------------------------
(***************************************************************************)
(* Proofs about ScanPipeline, for every number of captures, workers, jobs, *)
(* grants, attempts and failures.                                          *)
(***************************************************************************)
EXTENDS ScanPipeline, FiniteSetTheorems, TLAPS

\* Every step of the queue, the workers and their failures keeps the types
\* of the tables and of what each worker has read (runOnce and what it calls).
LEMMA TypeStep ==
  ASSUME TypeOK, [Next]_vars PROVE TypeOK'
<1>0. /\ MaxAttempts \in Nat /\ MaxCrashes \in Nat
      /\ MaxStalls \in Nat /\ MaxErrors \in Nat
  BY ConstantsAssumption
<1> USE <1>0 DEF TypeOK, QueueTypeOK, CreditTypeOK, CaptureTypeOK,
          WorkTypeOK, Queued, Cap,
          queueVars, creditVars, captureVars, workVars, faultVars,
          Goto, Catch, BackToIdle, TakeRow, ReleaseRow, Fault, Steps
<1>1. ASSUME NEW c \in Captures, FindNotQueued(c) PROVE TypeOK'
  BY <1>1 DEF FindNotQueued
<1>2. ASSUME NEW c \in Captures, NEW j \in Jobs, EnqueueExtraction(c, j) PROVE TypeOK'
  BY <1>2 DEF EnqueueExtraction, NewJob, NextGrant, Usable
<1>3. ASSUME NEW c \in Captures, NEW j \in Jobs, AdminReextract(c, j) PROVE TypeOK'
  BY <1>3 DEF AdminReextract, NewJob
<1>4. ASSUME NEW g \in Grants, GrantExpires(g) PROVE TypeOK'
  BY <1>4 DEF GrantExpires
<1>5. ASSUME NEW w \in Workers, NEW j \in Jobs, ClaimJob(w, j) PROVE TypeOK'
  BY <1>5 DEF ClaimJob, Take, Pending
<1>6. ASSUME NEW w \in Workers, Attempt(w) PROVE TypeOK'
  <2>1. CASE ReadSucceeds(w) \/ NotExtracted(w) \/ HandleThrows(w)
    BY <2>1 DEF ReadSucceeds, NotExtracted, HandleThrows
  <2>2. CASE BeginSave(w)
    BY <2>2 DEF BeginSave
  <2>3. CASE StatementAlreadySaved(w)
    BY <2>3 DEF StatementAlreadySaved
  <2>4. CASE CommitSave(w)
    BY <2>4 DEF CommitSave
  <2>5. CASE QueueReceiptReport(w)
    BY <2>5 DEF QueueReceiptReport
  <2>6. CASE BeginRefund(w)
    BY <2>6 DEF BeginRefund
  <2>7. CASE CommitRefund(w)
    <3>1. ASSUME ~read[w] /\ paidBy[Cap(w)] # NoGrant /\ ~refunded[Cap(w)]
          PROVE CreditTypeOK'
      <4> DEFINE g == paidBy[Cap(w)]
      <4>1. Cap(w) \in Captures /\ g \in Grants
        BY <2>7, <3>1 DEF CommitRefund
      <4>2. remaining' = IF remaining[g] < Amount[g]
                          THEN [remaining EXCEPT ![g] = @ + 1] ELSE remaining
        BY <2>7, <3>1 DEF CommitRefund, GiveBack
      <4>3. remaining' \in [Grants -> Nat]
        <5> HIDE DEF g
        <5> QED BY <4>1, <4>2
      <4>4. refunded' = [refunded EXCEPT ![Cap(w)] = TRUE]
        BY <2>7, <3>1 DEF CommitRefund, GiveBack
      <4> QED
        BY <2>7, <4>1, <4>3, <4>4 DEF CommitRefund
    <3>2. ASSUME ~(~read[w] /\ paidBy[Cap(w)] # NoGrant /\ ~refunded[Cap(w)])
          PROVE CreditTypeOK'
      BY <2>7, <3>2 DEF CommitRefund
    <3>3. CreditTypeOK'
      BY <3>1, <3>2
    <3>4. QueueTypeOK' /\ CaptureTypeOK' /\ WorkTypeOK'
      BY <2>7 DEF CommitRefund, AfterRefund
    <3> QED
      BY <2>7, <3>3, <3>4 DEF CommitRefund
  <2>8. CASE CompleteJob(w)
    BY <2>8 DEF CompleteJob
  <2>9. CASE FailJob(w)
    BY <2>9 DEF FailJob
  <2> QED
    BY <1>6, <2>1, <2>2, <2>3, <2>4, <2>5, <2>6, <2>7, <2>8, <2>9 DEF Attempt
<1>7. ASSUME NEW w \in Workers, RenewJobLock(w) PROVE TypeOK'
  BY <1>7 DEF RenewJobLock
<1>8. ASSUME NEW w \in Workers, DbError(w) PROVE TypeOK'
  <2>1. CASE SaveRollsBack(w)
    BY <2>1 DEF SaveRollsBack
  <2>2. CASE QueueReportFails(w) \/ CompleteFails(w)
    BY <2>2 DEF QueueReportFails, CompleteFails
  <2>3. CASE RefundFails(w)
    BY <2>3 DEF RefundFails, AfterRefund
  <2>4. CASE FailJobFails(w)
    BY <2>4 DEF FailJobFails
  <2> QED
    BY <1>8, <2>1, <2>2, <2>3, <2>4 DEF DbError
<1>9. ASSUME NEW w \in Workers, Crash(w) PROVE TypeOK'
  BY <1>9 DEF Crash
<1>10. ASSUME NEW j \in Jobs, LockGoesStale(j) \/ HeartbeatMissed(j) PROVE TypeOK'
  BY <1>10 DEF LockGoesStale, HeartbeatMissed, LockAges
<1>11. CASE UNCHANGED vars
  BY <1>11 DEF vars
<1> HIDE <1>0 DEF TypeOK
<1> QED
  BY <1>1, <1>2, <1>3, <1>4, <1>5, <1>6, <1>7, <1>8, <1>9, <1>10, <1>11
     DEF Next, Api, Worker

\* The queue, the credits, the captures and the workers stay well typed in
\* every behaviour, with any number of each and any number of failures.
THEOREM TypeCorrect == Spec => []TypeOK
<1>1. Init => TypeOK
  BY ConstantsAssumption
     DEF Init, TypeOK, QueueTypeOK, CreditTypeOK, CaptureTypeOK, WorkTypeOK, Steps
<1>2. TypeOK /\ [Next]_vars => TypeOK'
  BY TypeStep
<1> QED
  BY <1>1, <1>2, PTL DEF Spec

---------------------------------------------------------------------------
(* The row lock and what is read under it                                  *)

\* readPaidScan: a bought credit pays for the capture now.
PaidScan(c) == paidBy[c] \in Bought /\ ~refunded[c]

\* A save or a refund in progress holds its capture's row.
RowsHeld ==
  \A w \in Workers : pc[w] \in {"saving", "refunding"} => rowLock[Cap(w)] = w

\* What a worker read under the row lock is still so when it is used.
ReadsHold ==
  \A w \in Workers :
    /\ pc[w] \in {"saving", "report"} /\ read[w] => PaidScan(Cap(w))
    /\ pc[w] = "report" => doc[Cap(w)]
    /\ pc[w] = "refunding" /\ ~read[w] => ~doc[Cap(w)]

RefundsHaveSpend == \A c \in Captures : refunded[c] => paidBy[c] # NoGrant

PointsHaveDocument ==
  \A c \in Captures : report[c] = "pending" => doc[c] /\ PaidScan(c)

\* The inductive invariant: PointsArePaidFor alone is not inductive, since a
\* worker about to report relies on what it read two steps earlier.
ReadInv ==
  /\ RowsHeld /\ ReadsHold /\ RefundsHaveSpend /\ PointsHaveDocument

\* A worker that is inside a job works on one capture until it leaves: the
\* payload of a queued job never changes.
LEMMA CaptureIsStable ==
  ASSUME TypeOK, [Next]_vars, NEW w \in Workers, pc[w] # "idle", pc'[w] # "idle"
  PROVE  Cap(w)' = Cap(w) /\ Cap(w) \in Captures
<1> USE DEF TypeOK, QueueTypeOK, WorkTypeOK, Queued, Cap, Goto, Catch, BackToIdle,
          queueVars, workVars
<1>1. Cap(w) \in Captures /\ Cap(w) # NoCapture
  BY ConstantsAssumption
<1>2. CASE capture' = capture
  <2>1. job'[w] = job[w]
    BY <1>2 DEF Next, Api, Worker, Attempt, DbError, vars,
       FindNotQueued, EnqueueExtraction, AdminReextract, GrantExpires, ClaimJob, Take,
       ReadSucceeds, NotExtracted, HandleThrows, BeginSave, StatementAlreadySaved,
       CommitSave, QueueReceiptReport, BeginRefund, CommitRefund, CompleteJob, FailJob,
       RenewJobLock, SaveRollsBack, QueueReportFails, RefundFails, CompleteFails,
       FailJobFails, Crash, LockGoesStale, HeartbeatMissed, LockAges
  <2> QED BY <1>1, <1>2, <2>1
<1>3. ASSUME NEW c \in Captures, NEW j \in Jobs, NewJob(j, c), job' = job
      PROVE  Cap(w)' = Cap(w)
  BY <1>1, <1>3 DEF NewJob
<1>4. CASE capture' # capture
  <2>1. PICK c \in Captures, j \in Jobs : NewJob(j, c) /\ job' = job
    BY <1>4 DEF Next, Api, Worker, Attempt, DbError, vars,
       FindNotQueued, EnqueueExtraction, AdminReextract, GrantExpires, ClaimJob, Take,
       ReadSucceeds, NotExtracted, HandleThrows, BeginSave, StatementAlreadySaved,
       CommitSave, QueueReceiptReport, BeginRefund, CommitRefund, CompleteJob, FailJob,
       RenewJobLock, SaveRollsBack, QueueReportFails, RefundFails, CompleteFails,
       FailJobFails, Crash, LockGoesStale, HeartbeatMissed, LockAges
  <2> QED BY <1>1, <1>3, <2>1
<1> QED
  BY <1>1, <1>2, <1>4

\* The row lock is what keeps a reading true: only its holder saves a document
\* for the capture or gives its credit back.
LEMMA ReadInvStep ==
  ASSUME TypeOK, ReadInv, [Next]_vars PROVE ReadInv'
<1> USE DEF Goto, Catch, BackToIdle, TakeRow, ReleaseRow, Fault,
          queueVars, creditVars, captureVars, workVars
<1>0. /\ \A w \in Workers : pc[w] # "idle" => Cap(w) \in Captures
      /\ \A w \in Workers : pc[w] # "idle" /\ pc'[w] # "idle" => Cap(w)' = Cap(w)
  BY CaptureIsStable DEF TypeOK, WorkTypeOK, Cap
<1>T. /\ pc \in [Workers -> Steps] /\ read \in [Workers -> BOOLEAN]
      /\ doc \in [Captures -> BOOLEAN] /\ refunded \in [Captures -> BOOLEAN]
      /\ rowLock \in [Captures -> Workers \cup {NoWorker}]
      /\ report \in [Captures -> {"none", "pending", "skipped_free"}]
      /\ paidBy \in [Captures -> Grants \cup {NoGrant}]
      /\ NoWorker \notin Workers
      /\ NoGrant \notin Bought
  BY ConstantsAssumption DEF TypeOK, CreditTypeOK, CaptureTypeOK, WorkTypeOK, Grants, NoGrant
<1> USE <1>0, <1>T DEF ReadInv, RowsHeld, ReadsHold, RefundsHaveSpend, PointsHaveDocument,
        PaidScan
<1>1. ASSUME NEW c \in Captures, FindNotQueued(c) PROVE ReadInv'
  BY <1>1 DEF FindNotQueued
<1>2. ASSUME NEW c \in Captures, NEW j \in Jobs, EnqueueExtraction(c, j) PROVE ReadInv'
  BY <1>2 DEF EnqueueExtraction, NewJob
<1>3. ASSUME NEW c \in Captures, NEW j \in Jobs, AdminReextract(c, j) PROVE ReadInv'
  BY <1>3 DEF AdminReextract, NewJob
<1>4. ASSUME NEW g \in Grants, GrantExpires(g) PROVE ReadInv'
  BY <1>4 DEF GrantExpires
<1>5. ASSUME NEW w \in Workers, NEW j \in Jobs, ClaimJob(w, j) PROVE ReadInv'
  BY <1>5 DEF ClaimJob, Take, Pending
<1>6. ASSUME NEW w \in Workers, Attempt(w) PROVE ReadInv'
  <2>1. CASE ReadSucceeds(w) \/ NotExtracted(w) \/ HandleThrows(w) \/ StatementAlreadySaved(w)
    BY <2>1 DEF ReadSucceeds, NotExtracted, HandleThrows, StatementAlreadySaved
  <2>2. CASE BeginSave(w)
    <3>1. read'[w] <=> PaidScan(Cap(w))
      <4> HIDE DEF PaidScan
      <4>1. read' = [read EXCEPT ![w] = PaidScan(Cap(w))]
        BY <2>2 DEF BeginSave, PaidScan
      <4> QED BY <4>1, Zenon
    <3>2. \A v \in Workers : v # w => read'[v] = read[v] /\ pc'[v] = pc[v]
      BY <2>2 DEF BeginSave
    <3>3. RowsHeld' /\ RefundsHaveSpend' /\ PointsHaveDocument'
      BY <2>2 DEF BeginSave
    <3>4. ReadsHold'
      <4>1. pc[w] = "save" /\ pc'[w] = "saving" /\ Cap(w) \in Captures /\ Cap(w)' = Cap(w)
        BY <2>2 DEF BeginSave
      <4>2. UNCHANGED <<doc, paidBy, refunded, job, capture>>
        BY <2>2 DEF BeginSave
      <4>3. \A v \in Workers : Cap(v)' = Cap(v)
        BY <4>2 DEF Cap
      <4> QED BY <3>1, <3>2, <4>1, <4>2, <4>3
    <3> QED BY <3>3, <3>4
  <2>4. CASE CommitSave(w)
    BY <2>4 DEF CommitSave
  <2>5. CASE QueueReceiptReport(w)
    BY <2>5 DEF QueueReceiptReport
  <2>6. CASE BeginRefund(w)
    BY <2>6 DEF BeginRefund
  <2>7. CASE CommitRefund(w)
    BY <2>7 DEF CommitRefund, GiveBack, AfterRefund
  <2>8. CASE CompleteJob(w) \/ FailJob(w)
    BY <2>8 DEF CompleteJob, FailJob
  <2> QED
    BY <1>6, <2>1, <2>2, <2>4, <2>5, <2>6, <2>7, <2>8 DEF Attempt
<1>7. ASSUME NEW w \in Workers, RenewJobLock(w) PROVE ReadInv'
  BY <1>7 DEF RenewJobLock
<1>8. ASSUME NEW w \in Workers, DbError(w) PROVE ReadInv'
  <2>1. CASE SaveRollsBack(w)
    BY <2>1 DEF SaveRollsBack
  <2>2. CASE QueueReportFails(w) \/ CompleteFails(w) \/ FailJobFails(w)
    BY <2>2 DEF QueueReportFails, CompleteFails, FailJobFails
  <2>3. CASE RefundFails(w)
    BY <2>3 DEF RefundFails, AfterRefund
  <2> QED
    BY <1>8, <2>1, <2>2, <2>3 DEF DbError
<1>9. ASSUME NEW w \in Workers, Crash(w) PROVE ReadInv'
  BY <1>9 DEF Crash
<1>10. ASSUME NEW j \in Jobs, LockGoesStale(j) \/ HeartbeatMissed(j) PROVE ReadInv'
  BY <1>10 DEF LockGoesStale, HeartbeatMissed, LockAges
<1>11. CASE UNCHANGED vars
  BY <1>11 DEF vars
<1> HIDE <1>0, <1>T DEF ReadInv
<1> QED
  BY <1>1, <1>2, <1>3, <1>4, <1>5, <1>6, <1>7, <1>8, <1>9, <1>10, <1>11
     DEF Next, Api, Worker

\* Nothing has been read at the start.
LEMMA ReadInvInit == Init => TypeOK /\ ReadInv
<1>1. Init => TypeOK
  BY ConstantsAssumption
     DEF Init, TypeOK, QueueTypeOK, CreditTypeOK, CaptureTypeOK, WorkTypeOK, Steps
<1>2. Init => ReadInv
  BY DEF Init, ReadInv, RowsHeld, ReadsHold, RefundsHaveSpend, PointsHaveDocument
<1> QED
  BY <1>1, <1>2

\* In every reachable state what a worker read under the row lock still holds
\* when it acts on it (readPaidScan, refundScanCredit's document check).
THEOREM ReadsStayTrue == Spec => [](TypeOK /\ ReadInv)
<1>1. TypeOK /\ ReadInv /\ [Next]_vars => (TypeOK /\ ReadInv)'
  BY TypeStep, ReadInvStep
<1> QED
  BY ReadInvInit, <1>1, PTL DEF Spec

\* Points are only ever queued for a scan that a bought credit pays for at that
\* moment and from then on (queueReceiptReport after saveExtraction's commit).
THEOREM PointsCorrect == Spec => []PointsArePaidFor
<1>1. ReadInv => PointsArePaidFor
  BY DEF ReadInv, PointsHaveDocument, PaidScan, PointsArePaidFor
<1> QED
  BY ReadsStayTrue, <1>1, PTL

\* A step that gives a credit back does so for a capture with no document.
LEMMA RefundStep ==
  ASSUME TypeOK, ReadInv, [Next]_vars,
         NEW c \in Captures, refunded'[c], ~refunded[c]
  PROVE  ~doc[c] /\ doc' = doc /\ paidBy' = paidBy /\ report' = report
         /\ paidBy[c] # NoGrant /\ refunded' = [refunded EXCEPT ![c] = TRUE]
<1>1. PICK w \in Workers : CommitRefund(w)
  BY DEF Next, Api, Worker, Attempt, DbError, vars, creditVars,
     FindNotQueued, EnqueueExtraction, AdminReextract, GrantExpires, ClaimJob, Take,
     ReadSucceeds, NotExtracted, HandleThrows, BeginSave, StatementAlreadySaved,
     CommitSave, QueueReceiptReport, BeginRefund, CompleteJob, FailJob,
     RenewJobLock, SaveRollsBack, QueueReportFails, RefundFails, CompleteFails,
     FailJobFails, Crash, LockGoesStale, HeartbeatMissed, LockAges
<1>2. refunded \in [Captures -> BOOLEAN]
  BY DEF TypeOK, CreditTypeOK
<1>3. ~read[w] /\ paidBy[Cap(w)] # NoGrant /\ GiveBack(Cap(w))
  BY <1>1 DEF CommitRefund
<1>4. c = Cap(w)
  BY <1>2, <1>3 DEF GiveBack
<1>5. ~doc[c]
  BY <1>1, <1>3, <1>4 DEF ReadInv, ReadsHold, CommitRefund
<1> QED
  BY <1>1, <1>3, <1>4, <1>5 DEF CommitRefund, GiveBack

\* No credit is given back for a capture that has its document, however many
\* jobs of the capture run at once (refundScanCredit against saveExtraction).
THEOREM RefundCorrect == Spec => RefundOnlyUnread
<1>1. TypeOK /\ ReadInv /\ [Next]_vars
      => [\A c \in Captures : refunded'[c] /\ ~refunded[c] => ~doc'[c]]_vars
  BY RefundStep
<1> QED
  BY ReadsStayTrue, <1>1, PTL DEF Spec, RefundOnlyUnread

---------------------------------------------------------------------------
(* The credits add up                                                      *)

\* The scans a grant pays for are finitely many, so they can be counted.
LEMMA ChargedToFinite ==
  ASSUME NEW g PROVE IsFiniteSet(ChargedTo(g))
<1>1. ChargedTo(g) \subseteq Captures /\ IsFiniteSet(Captures)
  BY ConstantsAssumption DEF ChargedTo
<1> QED
  BY <1>1, FS_Subset

\* A spend moves one credit of one grant to one capture, a refund moves it
\* back, and no other step touches either side.
LEMMA ConservationStep ==
  ASSUME TypeOK, ReadInv, CreditConservation, [Next]_vars
  PROVE  CreditConservation'
<1> USE ConstantsAssumption
<1>1. CASE UNCHANGED <<remaining, paidBy, refunded>>
  BY <1>1 DEF CreditConservation, ChargedTo
<1>2. ASSUME NEW c \in Captures, NEW j \in Jobs, EnqueueExtraction(c, j)
      PROVE  CreditConservation'
  <2>1. PICK g \in Grants :
          /\ remaining[g] > 0
          /\ remaining' = [remaining EXCEPT ![g] = @ - 1]
          /\ paidBy' = [paidBy EXCEPT ![c] = g]
    BY <1>2 DEF EnqueueExtraction, NextGrant, Usable
  <2>2. paidBy[c] = NoGrant /\ ~refunded[c] /\ refunded' = refunded
    BY <1>2 DEF EnqueueExtraction, ReadInv, RefundsHaveSpend
  <2>T. /\ remaining \in [Grants -> Nat] /\ Amount \in [Grants -> Nat]
        /\ paidBy \in [Captures -> Grants \cup {NoGrant}] /\ NoGrant \notin Grants
    BY DEF TypeOK, CreditTypeOK, Grants, NoGrant
  <2>3. \A h \in Grants : h # g => ChargedTo(h)' = ChargedTo(h) /\ remaining'[h] = remaining[h]
    BY <2>1, <2>2, <2>T DEF ChargedTo
  <2>4. ChargedTo(g)' = ChargedTo(g) \cup {c} /\ c \notin ChargedTo(g)
    BY <2>1, <2>2, <2>T DEF ChargedTo
  <2>5. Cardinality(ChargedTo(g)') = Cardinality(ChargedTo(g)) + 1
    BY <2>4, ChargedToFinite, FS_AddElement
  <2>6. Cardinality(ChargedTo(g)) \in Nat
    BY ChargedToFinite, FS_CardinalityType
  <2>7. remaining'[g] = remaining[g] - 1 /\ remaining[g] \in Nat
    BY <2>1, <2>T
  <2> QED
    BY <2>3, <2>5, <2>6, <2>7 DEF CreditConservation
<1>3. ASSUME NEW c \in Captures, paidBy[c] # NoGrant, ~refunded[c], GiveBack(c), paidBy' = paidBy
      PROVE  CreditConservation'
  <2>0. PICK g \in Grants : g = paidBy[c]
    BY <1>3 DEF TypeOK, CreditTypeOK
  <2>T. /\ remaining \in [Grants -> Nat] /\ Amount \in [Grants -> Nat]
        /\ refunded \in [Captures -> BOOLEAN]
    BY DEF TypeOK, CreditTypeOK
  <2>1. \A h \in Grants : h # g => ChargedTo(h)' = ChargedTo(h)
    BY <1>3, <2>0, <2>T DEF ChargedTo, GiveBack
  <2>2. ChargedTo(g)' = ChargedTo(g) \ {c} /\ c \in ChargedTo(g)
    BY <1>3, <2>0, <2>T DEF ChargedTo, GiveBack
  <2>3. Cardinality(ChargedTo(g)') = Cardinality(ChargedTo(g)) - 1
    BY <2>2, ChargedToFinite, FS_RemoveElement
  <2>4. Cardinality(ChargedTo(g)) \in Nat /\ Cardinality(ChargedTo(g)') \in Nat
    <3>1. IsFiniteSet(ChargedTo(g)')
      BY <2>2, ChargedToFinite, FS_RemoveElement
    <3> QED BY <3>1, ChargedToFinite, FS_CardinalityType
  <2>5. remaining[g] + Cardinality(ChargedTo(g)) = Amount[g]
    BY <2>T DEF CreditConservation
  <2>6. remaining[g] < Amount[g]
    BY <2>3, <2>4, <2>5, <2>T
  <2>7. remaining' = [remaining EXCEPT ![g] = @ + 1]
    BY <1>3, <2>0, <2>6 DEF GiveBack
  <2>8. \A h \in Grants : remaining'[h] + Cardinality(ChargedTo(h)') = Amount[h]
    <3> SUFFICES ASSUME NEW h \in Grants
                 PROVE  remaining'[h] + Cardinality(ChargedTo(h)') = Amount[h]
      OBVIOUS
    <3>1. CASE h = g
      <4>1. remaining'[g] = remaining[g] + 1 /\ remaining[g] \in Nat
        BY <2>T, <2>7
      <4> QED BY <3>1, <4>1, <2>3, <2>4, <2>5
    <3>2. CASE h # g
      BY <3>2, <2>T, <2>1, <2>7 DEF CreditConservation
    <3> QED BY <3>1, <3>2
  <2> QED
    BY <2>8 DEF CreditConservation
<1>4. ASSUME NEW w \in Workers, CommitRefund(w)
      PROVE  CreditConservation'
  <2>1. Cap(w) \in Captures
    BY <1>4 DEF CommitRefund, TypeOK, WorkTypeOK, Cap
  <2> QED
    BY <1>1, <1>3, <1>4, <2>1 DEF CommitRefund
<1> QED
  BY <1>1, <1>2, <1>4 DEF Next, Api, Worker, Attempt, DbError, vars, creditVars,
     FindNotQueued, AdminReextract, GrantExpires, ClaimJob, Take,
     ReadSucceeds, NotExtracted, HandleThrows, BeginSave, StatementAlreadySaved,
     CommitSave, QueueReceiptReport, BeginRefund, CompleteJob, FailJob,
     RenewJobLock, SaveRollsBack, QueueReportFails, RefundFails, CompleteFails,
     FailJobFails, Crash, LockGoesStale, HeartbeatMissed, LockAges

\* What is left in a grant and the scans charged to it always add up to what
\* it was given (spendScanCredit, refundScanCredit).
THEOREM ConservationCorrect == Spec => []CreditConservation
<1>1. Init => CreditConservation
  <2> SUFFICES ASSUME Init, NEW g \in Grants
               PROVE  remaining[g] + Cardinality(ChargedTo(g)) = Amount[g]
    BY DEF CreditConservation
  <2>1. ChargedTo(g) = {} /\ remaining[g] = Amount[g] /\ Amount[g] \in Nat
    BY ConstantsAssumption DEF Init, ChargedTo, NoGrant, Grants
  <2> QED BY <2>1, FS_EmptySet
<1> QED
  BY ReadsStayTrue, <1>1, ConservationStep, PTL DEF Spec

---------------------------------------------------------------------------
(* The pipeline implements ScanPromise                                     *)

\* The user-visible state changes in four steps only: a spend, a save, a
\* refund and a report, and each is allowed by ScanPromise.
LEMMA PromiseStep ==
  ASSUME TypeOK, ReadInv, [Next]_vars
  PROVE  [Promise!Next]_Promise!promiseVars
<1> USE DEF Promise!Next, Promise!promiseVars
<1>T. /\ NoGrant \notin Bought /\ NoGrant \notin Grants /\ Bought \subseteq Grants
      /\ paidBy \in [Captures -> Grants \cup {NoGrant}]
      /\ doc \in [Captures -> BOOLEAN]
      /\ refunded \in [Captures -> BOOLEAN]
      /\ report \in [Captures -> {"none", "pending", "skipped_free"}]
      /\ \A w \in Workers : pc[w] # "idle" => Cap(w) \in Captures
  BY ConstantsAssumption DEF TypeOK, CreditTypeOK, CaptureTypeOK, WorkTypeOK, Cap,
     Grants, NoGrant
<1>1. CASE UNCHANGED <<paidBy, refunded, doc, report>>
  BY <1>1
<1>2. ASSUME NEW c \in Captures, NEW j \in Jobs, EnqueueExtraction(c, j)
      PROVE  Promise!Charge(c)
  <2>1. PICK g \in Grants : paidBy' = [paidBy EXCEPT ![c] = g]
    BY <1>2 DEF EnqueueExtraction
  <2>2. paidBy[c] = NoGrant /\ UNCHANGED <<refunded, doc, report>>
    BY <1>2 DEF EnqueueExtraction, captureVars
  <2> QED
    BY <1>T, <2>1, <2>2 DEF Promise!Charge
<1>3. ASSUME NEW w \in Workers, CommitSave(w)
      PROVE  [Promise!Next]_Promise!promiseVars
  <2>1. PICK c \in Captures : /\ doc' = [doc EXCEPT ![c] = TRUE]
                              /\ UNCHANGED <<paidBy, refunded, report>>
    BY <1>T, <1>3 DEF CommitSave, creditVars
  <2>2. CASE doc[c]
    BY <1>T, <1>1, <2>1, <2>2
  <2>3. CASE ~doc[c]
    <3>1. {d \in Captures : doc'[d]} = {d \in Captures : doc[d]} \cup {c}
      BY <1>T, <2>1
    <3>2. Promise!Read(c)
      BY <2>1, <2>3, <3>1 DEF Promise!Read
    <3> QED BY <2>1, <3>2
  <2> QED
    BY <2>2, <2>3
<1>4. ASSUME NEW c \in Captures, refunded'[c], ~refunded[c]
      PROVE  Promise!GiveBack(c)
  BY <1>T, <1>4, RefundStep DEF Promise!GiveBack
<1>5. ASSUME NEW w \in Workers, CommitRefund(w)
      PROVE  [Promise!Next]_Promise!promiseVars
  <2>1. Cap(w) \in Captures /\ UNCHANGED <<paidBy, doc, report>>
    BY <1>T, <1>5 DEF CommitRefund
  <2>2. refunded' = refunded \/ (~refunded[Cap(w)] /\ refunded'[Cap(w)])
    BY <1>T, <1>5, <2>1 DEF CommitRefund, GiveBack
  <2> QED
    BY <1>1, <1>4, <2>1, <2>2
<1>6. ASSUME NEW w \in Workers, QueueReceiptReport(w)
      PROVE  [Promise!Next]_Promise!promiseVars
  <2>1. PICK c \in Captures : c = Cap(w) /\ UNCHANGED <<paidBy, refunded, doc>>
    BY <1>T, <1>6 DEF QueueReceiptReport, creditVars
  <2>2. CASE report' = report
    BY <1>1, <2>1, <2>2
  <2>3. CASE report' # report
    <3>1. report[c] = "none"
          /\ report' = [report EXCEPT ![c] = IF read[w] THEN "pending" ELSE "skipped_free"]
      BY <1>6, <2>1, <2>3 DEF QueueReceiptReport
    <3>2. doc[c] /\ (read[w] => PaidScan(c))
      BY <1>6, <2>1 DEF QueueReceiptReport, ReadInv, ReadsHold
    <3>3. CASE read[w]
      <4>1. {d \in Captures : report'[d] = "pending"}
              = {d \in Captures : report[d] = "pending"} \cup {c}
        BY <1>T, <2>1, <3>1, <3>3
      <4>2. Promise!Earn(c)
        BY <2>1, <3>1, <3>2, <3>3, <4>1 DEF Promise!Earn, PaidScan
      <4> QED BY <2>1, <4>2
    <3>4. CASE ~read[w]
      <4>1. \A d \in Captures : report'[d] = "pending" <=> report[d] = "pending"
        BY <1>T, <2>1, <3>1, <3>4
      <4> QED BY <2>1, <4>1
    <3> QED BY <3>3, <3>4
  <2> QED
    BY <2>2, <2>3
<1> QED
  BY <1>1, <1>2, <1>3, <1>5, <1>6 DEF Next, Api, Worker, Attempt, DbError,
     vars, creditVars, captureVars,
     FindNotQueued, AdminReextract, GrantExpires, ClaimJob, Take,
     ReadSucceeds, NotExtracted, HandleThrows, BeginSave, StatementAlreadySaved,
     BeginRefund, CompleteJob, FailJob,
     RenewJobLock, SaveRollsBack, QueueReportFails, RefundFails, CompleteFails,
     FailJobFails, Crash, LockGoesStale, HeartbeatMissed, LockAges

\* Queue, workers, transactions and failures together implement what a scan
\* promises: charged at most once, read or given back, and points only for a
\* scan that is read and paid for.
THEOREM PromiseKept == Spec => KeepsPromise
<1>1. Init => Promise!Init
  BY ConstantsAssumption DEF Init, Promise!Init, NoGrant, Grants
<1> QED
  BY ReadsStayTrue, <1>1, PromiseStep, PTL DEF Spec, KeepsPromise, Promise!Spec

---------------------------------------------------------------------------
(* One holder per job, and what its end leaves behind                      *)

\* While no heartbeat is missed a worker inside a job holds its lock, knows
\* whether this is the last attempt, and the job is not completed.
HolderInv ==
  /\ \A w \in Workers : pc[w] = "idle" <=> job[w] = NoJob
  /\ \A j \in Jobs : ~Queued(j) => attempts[j] = 0 /\ ~completed[j]
  /\ stalls = 0 => \A w \in Workers : job[w] # NoJob =>
       /\ lockedBy[job[w]] = w /\ lock[job[w]] = "fresh"
       /\ last[w] <=> attempts[job[w]] = MaxAttempts
       /\ ~completed[job[w]]

\* The worker's attempt will still save a document, give the credit back or
\* leave the job to be claimed again.
Working(w) ==
  \/ pc[w] \in {"handle", "save", "saving", "refund", "refunding"}
  \/ pc[w] = "fail" /\ ~last[w]

\* The job will be claimed again, or is left locked by a dead worker.
Waiting(j) ==
  /\ \A w \in Workers : job[w] # j
  /\ attempts[j] < MaxAttempts \/ lock[j] # "free"

Owing(j) == ~completed[j] /\ (Waiting(j) \/ \E w \in Workers : job[w] = j /\ Working(w))

\* A charged capture has its document, its credit, or a job that owes it one.
SettledInv ==
  stalls = 0 /\ errors = 0 => \A c \in Captures : paidBy[c] # NoGrant =>
    doc[c] \/ refunded[c] \/ \E j \in Jobs : capture[j] = c /\ Owing(j)

\* A refund that found a document leaves the credit spent for a good reason.
RefundSees == \A w \in Workers : pc[w] = "refunding" /\ read[w] => doc[Cap(w)]

LEMMA HolderInvStep ==
  ASSUME TypeOK, HolderInv, [Next]_vars PROVE HolderInv'
<1> USE DEF Goto, Catch, BackToIdle, TakeRow, ReleaseRow, Fault, Queued,
          queueVars, creditVars, captureVars, workVars, faultVars
<1>T. /\ pc \in [Workers -> Steps] /\ job \in [Workers -> Jobs \cup {NoJob}] /\ last \in [Workers -> BOOLEAN]
      /\ lock \in [Jobs -> {"free", "fresh", "stale"}] /\ lockedBy \in [Jobs -> Workers \cup {NoWorker}]
      /\ completed \in [Jobs -> BOOLEAN] /\ attempts \in [Jobs -> 0..MaxAttempts] /\ stalls \in Nat
      /\ capture \in [Jobs -> Captures \cup {NoCapture}]
      /\ \A w \in Workers : pc[w] # "idle" => job[w] \in Jobs /\ capture[job[w]] # NoCapture
      /\ NoWorker \notin Workers /\ NoJob \notin Jobs /\ NoCapture \notin Captures /\ MaxAttempts \in Nat \ {0}
  BY ConstantsAssumption DEF TypeOK, QueueTypeOK, WorkTypeOK
<1> USE <1>T DEF HolderInv
<1>1. CASE UNCHANGED <<capture, attempts, lock, lockedBy, completed, pc, job, last, stalls>>
  BY <1>1
<1>2. ASSUME NEW c \in Captures, NEW j \in Jobs, NewJob(j, c), UNCHANGED <<workVars, faultVars>> PROVE HolderInv'
  BY <1>2 DEF NewJob
<1>3. ASSUME NEW w \in Workers, NEW j \in Jobs, ClaimJob(w, j) PROVE HolderInv'
  <2> USE DEF ClaimJob, Pending
  <2>1. /\ pc' = [pc EXCEPT ![w] = "handle"] /\ job' = [job EXCEPT ![w] = j] /\ stalls' = stalls
        /\ last' = [last EXCEPT ![w] = (attempts[j] + 1 >= MaxAttempts)]
        /\ lock' = [lock EXCEPT ![j] = "fresh"] /\ lockedBy' = [lockedBy EXCEPT ![j] = w]
        /\ attempts' = [attempts EXCEPT ![j] = @ + 1] /\ UNCHANGED <<capture, completed>>
    BY <1>3 DEF Take
  <2>2. last'[w] <=> attempts'[j] = MaxAttempts
    <3>1. attempts[j] \in 0..MaxAttempts /\ attempts[j] < MaxAttempts /\ attempts'[j] = attempts[j] + 1
      BY <1>3, <2>1
    <3>2. (attempts[j] + 1 >= MaxAttempts) <=> attempts'[j] = MaxAttempts
      BY <3>1
    <3> DEFINE now == attempts[j] + 1 >= MaxAttempts
    <3>3. now <=> attempts'[j] = MaxAttempts
      BY <3>2
    <3>4. last' = [last EXCEPT ![w] = now]
      BY <2>1
    <3>5. w \in DOMAIN last
      BY <1>T
    <3> HIDE DEF now
    <3>6. last'[w] = now
      BY <3>4, <3>5, Zenon
    <3> QED BY <3>3, <3>6, Zenon
  <2>3. stalls = 0 => \A v \in Workers : job[v] # j
    BY <1>3
  <2>4. \A v \in Workers : v # w => pc'[v] = pc[v] /\ job'[v] = job[v] /\ (last'[v] <=> last[v])
    BY <2>1
  <2>5. \A i \in Jobs : i # j => lock'[i] = lock[i] /\ lockedBy'[i] = lockedBy[i] /\ attempts'[i] = attempts[i]
    BY <2>1
  <2>6. /\ pc'[w] = "handle" /\ job'[w] = j /\ lock'[j] = "fresh" /\ lockedBy'[j] = w
        /\ ~completed[j] /\ capture[j] # NoCapture
    BY <1>3, <2>1
  <2>7. \A v \in Workers : pc'[v] = "idle" <=> job'[v] = NoJob
    BY <2>4, <2>6
  <2>8. \A i \in Jobs : ~Queued(i)' => attempts'[i] = 0 /\ ~completed'[i]
    BY <2>1, <2>5, <2>6
  <2>9. stalls' = 0 => \A v \in Workers : job'[v] # NoJob =>
          /\ lockedBy'[job'[v]] = v /\ lock'[job'[v]] = "fresh"
          /\ last'[v] <=> attempts'[job'[v]] = MaxAttempts
          /\ ~completed'[job'[v]]
    BY <2>1, <2>2, <2>3, <2>4, <2>5, <2>6
  <2> QED BY <2>7, <2>8, <2>9
<1>4. ASSUME NEW w \in Workers, pc[w] # "idle", NEW step \in Steps \ {"idle"}, Goto(w, step),
             UNCHANGED <<queueVars, stalls>>
      PROVE  HolderInv'
  BY <1>4
<1>5. ASSUME NEW w \in Workers, CompleteJob(w) PROVE HolderInv'
  <2>1. stalls = 0 => \A v \in Workers \ {w} : job[v] # job[w]
    BY <1>5 DEF CompleteJob
  <2>2. job[w] \in Jobs /\ capture[job[w]] # NoCapture
    BY <1>5 DEF CompleteJob
  <2> QED BY <1>5, <2>1, <2>2 DEF CompleteJob
<1>6. ASSUME NEW w \in Workers, FailJob(w) PROVE HolderInv'
  <2>1. stalls = 0 => \A v \in Workers \ {w} : job[v] # job[w]
    BY <1>6 DEF FailJob
  <2> QED BY <1>6, <2>1 DEF FailJob
<1>7. ASSUME NEW w \in Workers, BackToIdle(w), UNCHANGED <<queueVars, stalls>> PROVE HolderInv'
  BY <1>7
<1>8. ASSUME NEW j \in Jobs, LockGoesStale(j) PROVE HolderInv'
  BY <1>8 DEF LockGoesStale, LockAges, HeldAlive
<1>9. ASSUME NEW j \in Jobs, HeartbeatMissed(j) PROVE HolderInv'
  BY <1>9 DEF HeartbeatMissed, LockAges
<1>10. ASSUME NEW w \in Workers, RenewJobLock(w) PROVE HolderInv'
  BY <1>10 DEF RenewJobLock
<1>11. ASSUME NEW w \in Workers, Attempt(w) \/ DbError(w) \/ Crash(w), ~CompleteJob(w), ~FailJob(w) PROVE HolderInv'
  <2>1. CASE BackToIdle(w) /\ UNCHANGED <<queueVars, stalls>>
    BY <2>1, <1>7
  <2>2. CASE /\ pc[w] # "idle" /\ UNCHANGED <<queueVars, stalls>>
             /\ \E step \in Steps \ {"idle"} : Goto(w, step)
    BY <2>2, <1>4
  <2> HIDE <1>T DEF HolderInv
  <2> QED BY <1>11, <2>1, <2>2 DEF Attempt, DbError, ReadSucceeds, NotExtracted, HandleThrows, BeginSave,
       StatementAlreadySaved, CommitSave, QueueReceiptReport, BeginRefund, CommitRefund, AfterRefund,
       SaveRollsBack, QueueReportFails, RefundFails, CompleteFails, FailJobFails, Crash, Steps
<1>12. CASE UNCHANGED vars
  BY <1>12, <1>1 DEF vars
<1>13. CASE Api
  <2>1. CASE \E c \in Captures, j \in Jobs : EnqueueExtraction(c, j) \/ AdminReextract(c, j)
    BY <2>1, <1>2 DEF EnqueueExtraction, AdminReextract
  <2>2. CASE (\E c \in Captures : FindNotQueued(c)) \/ \E g \in Grants : GrantExpires(g)
    BY <2>2, <1>1 DEF FindNotQueued, GrantExpires
  <2> QED BY <1>13, <2>1, <2>2 DEF Api
<1> HIDE <1>T DEF HolderInv
<1> QED
  BY <1>3, <1>5, <1>6, <1>8, <1>9, <1>10, <1>11, <1>12, <1>13 DEF Next, Worker

\* No two workers are ever inside one job while heartbeats land, with any
\* number of workers, jobs and kills.
THEOREM OneHolderCorrect == Spec => []OneHolder
<1>1. Init => TypeOK /\ HolderInv
  BY ReadInvInit, ConstantsAssumption DEF Init, HolderInv, Queued
<1>2. TypeOK /\ HolderInv /\ [Next]_vars => (TypeOK /\ HolderInv)'
  BY TypeStep, HolderInvStep
<1>3. TypeOK /\ HolderInv => OneHolder
  BY DEF HolderInv, OneHolder, TypeOK, WorkTypeOK
<1> QED BY <1>1, <1>2, <1>3, PTL DEF Spec

\* The document a refund saw is still there when it gives nothing back.
LEMMA RefundSeesStep ==
  ASSUME TypeOK, RefundSees, [Next]_vars PROVE RefundSees'
<1> USE DEF Goto, Catch, BackToIdle, TakeRow, ReleaseRow, Fault,
          queueVars, creditVars, captureVars, workVars, faultVars
<1>1. /\ pc \in [Workers -> Steps] /\ read \in [Workers -> BOOLEAN] /\ doc \in [Captures -> BOOLEAN]
      /\ \A w \in Workers : pc[w] # "idle" => Cap(w) \in Captures
  BY DEF TypeOK, CaptureTypeOK, WorkTypeOK, Cap
<1>2. \A w \in Workers : pc[w] # "idle" /\ pc'[w] # "idle" => Cap(w)' = Cap(w)
  BY CaptureIsStable
<1>3. \A c \in Captures : doc[c] => doc'[c]
  <2>1. CASE \E w \in Workers : CommitSave(w)
    BY <1>1, <2>1 DEF CommitSave
  <2>2. CASE ~\E w \in Workers : CommitSave(w)
    BY <2>2 DEF Next, Api, Worker, Attempt, DbError, vars,
       FindNotQueued, EnqueueExtraction, AdminReextract, GrantExpires, ClaimJob, Take,
       ReadSucceeds, NotExtracted, HandleThrows, BeginSave, StatementAlreadySaved,
       QueueReceiptReport, BeginRefund, CommitRefund, CompleteJob, FailJob,
       RenewJobLock, SaveRollsBack, QueueReportFails, RefundFails, CompleteFails,
       FailJobFails, Crash, LockGoesStale, HeartbeatMissed, LockAges
  <2> QED BY <2>1, <2>2
<1>4. ASSUME NEW v \in Workers, BeginRefund(v) PROVE RefundSees'
  <2> DEFINE seen == doc[Cap(v)]
  <2>1. read' = [read EXCEPT ![v] = seen] /\ doc' = doc /\ pc[v] = "refund" /\ pc'[v] # "idle"
        /\ \A w \in Workers : w # v => pc'[w] = pc[w]
    BY <1>1, <1>4 DEF BeginRefund
  <2>2. doc'[Cap(v)'] = seen
    BY <1>1, <1>2, <2>1
  <2> HIDE DEF seen
  <2>3. read'[v] = seen
    BY <1>1, <2>1, Zenon
  <2>4. \A w \in Workers : w # v => read'[w] = read[w]
    BY <1>1, <2>1
  <2>5. ASSUME NEW w \in Workers, w # v, pc'[w] = "refunding", read'[w] PROVE doc'[Cap(w)']
    BY <1>1, <1>2, <1>3, <2>1, <2>4, <2>5 DEF RefundSees
  <2> QED BY <2>2, <2>3, <2>5, Zenon DEF RefundSees
<1>5. ASSUME ~\E v \in Workers : BeginRefund(v), NEW w \in Workers, pc'[w] = "refunding"
      PROVE pc[w] = "refunding" /\ read'[w] = read[w]
  BY <1>1, <1>5 DEF Next, Api, Worker, Attempt, DbError, vars,
       FindNotQueued, EnqueueExtraction, AdminReextract, GrantExpires, ClaimJob, Take,
       ReadSucceeds, NotExtracted, HandleThrows, BeginSave, StatementAlreadySaved, CommitSave,
       QueueReceiptReport, CommitRefund, AfterRefund, CompleteJob, FailJob,
       RenewJobLock, SaveRollsBack, QueueReportFails, RefundFails, CompleteFails,
       FailJobFails, Crash, LockGoesStale, HeartbeatMissed, LockAges
<1> QED BY <1>1, <1>2, <1>3, <1>4, <1>5 DEF RefundSees

\* A job that owes its capture an end owes it still after any step that is no
\* failure of the database, or has just paid it.
LEMMA OwingStep ==
  ASSUME TypeOK, HolderInv, RefundSees, [Next]_vars, stalls' = 0, errors' = 0,
         NEW j \in Jobs, Queued(j), Owing(j), paidBy[capture[j]] # NoGrant
  PROVE  Owing(j)' \/ doc'[capture[j]] \/ refunded'[capture[j]]
<1> USE DEF Goto, Catch, BackToIdle, TakeRow, ReleaseRow,
          queueVars, creditVars, captureVars, workVars, faultVars
<1>T. /\ pc \in [Workers -> Steps] /\ job \in [Workers -> Jobs \cup {NoJob}] /\ last \in [Workers -> BOOLEAN]
      /\ lock \in [Jobs -> {"free", "fresh", "stale"}] /\ lockedBy \in [Jobs -> Workers \cup {NoWorker}]
      /\ completed \in [Jobs -> BOOLEAN] /\ attempts \in [Jobs -> 0..MaxAttempts]
      /\ capture \in [Jobs -> Captures \cup {NoCapture}]
      /\ doc \in [Captures -> BOOLEAN] /\ refunded \in [Captures -> BOOLEAN]
      /\ stalls \in Nat /\ errors \in Nat
      /\ NoWorker \notin Workers /\ NoJob \notin Jobs /\ NoCapture \notin Captures /\ MaxAttempts \in Nat \ {0}
      /\ \A w \in Workers : pc[w] # "idle" => job[w] \in Jobs
  BY ConstantsAssumption DEF TypeOK, QueueTypeOK, WorkTypeOK, CaptureTypeOK, CreditTypeOK
<1> USE <1>T
<1>0. ~(\E w \in Workers : DbError(w)) /\ ~(\E i \in Jobs : HeartbeatMissed(i)) /\ stalls = 0
  BY DEF DbError, SaveRollsBack, QueueReportFails, RefundFails, CompleteFails, FailJobFails, Fault, HeartbeatMissed,
         Next, Api, Worker, Attempt, vars, FindNotQueued, EnqueueExtraction, AdminReextract, GrantExpires, ClaimJob, Take,
         ReadSucceeds, NotExtracted, HandleThrows, BeginSave, StatementAlreadySaved, CommitSave,
         QueueReceiptReport, BeginRefund, CommitRefund, CompleteJob, FailJob, RenewJobLock, Crash, LockGoesStale
<1>H. /\ \A w \in Workers : pc[w] = "idle" <=> job[w] = NoJob
      /\ \A w \in Workers : job[w] = j => lock[j] = "fresh" /\ lockedBy[j] = w /\ (last[w] <=> attempts[j] = MaxAttempts)
      /\ \A v, w \in Workers : job[v] = j /\ job[w] = j => v = w
      /\ ~completed[j] /\ capture[j] # NoCapture /\ capture[j] \in Captures
  BY <1>0 DEF HolderInv, Owing, Queued
<1>1. CASE UNCHANGED <<attempts, completed, pc, job, last>> /\ (lock'[j] = "free" => lock[j] = "free")
  BY <1>1 DEF Owing, Waiting, Working
<1>2. ASSUME NEW w \in Workers, NEW i \in Jobs, ClaimJob(w, i) PROVE Owing(j)'
  <2> USE DEF ClaimJob, Take, Pending
  <2>1. CASE i = j
    <3>1. job'[w] = j /\ pc'[w] = "handle" /\ ~completed'[j]
      BY <1>2, <1>H, <2>1
    <3> QED BY <3>1 DEF Owing, Working
  <2>2. CASE i # j /\ Waiting(j)
    <3>1. (\A v \in Workers : job'[v] # j) /\ attempts'[j] = attempts[j] /\ lock'[j] = lock[j] /\ ~completed'[j]
      BY <1>2, <1>H, <2>2 DEF Waiting
    <3> QED BY <2>2, <3>1 DEF Owing, Waiting
  <2>3. ASSUME NEW v \in Workers, job[v] = j, Working(v) PROVE Owing(j)'
    <3>1. v # w
      BY <1>2, <2>3 DEF Working
    <3>2. job'[v] = j /\ pc'[v] = pc[v] /\ last'[v] = last[v] /\ ~completed'[j]
      BY <1>2, <1>H, <2>3, <3>1
    <3> QED BY <2>3, <3>2 DEF Owing, Working
  <2> QED BY <2>1, <2>2, <2>3 DEF Owing
\* Another worker's steps, inside another job, leave the job as it is.
<1>3. ASSUME NEW w \in Workers, pc[w] # "idle", job[w] # j,
             \A v \in Workers \ {w} : pc'[v] = pc[v] /\ job'[v] = job[v] /\ last'[v] = last[v],
             job'[w] \in {job[w], NoJob}, attempts'[j] = attempts[j], lock'[j] = lock[j], completed'[j] = completed[j]
      PROVE Owing(j)'
  <2>1. CASE Waiting(j)
    BY <1>3, <1>H, <2>1 DEF Owing, Waiting
  <2>2. ASSUME NEW v \in Workers, job[v] = j, Working(v) PROVE Owing(j)'
    BY <1>3, <1>H, <2>2 DEF Owing, Working
  <2> QED BY <2>1, <2>2 DEF Owing
\* The worker that is inside the job works on, or leaves it to be claimed.
<1>4. ASSUME NEW w \in Workers, job[w] = j, job'[w] = j, Working(w)', completed'[j] = completed[j]
      PROVE Owing(j)'
  BY <1>4, <1>H DEF Owing
<1>5. ASSUME NEW w \in Workers, job[w] = j, \A v \in Workers \ {w} : job'[v] = job[v], job'[w] = NoJob,
             attempts'[j] < MaxAttempts \/ lock'[j] # "free", completed'[j] = completed[j]
      PROVE Owing(j)'
  BY <1>5, <1>H DEF Owing, Waiting
<1>6. ASSUME NEW w \in Workers, Attempt(w) \/ Crash(w), job[w] # j PROVE Owing(j)'
  BY <1>3, <1>6 DEF Attempt, ReadSucceeds, NotExtracted, HandleThrows, BeginSave, StatementAlreadySaved, CommitSave,
         QueueReceiptReport, BeginRefund, CommitRefund, CompleteJob, FailJob, Crash
<1>7. ASSUME NEW w \in Workers, Attempt(w) \/ Crash(w), job[w] = j
      PROVE Owing(j)' \/ doc'[capture[j]] \/ refunded'[capture[j]]
  <2>1. Working(w)
    BY <1>7, <1>H DEF Owing, Waiting
  <2>2. CASE ReadSucceeds(w) \/ NotExtracted(w) \/ BeginSave(w) \/ BeginRefund(w)
    BY <1>4, <1>7, <2>2 DEF ReadSucceeds, NotExtracted, BeginSave, BeginRefund, Working
  <2>3. CASE HandleThrows(w)
    BY <1>4, <1>7, <2>3 DEF HandleThrows, Working
  <2>4. CASE StatementAlreadySaved(w) \/ CommitSave(w)
    BY <1>7, <1>H, <2>4 DEF StatementAlreadySaved, CommitSave, Cap
  <2>5. CASE QueueReceiptReport(w) \/ CompleteJob(w)
    BY <2>1, <2>5 DEF QueueReceiptReport, CompleteJob, Working
  <2>6. CASE CommitRefund(w)
    BY <1>7, <1>H, <2>6 DEF CommitRefund, GiveBack, RefundSees, Cap
  <2>7. CASE FailJob(w)
    <3>1. attempts[j] < MaxAttempts
      BY <1>7, <1>H, <2>1, <2>7 DEF FailJob, Working
    <3> QED BY <1>5, <1>7, <2>7, <3>1 DEF FailJob
  <2>8. CASE Crash(w)
    BY <1>5, <1>7, <1>H, <2>8 DEF Crash
  <2> QED BY <1>7, <2>2, <2>3, <2>4, <2>5, <2>6, <2>7, <2>8 DEF Attempt
<1>8. CASE \E w \in Workers : RenewJobLock(w)
  BY <1>1, <1>8 DEF RenewJobLock
<1>9. CASE \E i \in Jobs : LockGoesStale(i)
  BY <1>1, <1>9 DEF LockGoesStale, LockAges
<1>10. CASE Api
  BY <1>1, <1>10 DEF Api, FindNotQueued, EnqueueExtraction, AdminReextract, GrantExpires, NewJob
<1>11. CASE UNCHANGED vars
  BY <1>1, <1>11 DEF vars
<1> HIDE <1>T
<1> QED BY <1>0, <1>2, <1>6, <1>7, <1>8, <1>9, <1>10, <1>11 DEF Next, Worker

LEMMA SettledStep ==
  ASSUME TypeOK, HolderInv, RefundSees, SettledInv, [Next]_vars PROVE SettledInv'
<1> USE DEF queueVars, creditVars, captureVars, workVars, faultVars
<1>T. /\ stalls \in Nat /\ errors \in Nat /\ NoGrant \notin Grants
      /\ capture \in [Jobs -> Captures \cup {NoCapture}] /\ NoCapture \notin Captures
      /\ paidBy \in [Captures -> Grants \cup {NoGrant}] /\ doc \in [Captures -> BOOLEAN] /\ refunded \in [Captures -> BOOLEAN]
  BY ConstantsAssumption DEF TypeOK, QueueTypeOK, CaptureTypeOK, CreditTypeOK, Grants, NoGrant
<1> SUFFICES ASSUME stalls' = 0, errors' = 0, NEW c \in Captures, paidBy'[c] # NoGrant
             PROVE  doc'[c] \/ refunded'[c] \/ \E j \in Jobs : capture'[j] = c /\ Owing(j)'
  BY DEF SettledInv
<1>0. stalls = 0 /\ errors = 0
  BY <1>T DEF Fault, DbError, SaveRollsBack, QueueReportFails, RefundFails, CompleteFails, FailJobFails, HeartbeatMissed,
         Next, Api, Worker, Attempt, vars, FindNotQueued, EnqueueExtraction, AdminReextract, GrantExpires, ClaimJob, Take,
         ReadSucceeds, NotExtracted, HandleThrows, BeginSave, StatementAlreadySaved, CommitSave,
         QueueReceiptReport, BeginRefund, CommitRefund, CompleteJob, FailJob, RenewJobLock, Crash, LockGoesStale
\* The job a charge queues is free, new and unclaimed.
<1>1. ASSUME NEW d \in Captures, NEW j \in Jobs, EnqueueExtraction(d, j), d = c
      PROVE  \E i \in Jobs : capture'[i] = c /\ Owing(i)'
  <2>1. capture[j] = NoCapture /\ capture'[j] = c /\ UNCHANGED <<attempts, lock, completed, pc, job, last>>
    BY <1>1, <1>T DEF EnqueueExtraction, NewJob, Queued
  <2>2. attempts[j] = 0 /\ ~completed[j] /\ \A w \in Workers : job[w] # j
    BY <1>1, <1>T, <2>1, ConstantsAssumption DEF HolderInv, TypeOK, WorkTypeOK, Queued
  <2>3. attempts'[j] < MaxAttempts /\ ~completed'[j] /\ \A w \in Workers : job'[w] # j
    BY <2>1, <2>2, ConstantsAssumption
  <2>4. Owing(j)'
    BY <2>3 DEF Owing, Waiting
  <2> QED BY <2>1, <2>4
<1>2. ASSUME ~\E d \in Captures, j \in Jobs : EnqueueExtraction(d, j) /\ d = c
      PROVE  paidBy[c] # NoGrant
  BY <1>2, <1>T DEF Fault, DbError, SaveRollsBack, QueueReportFails, RefundFails, CompleteFails, FailJobFails, HeartbeatMissed,
         Next, Api, Worker, Attempt, vars, FindNotQueued, EnqueueExtraction, AdminReextract, GrantExpires, ClaimJob, Take,
         ReadSucceeds, NotExtracted, HandleThrows, BeginSave, StatementAlreadySaved, CommitSave,
         QueueReceiptReport, BeginRefund, CommitRefund, CompleteJob, FailJob, RenewJobLock, Crash, LockGoesStale, LockAges
<1>3. /\ \A j \in Jobs : Queued(j) => capture'[j] = capture[j]
      /\ doc[c] => doc'[c]
      /\ refunded[c] => refunded'[c]
  BY <1>T DEF Queued, NewJob, GiveBack, Fault, DbError, SaveRollsBack, QueueReportFails, RefundFails, CompleteFails,
         FailJobFails, HeartbeatMissed,
         Next, Api, Worker, Attempt, vars, FindNotQueued, EnqueueExtraction, AdminReextract, GrantExpires, ClaimJob, Take,
         ReadSucceeds, NotExtracted, HandleThrows, BeginSave, StatementAlreadySaved, CommitSave,
         QueueReceiptReport, BeginRefund, CommitRefund, CompleteJob, FailJob, RenewJobLock, Crash, LockGoesStale, LockAges
<1>4. ASSUME paidBy[c] # NoGrant
      PROVE  doc'[c] \/ refunded'[c] \/ \E j \in Jobs : capture'[j] = c /\ Owing(j)'
  <2>1. CASE doc[c] \/ refunded[c]
    BY <1>3, <2>1
  <2>2. ASSUME NEW j \in Jobs, capture[j] = c, Owing(j)
        PROVE  doc'[c] \/ refunded'[c] \/ \E i \in Jobs : capture'[i] = c /\ Owing(i)'
    <3>1. Queued(j)
      BY <2>2, <1>T DEF Queued
    <3>2. Owing(j)' \/ doc'[c] \/ refunded'[c]
      BY <1>4, <2>2, <3>1, OwingStep
    <3> QED BY <1>3, <2>2, <3>1, <3>2
  <2> QED BY <1>0, <1>4, <2>1, <2>2 DEF SettledInv
<1> QED BY <1>1, <1>2, <1>4

\* When the jobs of a charged capture are over the user has the document or
\* the credit, with any number of workers killed at any moment.
THEOREM SettledCorrect == Spec => []OverMeansSettled
<1> DEFINE IInv == TypeOK /\ HolderInv /\ RefundSees /\ SettledInv
<1>1. Init => IInv
  BY ReadInvInit, ConstantsAssumption DEF Init, HolderInv, Queued, RefundSees, SettledInv
<1>2. IInv /\ [Next]_vars => IInv'
  BY TypeStep, HolderInvStep, RefundSeesStep, SettledStep
<1>3. IInv => OverMeansSettled
  <2> SUFFICES ASSUME IInv, stalls = 0, errors = 0, NEW c \in Captures, paidBy[c] # NoGrant,
                      \A j \in Jobs : capture[j] = c => Over(j)
               PROVE  doc[c] \/ refunded[c]
    BY DEF OverMeansSettled
  <2>1. ASSUME NEW j \in Jobs, capture[j] = c, Owing(j) PROVE FALSE
    <3>1. lock[j] = "free" /\ attempts[j] = MaxAttempts
      BY <2>1 DEF Over, Owing
    <3>2. \A w \in Workers : job[w] # j
      BY <2>1, <3>1, ConstantsAssumption DEF HolderInv
    <3> QED BY <2>1, <3>1, <3>2, ConstantsAssumption DEF Owing, Waiting
  <2> QED BY <2>1 DEF SettledInv
<1> HIDE DEF IInv
<1> QED BY <1>1, <1>2, <1>3, PTL DEF Spec

---------------------------------------------------------------------------
(* Nothing is forgotten, also where heartbeats and calls fail              *)

\* A step of worker w inside job j: it stays there, or leaves.
LEMMA WorkerStep ==
  ASSUME TypeOK, HolderInv, NEW w \in Workers, Attempt(w) \/ DbError(w) \/ Crash(w)
  PROVE  /\ pc[w] # "idle" /\ job[w] \in Jobs
         /\ \A v \in Workers \ {w} : pc'[v] = pc[v] /\ job'[v] = job[v] /\ last'[v] = last[v]
         /\ \/ job'[w] = job[w] /\ last'[w] = last[w] /\ pc'[w] # "idle"
            \/ job'[w] = NoJob /\ pc'[w] = "idle"
         /\ UNCHANGED <<capture, attempts, paidBy>>
         /\ \A j \in Jobs : completed'[j] # completed[j] => CompleteJob(w) /\ j = job[w]
<1> USE DEF Goto, Catch, BackToIdle, queueVars, creditVars, captureVars, workVars, faultVars
<1>T. /\ pc \in [Workers -> Steps] /\ job \in [Workers -> Jobs \cup {NoJob}] /\ last \in [Workers -> BOOLEAN]
      /\ completed \in [Jobs -> BOOLEAN]
      /\ \A v \in Workers : pc[v] # "idle" => job[v] \in Jobs
  BY DEF TypeOK, QueueTypeOK, WorkTypeOK
<1>1. pc[w] # "idle"
  BY DEF Attempt, DbError, ReadSucceeds, NotExtracted, HandleThrows, BeginSave, StatementAlreadySaved, CommitSave,
       QueueReceiptReport, BeginRefund, CommitRefund, CompleteJob, FailJob,
       SaveRollsBack, QueueReportFails, RefundFails, CompleteFails, FailJobFails, Crash
<1>2. CASE Attempt(w)
  BY <1>T, <1>1, <1>2 DEF Attempt, ReadSucceeds, NotExtracted, HandleThrows, BeginSave, StatementAlreadySaved, CommitSave,
       QueueReceiptReport, BeginRefund, CommitRefund, AfterRefund, CompleteJob, FailJob
<1>3. CASE DbError(w) \/ Crash(w)
  BY <1>T, <1>1, <1>3 DEF DbError, SaveRollsBack, QueueReportFails, RefundFails, AfterRefund, CompleteFails, FailJobFails, Crash
<1> QED BY <1>2, <1>3

\* Where a worker in an unsettled job goes: on within its attempt, or past it
\* with the scan settled, or by one of the two steps that lose it.
Within == {"handle", "save", "saving", "refund", "refunding"}
LEMMA WithinAttempt ==
  ASSUME TypeOK, ReadInv, RefundSees, NEW w \in Workers, pc[w] # "complete",
         Attempt(w) \/ DbError(w) \/ Crash(w), paidBy[Cap(w)] # NoGrant
  PROVE  \/ pc'[w] \in Within
         \/ pc[w] \notin Within /\ pc'[w] \in {"fail", "idle"}
         \/ ~last[w] /\ pc'[w] \in {"fail", "idle"}
         \/ doc'[Cap(w)] \/ refunded'[Cap(w)]
         \/ RefundFails(w) \/ (Crash(w) /\ last[w])
<1> USE DEF Goto, Catch, BackToIdle, queueVars, creditVars, captureVars, workVars, faultVars, Within
<1>T. /\ pc \in [Workers -> Steps] /\ last \in [Workers -> BOOLEAN]
      /\ doc \in [Captures -> BOOLEAN] /\ refunded \in [Captures -> BOOLEAN]
      /\ pc[w] # "idle" => Cap(w) \in Captures
  BY DEF TypeOK, QueueTypeOK, WorkTypeOK, CaptureTypeOK, CreditTypeOK, Cap
<1>1. CASE ReadSucceeds(w) \/ NotExtracted(w) \/ BeginSave(w) \/ BeginRefund(w)
  BY <1>T, <1>1 DEF ReadSucceeds, NotExtracted, BeginSave, BeginRefund
<1>2. CASE HandleThrows(w) \/ SaveRollsBack(w)
  BY <1>T, <1>2 DEF HandleThrows, SaveRollsBack
<1>3. CASE StatementAlreadySaved(w) \/ CommitSave(w)
  BY <1>T, <1>3 DEF StatementAlreadySaved, CommitSave
<1>4. CASE QueueReceiptReport(w) \/ QueueReportFails(w)
  BY <1>4 DEF QueueReceiptReport, QueueReportFails, ReadInv, ReadsHold
<1>5. CASE CommitRefund(w)
  BY <1>T, <1>5 DEF CommitRefund, GiveBack, RefundSees
<1>6. CASE CompleteJob(w) \/ CompleteFails(w) \/ FailJob(w) \/ FailJobFails(w)
  BY <1>T, <1>6 DEF CompleteJob, CompleteFails, FailJob, FailJobFails
<1>7. CASE Crash(w)
  BY <1>T, <1>7 DEF Crash
<1> QED BY <1>1, <1>2, <1>3, <1>4, <1>5, <1>6, <1>7 DEF Attempt, DbError

\* A job owes its capture an end until the scan is settled or lost.
LEMMA OwesStep ==
  ASSUME TypeOK, HolderInv, ReadInv, RefundSees, [Next]_vars,
         NEW j \in Jobs, Queued(j), Owes(j), paidBy[capture[j]] # NoGrant
  PROVE  \/ Owes(j)'
         \/ doc'[capture[j]] \/ refunded'[capture[j]]
         \/ \E w \in Workers : pc[w] # "idle" /\ job[w] = j /\ (RefundFails(w) \/ (Crash(w) /\ last[w]))
<1>T. /\ pc \in [Workers -> Steps] /\ job \in [Workers -> Jobs \cup {NoJob}] /\ last \in [Workers -> BOOLEAN]
      /\ attempts \in [Jobs -> 0..MaxAttempts] /\ completed \in [Jobs -> BOOLEAN]
      /\ NoJob \notin Jobs /\ MaxAttempts \in Nat \ {0}
      /\ \A w \in Workers : pc[w] = "idle" <=> job[w] = NoJob
  BY ConstantsAssumption DEF TypeOK, QueueTypeOK, WorkTypeOK, HolderInv
<1>1. CASE UNCHANGED <<attempts, completed, pc, job, last>>
  BY <1>1 DEF Owes
<1>2. ASSUME NEW w \in Workers, NEW i \in Jobs, ClaimJob(w, i) PROVE Owes(j)'
  <2>1. /\ pc[w] = "idle" /\ job[w] = NoJob /\ completed' = completed
        /\ pc' = [pc EXCEPT ![w] = "handle"] /\ job' = [job EXCEPT ![w] = i]
        /\ last' = [last EXCEPT ![w] = (attempts[i] + 1 >= MaxAttempts)]
        /\ attempts' = [attempts EXCEPT ![i] = @ + 1] /\ attempts[i] < MaxAttempts
    BY <1>2, <1>T DEF ClaimJob, Take
  <2>2. /\ \A v \in Workers \ {w} : pc'[v] = pc[v] /\ job'[v] = job[v] /\ last'[v] = last[v]
        /\ pc'[w] = "handle" /\ job'[w] = i
    BY <1>T, <2>1
  <2>3. ~completed'[j] /\ \A v \in Workers : job'[v] = j => pc'[v] # "complete"
    BY <2>1, <2>2 DEF Owes
  <2>4. CASE i = j /\ attempts[j] + 1 < MaxAttempts
    BY <1>T, <2>1, <2>3, <2>4 DEF Owes
  <2>5. CASE i = j /\ attempts[j] + 1 >= MaxAttempts
    <3> DEFINE now == attempts[i] + 1 >= MaxAttempts
    <3>1. now
      BY <2>5
    <3>2. last' = [last EXCEPT ![w] = now] /\ w \in DOMAIN last
      BY <1>T, <2>1
    <3> HIDE DEF now
    <3>3. last'[w]
      BY <3>1, <3>2, Zenon
    <3> QED BY <2>2, <2>3, <2>5, <3>3 DEF Owes
  <2>6. CASE i # j
    <3>1. attempts'[j] = attempts[j]
      BY <1>T, <2>1, <2>6
    <3>2. \A v \in Workers : job[v] = j => v # w
      BY <1>T, <2>1
    <3> QED BY <2>2, <2>3, <3>1, <3>2 DEF Owes
  <2> QED BY <2>4, <2>5, <2>6, <1>T
<1>3. ASSUME NEW w \in Workers, Attempt(w) \/ DbError(w) \/ Crash(w)
      PROVE  \/ Owes(j)'
             \/ doc'[capture[j]] \/ refunded'[capture[j]]
             \/ pc[w] # "idle" /\ job[w] = j /\ (RefundFails(w) \/ (Crash(w) /\ last[w]))
  <2>1. /\ pc[w] # "idle" /\ job[w] \in Jobs
        /\ \A v \in Workers \ {w} : pc'[v] = pc[v] /\ job'[v] = job[v] /\ last'[v] = last[v]
        /\ \/ job'[w] = job[w] /\ last'[w] = last[w] /\ pc'[w] # "idle"
           \/ job'[w] = NoJob /\ pc'[w] = "idle"
        /\ attempts' = attempts
        /\ completed'[j] # completed[j] => CompleteJob(w) /\ j = job[w]
    BY <1>3, WorkerStep
  <2>2. CASE job[w] # j
    <3>1. job'[w] # j /\ completed'[j] = completed[j]
      BY <1>T, <2>1, <2>2
    <3> QED BY <2>1, <2>2, <3>1 DEF Owes
  <2>3. CASE job[w] = j
    <3>1. pc[w] # "complete" /\ completed'[j] = completed[j] /\ Cap(w) = capture[j]
      BY <2>1, <2>3 DEF Owes, CompleteJob, Cap
    <3>2. \/ pc'[w] \in Within
          \/ pc[w] \notin Within /\ pc'[w] \in {"fail", "idle"}
          \/ ~last[w] /\ pc'[w] \in {"fail", "idle"}
          \/ doc'[capture[j]] \/ refunded'[capture[j]]
          \/ RefundFails(w) \/ (Crash(w) /\ last[w])
      BY <1>3, <3>1, WithinAttempt
    <3>3. ASSUME \/ pc'[w] \in Within
                 \/ pc[w] \notin Within /\ pc'[w] \in {"fail", "idle"}
                 \/ ~last[w] /\ pc'[w] \in {"fail", "idle"}
          PROVE  Owes(j)'
      <4>1. ~completed'[j] /\ \A v \in Workers : job'[v] = j => pc'[v] # "complete"
        BY <2>1, <3>1, <3>3 DEF Owes, Within
      <4>2. CASE attempts[j] < MaxAttempts
        BY <2>1, <4>1, <4>2 DEF Owes
      <4>3. ASSUME NEW v \in Workers, job[v] = j, last[v], pc[v] \in Within
            PROVE  \E u \in Workers : job'[u] = j /\ last'[u] /\ pc'[u] \in Within
        <5>1. CASE v # w
          BY <2>1, <4>3, <5>1
        <5>2. CASE v = w
          <6>1. pc'[w] \in Within
            BY <3>3, <4>3, <5>2
          <6>2. job'[w] = j /\ last'[w]
            BY <2>1, <2>3, <4>3, <5>2, <6>1 DEF Within
          <6> QED BY <6>1, <6>2
        <5> QED BY <5>1, <5>2
      <4> QED BY <4>1, <4>2, <4>3 DEF Owes, Within
    <3> QED BY <2>1, <2>3, <3>2, <3>3
  <2> QED BY <2>2, <2>3
<1>4. CASE \E w \in Workers : RenewJobLock(w)
  BY <1>1, <1>4 DEF RenewJobLock, workVars
<1>5. CASE \E i \in Jobs : LockGoesStale(i) \/ HeartbeatMissed(i)
  BY <1>1, <1>5 DEF LockGoesStale, HeartbeatMissed, LockAges, workVars
<1>6. CASE Api
  BY <1>1, <1>6 DEF Api, FindNotQueued, EnqueueExtraction, AdminReextract, GrantExpires, NewJob, queueVars, workVars
<1>7. CASE UNCHANGED vars
  BY <1>1, <1>7 DEF vars, queueVars, workVars
<1> HIDE <1>T
<1> QED BY <1>2, <1>3, <1>4, <1>5, <1>6, <1>7 DEF Next, Worker

\* What never goes back: a charge, a document, a credit given back, a report,
\* the payload of a queued job, and the counts of failures.
LEMMA NothingUndone ==
  ASSUME TypeOK, [Next]_vars
  PROVE  /\ \A c \in Captures : paidBy[c] # NoGrant => paidBy'[c] = paidBy[c]
         /\ \A c \in Captures : doc[c] => doc'[c]
         /\ \A c \in Captures : refunded[c] => refunded'[c]
         /\ \A c \in Captures : report[c] # "none" => report'[c] # "none"
         /\ \A j \in Jobs : Queued(j) => capture'[j] = capture[j]
         /\ (errors' = 0 => errors = 0) /\ (crashes > 0 => crashes' > 0)
<1>1. /\ capture \in [Jobs -> Captures \cup {NoCapture}] /\ paidBy \in [Captures -> Grants \cup {NoGrant}]
      /\ doc \in [Captures -> BOOLEAN] /\ refunded \in [Captures -> BOOLEAN]
      /\ report \in [Captures -> {"none", "pending", "skipped_free"}] /\ errors \in Nat /\ crashes \in Nat
  BY ConstantsAssumption DEF TypeOK, QueueTypeOK, CaptureTypeOK, CreditTypeOK
<1>2. CASE Api
  BY <1>1, <1>2 DEF Api, FindNotQueued, EnqueueExtraction, AdminReextract, GrantExpires, NewJob, Queued,
     queueVars, creditVars, captureVars, faultVars
<1>3. ASSUME NEW w \in Workers, Worker(w) \/ RenewJobLock(w)
      PROVE  /\ UNCHANGED <<capture, paidBy, errors, crashes>>
             /\ \A c \in Captures : doc[c] => doc'[c]
             /\ \A c \in Captures : refunded[c] => refunded'[c]
             /\ \A c \in Captures : report[c] # "none" => report'[c] # "none"
  BY <1>1, <1>3 DEF Worker, Attempt, ClaimJob, Take, ReadSucceeds, NotExtracted, HandleThrows, BeginSave,
     StatementAlreadySaved, CommitSave, QueueReceiptReport, BeginRefund, CommitRefund, GiveBack, CompleteJob, FailJob,
     RenewJobLock, queueVars, creditVars, captureVars, faultVars
<1>4. ASSUME NEW w \in Workers, DbError(w) \/ Crash(w)
      PROVE  /\ UNCHANGED <<capture, paidBy, doc, refunded, report>>
             /\ errors' \in {errors, errors + 1} /\ crashes' \in {crashes, crashes + 1}
  BY <1>1, <1>4 DEF DbError, SaveRollsBack, QueueReportFails, RefundFails, CompleteFails, FailJobFails, Fault, Crash,
     queueVars, creditVars, captureVars, faultVars
<1>5. CASE (\E j \in Jobs : LockGoesStale(j) \/ HeartbeatMissed(j)) \/ UNCHANGED vars
  BY <1>5 DEF LockGoesStale, HeartbeatMissed, LockAges, vars, queueVars, creditVars, captureVars, faultVars
<1> QED BY <1>1, <1>2, <1>3, <1>4, <1>5 DEF Next

\* The charge queues a job that has every attempt before it.
LEMMA ChargeOwes ==
  ASSUME TypeOK, HolderInv, [Next]_vars, NEW c \in Captures, paidBy[c] = NoGrant, paidBy'[c] # NoGrant
  PROVE  Owed(c)'
<1>T. /\ capture \in [Jobs -> Captures \cup {NoCapture}] /\ NoCapture \notin Captures
      /\ paidBy \in [Captures -> Grants \cup {NoGrant}]
      /\ NoJob \notin Jobs /\ MaxAttempts \in Nat \ {0}
      /\ \A w \in Workers : pc[w] # "idle" => capture[job[w]] \in Captures
      /\ \A w \in Workers : pc[w] = "idle" <=> job[w] = NoJob
  BY ConstantsAssumption DEF TypeOK, QueueTypeOK, CreditTypeOK, WorkTypeOK, HolderInv
<1>1. PICK d \in Captures, j \in Jobs : EnqueueExtraction(d, j)
  BY DEF Next, Api, Worker, Attempt, DbError, vars, creditVars,
     FindNotQueued, AdminReextract, GrantExpires, ClaimJob, Take,
     ReadSucceeds, NotExtracted, HandleThrows, BeginSave, StatementAlreadySaved, CommitSave, QueueReceiptReport,
     BeginRefund, CommitRefund, CompleteJob, FailJob, RenewJobLock, SaveRollsBack, QueueReportFails, RefundFails,
     CompleteFails, FailJobFails, Crash, LockGoesStale, HeartbeatMissed, LockAges
<1>2. d = c
  BY <1>1, <1>T DEF EnqueueExtraction
<1>3. /\ capture[j] = NoCapture /\ capture'[j] = c
      /\ UNCHANGED <<attempts, completed, pc, job, last>>
  BY <1>1, <1>2, <1>T DEF EnqueueExtraction, NewJob, Queued, workVars
<1>4. attempts[j] = 0 /\ ~completed[j] /\ \A w \in Workers : job[w] # j
  BY <1>3, <1>T DEF HolderInv, Queued
<1>5. Owes(j)'
  BY <1>3, <1>4, <1>T DEF Owes
<1> QED BY <1>3, <1>5 DEF Owed

\* A charged capture is owed its document or its credit until it has one, and
\* only a refund's failed call or a kill in the last attempt drops the debt,
\* with any number of workers, of jobs for the capture, and of failures.
THEOREM OwedCorrect == Spec => OwedUntilSettled
<1> DEFINE Stays(c) ==
             /\ paidBy[c] = NoGrant /\ paidBy'[c] # NoGrant => Owed(c)'
             /\ Owed(c) /\ ~Owed(c)' =>
                  \/ doc'[c] \/ refunded'[c]
                  \/ \E w \in Workers : /\ pc[w] # "idle" /\ Cap(w) = c
                                        /\ RefundFails(w) \/ (Crash(w) /\ last[w])
<1>1. TypeOK /\ HolderInv /\ ReadInv /\ RefundSees /\ [Next]_vars => [\A c \in Captures : Stays(c)]_vars
  <2> SUFFICES ASSUME TypeOK, HolderInv, ReadInv, RefundSees, [Next]_vars, NEW c \in Captures PROVE Stays(c)
    OBVIOUS
  <2>1. paidBy[c] = NoGrant /\ paidBy'[c] # NoGrant => Owed(c)'
    BY ChargeOwes
  <2>2. ASSUME Owed(c), ~Owed(c)'
        PROVE  \/ doc'[c] \/ refunded'[c]
               \/ \E w \in Workers : /\ pc[w] # "idle" /\ Cap(w) = c
                                     /\ RefundFails(w) \/ (Crash(w) /\ last[w])
    <3>1. PICK j \in Jobs : capture[j] = c /\ Owes(j)
      BY <2>2 DEF Owed
    <3>2. Queued(j) /\ paidBy[c] # NoGrant
      BY <2>2, <3>1, ConstantsAssumption DEF Owed, Queued
    <3>3. capture'[j] = c /\ paidBy'[c] # NoGrant
      BY <3>1, <3>2, NothingUndone
    <3>4. ~Owes(j)'
      BY <2>2, <3>3 DEF Owed
    <3>5. \/ doc'[c] \/ refunded'[c]
          \/ \E w \in Workers : pc[w] # "idle" /\ job[w] = j /\ (RefundFails(w) \/ (Crash(w) /\ last[w]))
      BY <3>1, <3>2, <3>4, OwesStep
    <3> QED BY <3>1, <3>5 DEF Cap
  <2> QED BY <2>1, <2>2
<1>2. Init => TypeOK /\ HolderInv /\ ReadInv /\ RefundSees
  BY ReadInvInit, ConstantsAssumption DEF Init, HolderInv, Queued, RefundSees
<1>3. TypeOK /\ HolderInv /\ ReadInv /\ RefundSees /\ [Next]_vars => (TypeOK /\ HolderInv /\ ReadInv /\ RefundSees)'
  BY TypeStep, HolderInvStep, ReadInvStep, RefundSeesStep
<1> QED BY <1>1, <1>2, <1>3, PTL DEF Spec, OwedUntilSettled

\* A job that was not completed and is not about to be.
Left(j) == ~completed[j] /\ \A w \in Workers : job[w] = j => pc[w] # "complete"

\* While no call fails, a charged capture that is not settled is owed its end,
\* or was left by a killed worker in a job that nobody completes.
DebtInv ==
  errors = 0 => \A c \in Captures : paidBy[c] # NoGrant =>
    \/ doc[c] \/ refunded[c] \/ Owed(c)
    \/ crashes > 0 /\ \E j \in Jobs : capture[j] = c /\ Left(j)

\* A job stays uncompleted until its capture is settled.
LEMMA LeftStep ==
  ASSUME TypeOK, HolderInv, ReadInv, RefundSees, [Next]_vars, errors' = 0,
         NEW j \in Jobs, Queued(j), Left(j), paidBy[capture[j]] # NoGrant
  PROVE  Left(j)' \/ doc'[capture[j]] \/ refunded'[capture[j]]
<1>T. /\ pc \in [Workers -> Steps] /\ job \in [Workers -> Jobs \cup {NoJob}] /\ errors \in Nat
      /\ NoJob \notin Jobs /\ \A w \in Workers : pc[w] = "idle" <=> job[w] = NoJob
  BY ConstantsAssumption DEF TypeOK, WorkTypeOK, HolderInv
<1>1. CASE UNCHANGED <<completed, pc, job>>
  BY <1>1 DEF Left
<1>2. ASSUME NEW w \in Workers, NEW i \in Jobs, ClaimJob(w, i) PROVE Left(j)'
  <2>1. completed' = completed /\ pc' = [pc EXCEPT ![w] = "handle"] /\ job' = [job EXCEPT ![w] = i]
    BY <1>2 DEF ClaimJob, Take
  <2> QED BY <1>T, <2>1 DEF Left
<1>3. ASSUME NEW w \in Workers, Attempt(w) \/ DbError(w) \/ Crash(w)
      PROVE  Left(j)' \/ doc'[capture[j]] \/ refunded'[capture[j]]
  <2>1. /\ \A v \in Workers \ {w} : pc'[v] = pc[v] /\ job'[v] = job[v]
        /\ job'[w] = job[w] \/ job'[w] = NoJob
        /\ completed'[j] # completed[j] => CompleteJob(w) /\ j = job[w]
    BY <1>3, WorkerStep
  <2>2. CASE job[w] # j
    BY <1>T, <2>1, <2>2 DEF Left
  <2>3. CASE job[w] = j
    <3>1. pc[w] # "complete" /\ completed'[j] = completed[j] /\ Cap(w) = capture[j]
      BY <2>1, <2>3 DEF Left, CompleteJob, Cap
    <3>2. ~RefundFails(w)
      BY <1>T DEF RefundFails, Fault
    <3>3. Crash(w) => pc'[w] = "idle"
      BY <1>T DEF Crash, BackToIdle
    <3>4. pc'[w] # "complete" \/ doc'[capture[j]] \/ refunded'[capture[j]]
      BY <1>3, <3>1, <3>2, <3>3, WithinAttempt DEF Within
    <3> QED BY <2>1, <3>1, <3>4 DEF Left
  <2> QED BY <2>2, <2>3
<1>4. CASE \E w \in Workers : RenewJobLock(w)
  BY <1>1, <1>4 DEF RenewJobLock, workVars
<1>5. CASE \E i \in Jobs : LockGoesStale(i) \/ HeartbeatMissed(i)
  BY <1>1, <1>5 DEF LockGoesStale, HeartbeatMissed, LockAges, workVars
<1>6. CASE Api
  BY <1>1, <1>6 DEF Api, FindNotQueued, EnqueueExtraction, AdminReextract, GrantExpires, NewJob, queueVars, workVars
<1>7. CASE UNCHANGED vars
  BY <1>1, <1>7 DEF vars, queueVars, workVars
<1> HIDE <1>T
<1> QED BY <1>2, <1>3, <1>4, <1>5, <1>6, <1>7 DEF Next, Worker

LEMMA DebtStep ==
  ASSUME TypeOK, HolderInv, ReadInv, RefundSees, DebtInv, [Next]_vars PROVE DebtInv'
<1> SUFFICES ASSUME errors' = 0, NEW c \in Captures, paidBy'[c] # NoGrant
             PROVE  \/ doc'[c] \/ refunded'[c] \/ Owed(c)'
                    \/ crashes' > 0 /\ \E j \in Jobs : capture'[j] = c /\ Left(j)'
  BY DEF DebtInv
<1>1. CASE paidBy[c] = NoGrant
  BY <1>1, ChargeOwes
<1>2. CASE paidBy[c] # NoGrant
  <2>0. errors = 0 /\ (doc[c] => doc'[c]) /\ (refunded[c] => refunded'[c]) /\ (crashes > 0 => crashes' > 0)
        /\ \A j \in Jobs : capture[j] = c => Queued(j) /\ capture'[j] = c
    BY NothingUndone, ConstantsAssumption DEF Queued
  <2>1. ASSUME NEW j \in Jobs, capture[j] = c, Left(j), crashes' > 0
        PROVE  doc'[c] \/ refunded'[c] \/ (crashes' > 0 /\ \E i \in Jobs : capture'[i] = c /\ Left(i)')
    BY <1>2, <2>0, <2>1, LeftStep
  <2>2. ASSUME NEW j \in Jobs, capture[j] = c, Owes(j)
        PROVE  \/ doc'[c] \/ refunded'[c] \/ Owed(c)'
               \/ crashes' > 0 /\ \E i \in Jobs : capture'[i] = c /\ Left(i)'
    <3>1. CASE Owes(j)'
      BY <2>0, <2>2, <3>1 DEF Owed
    <3>2. ASSUME NEW w \in Workers, RefundFails(w) PROVE FALSE
      BY <2>0, <3>2 DEF RefundFails, Fault
    <3>3. ASSUME NEW w \in Workers, Crash(w) PROVE Left(j) /\ crashes' > 0
      BY <2>2, <3>3 DEF Crash, Owes, Left, TypeOK
    <3>4. \/ Owes(j)' \/ doc'[c] \/ refunded'[c]
          \/ \E w \in Workers : RefundFails(w) \/ Crash(w)
      BY <1>2, <2>0, <2>2, OwesStep
    <3> QED BY <2>1, <2>2, <3>1, <3>2, <3>3, <3>4
  <2> QED BY <1>2, <2>0, <2>1, <2>2 DEF DebtInv, Owed
<1> QED BY <1>1, <1>2

\* The receipts whose saving is reported.
Reportable == Linked \ Statements

\* Only a statement is not extracted, and a worker that leaves forgets why.
ReasonFits ==
  \A w \in Workers : reason[w] = "not_extracted" => pc[w] # "idle" /\ Cap(w) \in Statements

\* While no call fails, who has got past the report has made it, and a document
\* without its report has a worker at the report, or had one that was killed.
ReportInv ==
  errors = 0 =>
    /\ \A w \in Workers : pc[w] = "complete" /\ Cap(w) \in Reportable => report[Cap(w)] # "none"
    /\ \A j \in Jobs : completed[j] /\ capture[j] \in Reportable => report[capture[j]] # "none"
    /\ \A c \in Reportable : doc[c] /\ report[c] = "none" =>
         \E j \in Jobs : /\ capture[j] = c
                         /\ crashes > 0 \/ \E w \in Workers : job[w] = j /\ pc[w] = "report"

LEMMA ReasonFitsStep ==
  ASSUME TypeOK, ReasonFits, [Next]_vars PROVE ReasonFits'
<1> USE DEF Goto, Catch, BackToIdle, queueVars, creditVars, captureVars, workVars, faultVars
<1>T. /\ pc \in [Workers -> Steps] /\ reason \in [Workers -> {"unreadable", "not_extracted"}]
  BY DEF TypeOK, WorkTypeOK
<1>1. \A w \in Workers : pc[w] # "idle" /\ pc'[w] # "idle" => Cap(w)' = Cap(w)
  BY CaptureIsStable
<1>2. ASSUME NEW w \in Workers, reason'[w] = "not_extracted"
      PROVE  pc'[w] # "idle" /\ pc[w] # "idle" /\ Cap(w) \in Statements
  <2>1. CASE \E v \in Workers : Attempt(v)
    BY <1>T, <1>2, <2>1 DEF ReasonFits, Attempt, ReadSucceeds, NotExtracted, HandleThrows, BeginSave, StatementAlreadySaved,
       CommitSave, QueueReceiptReport, BeginRefund, CommitRefund, AfterRefund, CompleteJob, FailJob
  <2>2. CASE \E v \in Workers : DbError(v) \/ Crash(v)
    BY <1>T, <1>2, <2>2 DEF ReasonFits, DbError, SaveRollsBack, QueueReportFails, RefundFails, AfterRefund, CompleteFails,
       FailJobFails, Crash
  <2>3. CASE \E v \in Workers, j \in Jobs : ClaimJob(v, j)
    BY <1>T, <1>2, <2>3 DEF ReasonFits, ClaimJob, Take
  <2>4. CASE UNCHANGED <<reason, pc>>
    BY <1>2, <2>4 DEF ReasonFits
  <2> QED BY <2>1, <2>2, <2>3, <2>4 DEF Next, Api, Worker, FindNotQueued, EnqueueExtraction, AdminReextract, GrantExpires,
       NewJob, RenewJobLock, LockGoesStale, HeartbeatMissed, LockAges, vars
<1> QED BY <1>1, <1>2 DEF ReasonFits

\* A worker reaches the end of its attempt past the report, or in a statement.
LEMMA CompleteIsReported ==
  ASSUME TypeOK, HolderInv, ReasonFits, ReportInv, [Next]_vars, errors' = 0,
         NEW w \in Workers, pc'[w] = "complete", Cap(w)' \in Reportable
  PROVE  report'[Cap(w)'] # "none"
<1> USE DEF Goto, Catch, BackToIdle, queueVars, creditVars, captureVars, workVars, faultVars
<1>T. /\ pc \in [Workers -> Steps] /\ errors \in Nat
      /\ report \in [Captures -> {"none", "pending", "skipped_free"}]
  BY ConstantsAssumption DEF TypeOK, WorkTypeOK, CaptureTypeOK
<1>0. errors = 0 /\ \A c \in Captures : report[c] # "none" => report'[c] # "none"
  BY NothingUndone
<1>1. pc[w] # "idle" /\ Cap(w)' = Cap(w) /\ Cap(w) \in Captures
  <2>1. pc[w] # "idle"
    BY <1>T DEF Next, Api, Worker, Attempt, DbError, vars, FindNotQueued, EnqueueExtraction, AdminReextract, GrantExpires,
       NewJob, ClaimJob, Take, ReadSucceeds, NotExtracted, HandleThrows, BeginSave, StatementAlreadySaved, CommitSave,
       QueueReceiptReport, BeginRefund, CommitRefund, AfterRefund, CompleteJob, FailJob, RenewJobLock, SaveRollsBack,
       QueueReportFails, RefundFails, CompleteFails, FailJobFails, Crash, LockGoesStale, HeartbeatMissed, LockAges
  <2> QED BY <2>1, CaptureIsStable
<1>2. CASE pc[w] = "complete"
  BY <1>0, <1>1, <1>2 DEF ReportInv
<1>3. CASE pc[w] # "complete"
  <2>1. \/ CommitSave(w) \/ QueueReceiptReport(w) \/ QueueReportFails(w)
        \/ CommitRefund(w) \/ RefundFails(w)
    BY <1>T, <1>3 DEF Next, Api, Worker, Attempt, DbError, vars, FindNotQueued, EnqueueExtraction, AdminReextract, GrantExpires,
       NewJob, ClaimJob, Take, ReadSucceeds, NotExtracted, HandleThrows, BeginSave, StatementAlreadySaved, CommitSave,
       QueueReceiptReport, BeginRefund, CommitRefund, AfterRefund, CompleteJob, FailJob, RenewJobLock, SaveRollsBack,
       QueueReportFails, RefundFails, CompleteFails, FailJobFails, Crash, LockGoesStale, HeartbeatMissed, LockAges
  <2>2. CASE CommitSave(w)
    BY <1>T, <1>1, <2>2 DEF CommitSave, Reportable
  <2>3. CASE QueueReceiptReport(w)
    BY <1>T, <1>1, <2>3 DEF QueueReceiptReport, Reportable
  <2>4. CASE QueueReportFails(w) \/ RefundFails(w)
    BY <1>T, <2>4 DEF QueueReportFails, RefundFails, Fault
  <2>5. CASE CommitRefund(w)
    BY <1>T, <1>1, <2>5 DEF CommitRefund, AfterRefund, ReasonFits, Reportable
  <2> QED BY <2>1, <2>2, <2>3, <2>4, <2>5
<1> QED BY <1>2, <1>3

LEMMA ReportStep ==
  ASSUME TypeOK, HolderInv, ReasonFits, ReportInv, [Next]_vars PROVE ReportInv'
<1> SUFFICES ASSUME errors' = 0
             PROVE  /\ \A j \in Jobs : completed'[j] /\ capture'[j] \in Reportable => report'[capture'[j]] # "none"
                    /\ \A c \in Reportable : doc'[c] /\ report'[c] = "none" =>
                         \E j \in Jobs : /\ capture'[j] = c
                                         /\ crashes' > 0 \/ \E w \in Workers : job'[w] = j /\ pc'[w] = "report"
  BY CompleteIsReported DEF ReportInv
<1>T. /\ pc \in [Workers -> Steps] /\ errors \in Nat /\ job \in [Workers -> Jobs \cup {NoJob}]
      /\ capture \in [Jobs -> Captures \cup {NoCapture}] /\ NoCapture \notin Captures /\ Reportable \subseteq Captures
      /\ completed \in [Jobs -> BOOLEAN] /\ doc \in [Captures -> BOOLEAN]
      /\ report \in [Captures -> {"none", "pending", "skipped_free"}]
  BY ConstantsAssumption DEF TypeOK, WorkTypeOK, CaptureTypeOK, QueueTypeOK, Reportable
<1>0. /\ errors = 0 /\ (crashes > 0 => crashes' > 0)
      /\ \A c \in Captures : report[c] # "none" => report'[c] # "none"
      /\ \A j \in Jobs : Queued(j) => capture'[j] = capture[j]
  BY NothingUndone
<1>1. ASSUME NEW j \in Jobs, completed'[j], capture'[j] \in Reportable PROVE report'[capture'[j]] # "none"
  <2>1. CASE completed[j]
    <3>1. Queued(j)
      BY <2>1 DEF HolderInv
    <3> QED BY <1>T, <1>0, <1>1, <2>1, <3>1 DEF ReportInv
  <2>2. CASE ~completed[j]
    <3>1. PICK w \in Workers : CompleteJob(w)
      BY <1>1, <2>2 DEF Next, Api, Worker, Attempt, DbError, vars, queueVars, FindNotQueued, EnqueueExtraction, AdminReextract,
       GrantExpires, NewJob, ClaimJob, Take, ReadSucceeds, NotExtracted, HandleThrows, BeginSave, StatementAlreadySaved, CommitSave,
       QueueReceiptReport, BeginRefund, CommitRefund, FailJob, RenewJobLock, SaveRollsBack,
       QueueReportFails, RefundFails, CompleteFails, FailJobFails, Crash, LockGoesStale, HeartbeatMissed, LockAges
    <3>2. j = job[w] /\ pc[w] = "complete" /\ capture' = capture
      BY <1>1, <1>T, <2>2, <3>1 DEF CompleteJob
    <3> QED BY <1>T, <1>0, <1>1, <3>2 DEF ReportInv, Cap
  <2> QED BY <2>1, <2>2
<1>2. ASSUME NEW c \in Reportable, doc'[c], report'[c] = "none"
      PROVE  \E j \in Jobs : /\ capture'[j] = c
                             /\ crashes' > 0 \/ \E w \in Workers : job'[w] = j /\ pc'[w] = "report"
  <2>0. report[c] = "none" /\ c \in Captures \ Statements
    BY <1>T, <1>0, <1>2 DEF Reportable
  <2>1. CASE doc[c]
    <3>1. PICK j \in Jobs : /\ capture[j] = c
                            /\ crashes > 0 \/ \E w \in Workers : job[w] = j /\ pc[w] = "report"
      BY <1>0, <2>0, <2>1, <1>2 DEF ReportInv
    <3>2. capture'[j] = c
      BY <1>T, <1>0, <3>1 DEF Queued
    <3>3. ASSUME NEW w \in Workers, job[w] = j, pc[w] = "report"
          PROVE  crashes' > 0 \/ (job'[w] = j /\ pc'[w] = "report")
      <4>1. CASE QueueReceiptReport(w)
        BY <1>T, <1>2, <2>0, <3>1, <3>3, <4>1 DEF QueueReceiptReport, Reportable, Cap
      <4>2. CASE QueueReportFails(w)
        BY <1>T, <4>2 DEF QueueReportFails, Fault
      <4>3. CASE Crash(w)
        BY <4>3 DEF Crash, TypeOK
      <4>4. CASE ~QueueReceiptReport(w) /\ ~QueueReportFails(w) /\ ~Crash(w)
        BY <1>T, <3>3, <4>4 DEF Next, Api, Worker, Attempt, DbError, vars, workVars, FindNotQueued, EnqueueExtraction, AdminReextract,
          GrantExpires, NewJob, ClaimJob, Take, ReadSucceeds, NotExtracted, HandleThrows, BeginSave, StatementAlreadySaved, CommitSave,
          QueueReceiptReport, BeginRefund, CommitRefund, CompleteJob, FailJob, RenewJobLock, SaveRollsBack, Goto, Catch, BackToIdle,
          QueueReportFails, RefundFails, CompleteFails, FailJobFails, Crash, LockGoesStale, HeartbeatMissed, LockAges
      <4> QED BY <4>1, <4>2, <4>3, <4>4
    <3> QED BY <1>0, <3>1, <3>2, <3>3
  <2>2. CASE ~doc[c]
    <3>1. PICK w \in Workers : CommitSave(w)
      BY <1>2, <2>2 DEF Next, Api, Worker, Attempt, DbError, vars, captureVars, FindNotQueued, EnqueueExtraction, AdminReextract,
       GrantExpires, NewJob, ClaimJob, Take, ReadSucceeds, NotExtracted, HandleThrows, BeginSave, StatementAlreadySaved,
       QueueReceiptReport, BeginRefund, CommitRefund, CompleteJob, FailJob, RenewJobLock, SaveRollsBack,
       QueueReportFails, RefundFails, CompleteFails, FailJobFails, Crash, LockGoesStale, HeartbeatMissed, LockAges
    <3>2. Cap(w) = c
      BY <1>T, <1>2, <2>0, <2>2, <3>1 DEF CommitSave
    <3>3. job[w] \in Jobs
      BY <3>1 DEF CommitSave, TypeOK, WorkTypeOK
    <3> QED BY <1>T, <2>0, <3>1, <3>2, <3>3 DEF CommitSave, Goto, Cap, queueVars
  <2> QED BY <2>1, <2>2
<1> QED BY <1>1, <1>2

\* Unless something is lost, a charged capture that is not settled and a linked
\* receipt that is not reported have a job that can still be claimed or has a
\* worker in it, however many heartbeats are missed: the safety half of
\* ScanSettles and ReportQueued.
THEOREM NothingForgotten == Spec => []NotForgotten
<1> DEFINE Inv == /\ TypeOK /\ HolderInv /\ ReadInv /\ RefundSees
                  /\ DebtInv /\ ReasonFits /\ ReportInv
<1>1. Init => Inv
  BY ReadInvInit, ConstantsAssumption DEF Init, HolderInv, Queued, RefundSees, DebtInv, ReasonFits, ReportInv, Reportable
<1>2. Inv /\ [Next]_vars => Inv'
  BY TypeStep, HolderInvStep, ReadInvStep, RefundSeesStep, DebtStep, ReasonFitsStep, ReportStep
<1>3. Inv => NotForgotten
  <2> SUFFICES ASSUME Inv, NEW c \in Captures, ~Lost(c),
                      \/ paidBy[c] # NoGrant /\ ~doc[c] /\ ~refunded[c]
                      \/ c \in Reportable /\ doc[c] /\ report[c] = "none"
               PROVE  WorkedOn(c)
    BY DEF NotForgotten, Reportable
  <2>1. errors = 0 /\ attempts \in [Jobs -> 0..MaxAttempts] /\ MaxAttempts \in Nat
    BY ConstantsAssumption DEF Lost, TypeOK, QueueTypeOK
  <2>2. ASSUME NEW j \in Jobs, capture[j] = c, ~completed[j],
               \/ crashes > 0 \/ attempts[j] < MaxAttempts \/ \E w \in Workers : job[w] = j
        PROVE  WorkedOn(c)
    BY <2>1, <2>2 DEF WorkedOn, Lost
  <2>3. CASE paidBy[c] # NoGrant /\ ~doc[c] /\ ~refunded[c]
    BY <2>1, <2>2, <2>3 DEF DebtInv, Owed, Owes, Left
  <2>4. CASE c \in Reportable /\ doc[c] /\ report[c] = "none"
    <3>1. \A j \in Jobs : capture[j] = c => ~completed[j]
      BY <2>1, <2>4 DEF ReportInv
    <3> QED BY <2>1, <2>2, <2>4, <3>1 DEF ReportInv
  <2> QED BY <2>3, <2>4
<1> HIDE DEF Inv
<1> QED BY <1>1, <1>2, <1>3, PTL DEF Spec

=============================================================================
