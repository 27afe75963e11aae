---------------------------- MODULE ScanPipeline ----------------------------
(***************************************************************************)
(* The extraction queue and the credits that pay for it.                   *)
(*                                                                         *)
(* An API request queues a stored capture: in one transaction it takes a   *)
(* scan credit and inserts an `extract' job (enqueueExtraction).  Worker   *)
(* processes claim jobs under a lock with a timeout, renew it while they   *)
(* work, and either write a document (saveExtraction), give the credit     *)
(* back (refundScanCredit) or release the job for another attempt          *)
(* (failJob).  A paid receipt is then queued for the YourTal points        *)
(* report.  Processes are killed, database calls fail and heartbeats stop. *)
(*                                                                         *)
(* Time is abstract: a job's lock is "fresh" while its locked_at is within *)
(* the claim timeout, and "stale" after it; run_after (the backoff of a    *)
(* released job) only delays a claim, so a released job is claimable at    *)
(* any later moment.                                                       *)
(***************************************************************************)
EXTENDS Naturals, FiniteSets

CONSTANTS
  Captures,     \* captures stored and not yet queued
  Statements,   \* the captures that classify as a bank statement
  Linked,       \* the captures whose uploader holds a live YourTal link
  Workers,      \* worker processes (worker-<pid>)
  Jobs,         \* ids available to `extract' jobs
  MaxAttempts,  \* jobs.max_attempts
  NumGrants,    \* usage grants, numbered in the order they are spent
  Amount,       \* Amount[g]: the credits grant g was given
  Bought,       \* the grants backed by a paid purchase
  NoCapture,    \* the payload of a job id not used yet
  NoJob,        \* the job of an idle worker
  NoWorker,     \* locked_by null, or no transaction on a row
  MaxCrashes,   \* bound: workers killed in a behaviour
  MaxStalls,    \* bound: heartbeats missed for a whole lock timeout
  MaxErrors     \* bound: database calls that fail after the model answered

Grants == 1..NumGrants

\* Grants are spent free ones first, so the bought ones have the last numbers.
ASSUME ConstantsAssumption ==
  /\ Statements \subseteq Captures
  /\ Linked \subseteq Captures
  /\ NoCapture \notin Captures /\ NoJob \notin Jobs /\ NoWorker \notin Workers
  /\ IsFiniteSet(Captures)
  /\ MaxAttempts \in Nat \ {0}
  /\ NumGrants \in Nat
  /\ Amount \in [Grants -> Nat]
  /\ Bought \subseteq Grants
  /\ \A g \in Bought, h \in Grants \ Bought : h < g
  /\ {MaxCrashes, MaxStalls, MaxErrors} \subseteq Nat

\* credit_spends has no row for the capture.
NoGrant == 0

VARIABLES
  capture,    \* jobs: the capture in the payload
  attempts,   \* jobs.attempts, which counts claims
  lock,       \* jobs.locked_at: null, recent, or older than the claim timeout
  lockedBy,   \* jobs.locked_by
  completed,  \* jobs.completed_at is set
  remaining,  \* usage_grants.remaining
  expired,    \* grants whose expires_at has passed
  paidBy,     \* credit_spends.grant_id of the capture, NoGrant with no spend
  refunded,   \* credit_spends.refunded_at is set
  admitted,   \* captures some request has found not queued (isCaptureQueued)
  doc,        \* the capture has a documents row
  report,     \* its yourtal_outbox row
  rowLock,    \* the worker whose transaction holds the captures row
  pc,         \* where a worker is in runOnce
  job,        \* the job it runs
  last,       \* this claim was the job's last attempt
  read,       \* what its transaction read under the row lock
  reason,     \* why it gives the credit back
  crashes, stalls, errors   \* failures so far, for the bounds

queueVars   == <<capture, attempts, lock, lockedBy, completed>>
creditVars  == <<remaining, expired, paidBy, refunded>>
captureVars == <<admitted, doc, report, rowLock>>
workVars    == <<pc, job, last, read, reason>>
faultVars   == <<crashes, stalls, errors>>
vars == <<queueVars, creditVars, captureVars, workVars, faultVars>>

---------------------------------------------------------------------------

\* The steps of runOnce for one job; "idle" is between two polls.
Steps == {"idle", "handle", "save", "saving", "report",
          "refund", "refunding", "complete", "fail"}

QueueTypeOK ==
  /\ capture \in [Jobs -> Captures \cup {NoCapture}]
  /\ attempts \in [Jobs -> 0..MaxAttempts]
  /\ lock \in [Jobs -> {"free", "fresh", "stale"}]
  /\ lockedBy \in [Jobs -> Workers \cup {NoWorker}]
  /\ completed \in [Jobs -> BOOLEAN]

CreditTypeOK ==
  /\ remaining \in [Grants -> Nat]
  /\ expired \subseteq Grants
  /\ paidBy \in [Captures -> Grants \cup {NoGrant}]
  /\ refunded \in [Captures -> BOOLEAN]

CaptureTypeOK ==
  /\ admitted \subseteq Captures
  /\ doc \in [Captures -> BOOLEAN]
  /\ report \in [Captures -> {"none", "pending", "skipped_free"}]
  /\ rowLock \in [Captures -> Workers \cup {NoWorker}]

WorkTypeOK ==
  /\ pc \in [Workers -> Steps]
  /\ job \in [Workers -> Jobs \cup {NoJob}]
  /\ last \in [Workers -> BOOLEAN]
  /\ read \in [Workers -> BOOLEAN]
  /\ reason \in [Workers -> {"unreadable", "not_extracted"}]
  \* A worker that is not idle runs a job that has a capture.
  /\ \A w \in Workers : pc[w] # "idle" => job[w] \in Jobs /\ capture[job[w]] \in Captures

TypeOK ==
  /\ QueueTypeOK /\ CreditTypeOK /\ CaptureTypeOK /\ WorkTypeOK
  /\ crashes \in 0..MaxCrashes /\ stalls \in 0..MaxStalls /\ errors \in 0..MaxErrors

Init ==
  /\ capture = [j \in Jobs |-> NoCapture]
  /\ attempts = [j \in Jobs |-> 0]
  /\ lock = [j \in Jobs |-> "free"]
  /\ lockedBy = [j \in Jobs |-> NoWorker]
  /\ completed = [j \in Jobs |-> FALSE]
  /\ remaining = Amount
  /\ expired = {}
  /\ paidBy = [c \in Captures |-> NoGrant]
  /\ refunded = [c \in Captures |-> FALSE]
  /\ admitted = {}
  /\ doc = [c \in Captures |-> FALSE]
  /\ report = [c \in Captures |-> "none"]
  /\ rowLock = [c \in Captures |-> NoWorker]
  /\ pc = [w \in Workers |-> "idle"]
  /\ job = [w \in Workers |-> NoJob]
  /\ last = [w \in Workers |-> FALSE]
  /\ read = [w \in Workers |-> FALSE]
  /\ reason = [w \in Workers |-> "unreadable"]
  /\ crashes = 0 /\ stalls = 0 /\ errors = 0

---------------------------------------------------------------------------
(* The API: queueing, staff re-extraction, and grants that run out of time *)

Usable(g) == remaining[g] > 0 /\ g \notin expired

\* spendScanCredit's pick: the first usable grant in spend order.
NextGrant(g) == Usable(g) /\ \A h \in Grants : Usable(h) => g <= h

Queued(j) == capture[j] # NoCapture

NewJob(j, c) ==
  /\ ~Queued(j)
  /\ capture' = [capture EXCEPT ![j] = c]
  /\ UNCHANGED <<attempts, lock, lockedBy, completed>>

\* A request finds the capture not queued.  The spend comes later, in another
\* transaction, so any number of requests can be past this check.
FindNotQueued(c) ==
  /\ c \notin admitted
  /\ ~doc[c] /\ paidBy[c] = NoGrant
  /\ admitted' = admitted \cup {c}
  /\ UNCHANGED <<queueVars, creditVars, doc, report, rowLock, workVars, faultVars>>

\* Variant: the spend does not look for an earlier one.
SpendsAgain(c, j) ==
  /\ c \in admitted
  /\ \E g \in Grants :
       /\ NextGrant(g)
       /\ remaining' = [remaining EXCEPT ![g] = @ - 1]
       /\ paidBy' = [paidBy EXCEPT ![c] = g]
  /\ NewJob(j, c)
  /\ UNCHANGED <<expired, refunded, captureVars, workVars, faultVars>>

\* The spend and the job, one transaction under the workspace's advisory
\* lock.  A capture already spent for is left alone; with no usable grant
\* the transaction rolls back (QuotaExhaustedError).
EnqueueExtraction(c, j) ==
  /\ c \in admitted
  /\ paidBy[c] = NoGrant
  /\ \E g \in Grants :
       /\ NextGrant(g)
       /\ remaining' = [remaining EXCEPT ![g] = @ - 1]
       /\ paidBy' = [paidBy EXCEPT ![c] = g]
  /\ NewJob(j, c)
  /\ UNCHANGED <<expired, refunded, captureVars, workVars, faultVars>>

\* Staff queue a second extraction of any capture; it spends nothing.
AdminReextract(c, j) ==
  /\ NewJob(j, c)
  /\ UNCHANGED <<creditVars, captureVars, workVars, faultVars>>

GrantExpires(g) ==
  /\ g \notin expired
  /\ expired' = expired \cup {g}
  /\ UNCHANGED <<queueVars, remaining, paidBy, refunded, captureVars, workVars, faultVars>>

---------------------------------------------------------------------------
(* The queue: claims, heartbeats and lock timeouts                         *)

\* The claim's UPDATE, and the worker that starts on the job.
Take(w, j, isLast) ==
  /\ lock' = [lock EXCEPT ![j] = "fresh"]
  /\ lockedBy' = [lockedBy EXCEPT ![j] = w]
  /\ attempts' = [attempts EXCEPT ![j] = @ + 1]
  /\ pc' = [pc EXCEPT ![w] = "handle"]
  /\ job' = [job EXCEPT ![w] = j]
  /\ last' = [last EXCEPT ![w] = isLast]
  /\ UNCHANGED <<capture, completed, creditVars, captureVars, read, reason, faultVars>>

Pending(j) == Queued(j) /\ ~completed[j]

\* Variants: the claim looks at the attempts, or the lock, or neither, in
\* another way.
ClaimsPastLimit(w, j) ==
  pc[w] = "idle" /\ Pending(j) /\ lock[j] # "fresh" /\ Take(w, j, attempts[j] + 1 >= MaxAttempts)

ClaimsLocked(w, j) ==
  pc[w] = "idle" /\ Pending(j) /\ attempts[j] < MaxAttempts
  /\ Take(w, j, attempts[j] + 1 >= MaxAttempts)

ClaimsUnlockedOnly(w, j) ==
  pc[w] = "idle" /\ Pending(j) /\ attempts[j] < MaxAttempts /\ lock[j] = "free"
  /\ Take(w, j, attempts[j] + 1 >= MaxAttempts)

LastIsOffByOne(w, j) ==
  pc[w] = "idle" /\ Pending(j) /\ attempts[j] < MaxAttempts /\ lock[j] # "fresh"
  /\ Take(w, j, attempts[j] + 1 > MaxAttempts)

\* claimJobs: one statement, FOR UPDATE SKIP LOCKED.
ClaimJob(w, j) ==
  /\ pc[w] = "idle"
  /\ Pending(j)
  /\ attempts[j] < MaxAttempts
  /\ lock[j] # "fresh"
  /\ Take(w, j, attempts[j] + 1 >= MaxAttempts)

\* Some live worker is inside runOnce with this job under its own lock.
HeldAlive(j) == \E w \in Workers : job[w] = j /\ lockedBy[j] = w

LockAges(j) ==
  /\ lock[j] = "fresh"
  /\ lock' = [lock EXCEPT ![j] = "stale"]
  /\ UNCHANGED <<capture, attempts, lockedBy, completed, creditVars, captureVars, workVars>>

\* The holder is gone, so nothing renews the lock.
LockGoesStale(j) == LockAges(j) /\ ~HeldAlive(j) /\ UNCHANGED faultVars

\* The holder lives, and no renewal of it lands for the whole timeout: the
\* failed heartbeat is logged and the work goes on.
HeartbeatMissed(j) ==
  /\ LockAges(j) /\ HeldAlive(j)
  /\ stalls < MaxStalls
  /\ stalls' = stalls + 1
  /\ UNCHANGED <<crashes, errors>>

\* renewJobLock, which runs while handle() does, only for the lock's holder.
RenewJobLock(w) ==
  /\ pc[w] \in {"handle", "save", "saving", "report"}
  /\ lock[job[w]] = "stale" /\ lockedBy[job[w]] = w /\ ~completed[job[w]]
  /\ lock' = [lock EXCEPT ![job[w]] = "fresh"]
  /\ UNCHANGED <<capture, attempts, lockedBy, completed, creditVars, captureVars,
                 workVars, faultVars>>

---------------------------------------------------------------------------
(* handle(): one attempt at a job                                          *)

Cap(w) == capture[job[w]]

Goto(w, step) ==
  /\ pc' = [pc EXCEPT ![w] = step]
  /\ UNCHANGED <<job, last>>

\* runOnce's catch: the last attempt gives the credit back before failJob.
Catch(w) ==
  /\ Goto(w, IF last[w] THEN "refund" ELSE "fail")
  /\ reason' = [reason EXCEPT ![w] = "unreadable"]
  /\ UNCHANGED read

\* The worker leaves the job and polls again.
BackToIdle(w) ==
  /\ pc' = [pc EXCEPT ![w] = "idle"]
  /\ job' = [job EXCEPT ![w] = NoJob]
  /\ last' = [last EXCEPT ![w] = FALSE]
  /\ read' = [read EXCEPT ![w] = FALSE]
  /\ reason' = [reason EXCEPT ![w] = "unreadable"]

TakeRow(w) ==
  /\ rowLock[Cap(w)] = NoWorker
  /\ rowLock' = [rowLock EXCEPT ![Cap(w)] = w]

ReleaseRow(w) == rowLock' = [rowLock EXCEPT ![Cap(w)] = NoWorker]

\* A database call fails.
Fault ==
  /\ errors < MaxErrors
  /\ errors' = errors + 1
  /\ UNCHANGED <<crashes, stalls>>

\* A model (or the statement reader) produced a reading.
ReadSucceeds(w) ==
  /\ pc[w] = "handle"
  /\ Goto(w, "save")
  /\ UNCHANGED <<queueVars, creditVars, captureVars, read, reason, faultVars>>

\* A statement that cannot be re-read, or is over the page cap.
NotExtracted(w) ==
  /\ pc[w] = "handle"
  /\ Cap(w) \in Statements
  /\ Goto(w, "refund")
  /\ reason' = [reason EXCEPT ![w] = "not_extracted"]
  /\ UNCHANGED <<queueVars, creditVars, captureVars, read, faultVars>>

\* Every model failed, or anything before the write threw.
HandleThrows(w) ==
  /\ pc[w] = "handle"
  /\ Catch(w)
  /\ UNCHANGED <<queueVars, creditVars, captureVars, faultVars>>

\* saveExtraction's SELECT ... FOR UPDATE of the capture, and readPaidScan
\* after it.  A statement's INSERT takes the same row through its foreign key.
BeginSave(w) ==
  /\ pc[w] = "save"
  /\ ~(Cap(w) \in Statements /\ doc[Cap(w)])
  /\ TakeRow(w)
  /\ read' = [read EXCEPT ![w] = (paidBy[Cap(w)] \in Bought /\ ~refunded[Cap(w)])]
  /\ Goto(w, "saving")
  /\ UNCHANGED <<queueVars, creditVars, admitted, doc, report, reason, faultVars>>

\* A second statement document for the capture breaks its unique index.
StatementAlreadySaved(w) ==
  /\ pc[w] = "save"
  /\ Cap(w) \in Statements /\ doc[Cap(w)]
  /\ rowLock[Cap(w)] = NoWorker
  /\ Catch(w)
  /\ UNCHANGED <<queueVars, creditVars, captureVars, faultVars>>

\* Variant: a capture that already has its document is not reported again.
SavesReportedOnce(w) ==
  /\ pc[w] = "saving"
  /\ doc' = [doc EXCEPT ![Cap(w)] = TRUE]
  /\ ReleaseRow(w)
  /\ Goto(w, IF doc[Cap(w)] \/ Cap(w) \in Statements THEN "complete" ELSE "report")
  /\ UNCHANGED <<queueVars, creditVars, admitted, report, read, reason, faultVars>>

\* The transaction commits.  Only the receipt path goes on to the report.
CommitSave(w) ==
  /\ pc[w] = "saving"
  /\ doc' = [doc EXCEPT ![Cap(w)] = TRUE]
  /\ ReleaseRow(w)
  /\ Goto(w, IF Cap(w) \in Statements THEN "complete" ELSE "report")
  /\ UNCHANGED <<queueVars, creditVars, admitted, report, read, reason, faultVars>>

SaveRollsBack(w) ==
  /\ pc[w] = "saving"
  /\ ReleaseRow(w)
  /\ Catch(w)
  /\ Fault
  /\ UNCHANGED <<queueVars, creditVars, admitted, doc, report>>

\* queueReceiptReport: one row per capture, and only for a linked uploader.
QueueReceiptReport(w) ==
  /\ pc[w] = "report"
  /\ report' = IF Cap(w) \in Linked /\ report[Cap(w)] = "none"
                 THEN [report EXCEPT ![Cap(w)] =
                        IF read[w] THEN "pending" ELSE "skipped_free"]
                 ELSE report
  /\ Goto(w, "complete")
  /\ UNCHANGED <<queueVars, creditVars, admitted, doc, rowLock, read, reason, faultVars>>

\* Its failure is logged and never fails the extraction.
QueueReportFails(w) ==
  /\ pc[w] = "report"
  /\ Goto(w, "complete")
  /\ Fault
  /\ UNCHANGED <<queueVars, creditVars, captureVars, read, reason>>

---------------------------------------------------------------------------
(* refundUnread, completeJob and failJob                                   *)

AfterRefund(w) == IF reason[w] = "not_extracted" THEN "complete" ELSE "fail"

\* The capture row is locked first, then documents is looked at.
BeginRefund(w) ==
  /\ pc[w] = "refund"
  /\ TakeRow(w)
  /\ read' = [read EXCEPT ![w] = doc[Cap(w)]]
  /\ Goto(w, "refunding")
  /\ UNCHANGED <<queueVars, creditVars, admitted, doc, report, reason, faultVars>>

\* With no document and an unrefunded spend, the credit goes back to the
\* grant it came from, if that grant is not full.
GiveBack(c) ==
  /\ refunded' = [refunded EXCEPT ![c] = TRUE]
  /\ remaining' = IF remaining[paidBy[c]] < Amount[paidBy[c]]
                    THEN [remaining EXCEPT ![paidBy[c]] = @ + 1]
                    ELSE remaining

\* Variant: the refund does not look for a document at all.
RefundsRead(w) ==
  /\ pc[w] = "refunding"
  /\ IF paidBy[Cap(w)] # NoGrant /\ ~refunded[Cap(w)]
       THEN GiveBack(Cap(w))
       ELSE UNCHANGED <<refunded, remaining>>
  /\ ReleaseRow(w)
  /\ Goto(w, AfterRefund(w))
  /\ UNCHANGED <<queueVars, expired, paidBy, admitted, doc, report, read, reason, faultVars>>

CommitRefund(w) ==
  /\ pc[w] = "refunding"
  /\ IF ~read[w] /\ paidBy[Cap(w)] # NoGrant /\ ~refunded[Cap(w)]
       THEN GiveBack(Cap(w))
       ELSE UNCHANGED <<refunded, remaining>>
  /\ ReleaseRow(w)
  /\ Goto(w, AfterRefund(w))
  /\ UNCHANGED <<queueVars, expired, paidBy, admitted, doc, report, read, reason, faultVars>>

\* A refund that fails is logged; the job loop goes on.
RefundFails(w) ==
  /\ pc[w] = "refunding"
  /\ ReleaseRow(w)
  /\ Goto(w, AfterRefund(w))
  /\ Fault
  /\ UNCHANGED <<queueVars, creditVars, admitted, doc, report, read, reason>>

\* completeJob is not conditional on the lock, and keeps locked_by.
CompleteJob(w) ==
  /\ pc[w] = "complete"
  /\ completed' = [completed EXCEPT ![job[w]] = TRUE]
  /\ lock' = [lock EXCEPT ![job[w]] = "free"]
  /\ BackToIdle(w)
  /\ UNCHANGED <<capture, attempts, lockedBy, creditVars, captureVars, faultVars>>

\* completeJob is inside the try: its failure is a failed attempt.
CompleteFails(w) ==
  /\ pc[w] = "complete"
  /\ Catch(w)
  /\ Fault
  /\ UNCHANGED <<queueVars, creditVars, captureVars>>

\* failJob is not conditional on the lock either.
FailJob(w) ==
  /\ pc[w] = "fail"
  /\ lock' = [lock EXCEPT ![job[w]] = "free"]
  /\ lockedBy' = [lockedBy EXCEPT ![job[w]] = NoWorker]
  /\ BackToIdle(w)
  /\ UNCHANGED <<capture, attempts, completed, creditVars, captureVars, faultVars>>

\* Its failure ends runOnce with the job still locked.
FailJobFails(w) ==
  /\ pc[w] = "fail"
  /\ BackToIdle(w)
  /\ Fault
  /\ UNCHANGED <<queueVars, creditVars, captureVars>>

\* The process is killed: its transaction rolls back, its claim stays, and
\* the container is started again.
Crash(w) ==
  /\ pc[w] # "idle"
  /\ crashes < MaxCrashes
  /\ crashes' = crashes + 1
  /\ rowLock' = [c \in Captures |-> IF rowLock[c] = w THEN NoWorker ELSE rowLock[c]]
  /\ BackToIdle(w)
  /\ UNCHANGED <<queueVars, creditVars, admitted, doc, report, stalls, errors>>

---------------------------------------------------------------------------

Attempt(w) ==
  \/ ReadSucceeds(w) \/ NotExtracted(w) \/ HandleThrows(w)
  \/ BeginSave(w) \/ StatementAlreadySaved(w) \/ CommitSave(w)
  \/ QueueReceiptReport(w)
  \/ BeginRefund(w) \/ CommitRefund(w)
  \/ CompleteJob(w) \/ FailJob(w)

DbError(w) ==
  \/ SaveRollsBack(w) \/ QueueReportFails(w) \/ RefundFails(w)
  \/ CompleteFails(w) \/ FailJobFails(w)

Api ==
  \/ \E c \in Captures : FindNotQueued(c)
  \/ \E c \in Captures, j \in Jobs : EnqueueExtraction(c, j) \/ AdminReextract(c, j)
  \/ \E g \in Grants : GrantExpires(g)

Worker(w) ==
  \/ \E j \in Jobs : ClaimJob(w, j)
  \/ Attempt(w)

Next ==
  \/ Api
  \/ \E w \in Workers : Worker(w) \/ RenewJobLock(w) \/ DbError(w) \/ Crash(w)
  \/ \E j \in Jobs : LockGoesStale(j) \/ HeartbeatMissed(j)

Spec == Init /\ [][Next]_vars

\* A worker polls for ever and its steps end (every call it makes has a time
\* limit); a dead worker's lock ages.  Nothing makes a user act or a process fail.
Fairness ==
  /\ \A w \in Workers : WF_vars(Worker(w))
  /\ \A j \in Jobs : WF_vars(LockGoesStale(j))

FairSpec == Spec /\ Fairness

---------------------------------------------------------------------------
(* Properties                                                              *)

\* The captures whose credit is out of grant g: charged to it, not given back.
ChargedTo(g) == {c \in Captures : paidBy[c] = g /\ ~refunded[c]}

\* No credit is lost and none is made.  What is left in a grant and the scans
\* it pays for add up to what it was given, through retries, duplicated jobs,
\* refunds and kills (spendScanCredit, refundScanCredit).
CreditConservation ==
  \A g \in Grants : remaining[g] + Cardinality(ChargedTo(g)) = Amount[g]

\* A receipt earns YourTal points only for a scan a bought credit pays for.
\* The save reads paidScan before the document exists and the report is
\* written after the commit, so a refund in between would earn free points.
PointsArePaidFor ==
  \A c \in Captures : report[c] = "pending" => paidBy[c] \in Bought /\ ~refunded[c]

\* A scan's credit is never given back once its document is saved, whatever
\* other jobs of the capture are doing (refundScanCredit, has_document).
RefundOnlyUnread ==
  [][\A c \in Captures : refunded'[c] /\ ~refunded[c] => ~doc'[c]]_vars

\* While no heartbeat is missed, no two workers are inside the same job,
\* however workers are killed and their jobs taken over (the claim, the
\* heartbeat and the lock timeout together).
OneHolder ==
  stalls = 0 => \A v, w \in Workers : job[v] # NoJob /\ job[v] = job[w] => v = w

\* The job will never be claimed again and nobody holds it.
Over(j) ==
  /\ lock[j] = "free"
  /\ completed[j] \/ attempts[j] = MaxAttempts

\* Job j still owes its capture an end: it has an attempt left, or its last
\* one has not got past the refund.
Owes(j) ==
  /\ ~completed[j] /\ \A w \in Workers : job[w] = j => pc[w] # "complete"
  /\ \/ attempts[j] < MaxAttempts
     \/ \E w \in Workers :
          job[w] = j /\ last[w] /\ pc[w] \in {"handle", "save", "saving", "refund", "refunding"}

Owed(c) == paidBy[c] # NoGrant /\ \E j \in Jobs : capture[j] = c /\ Owes(j)

\* From its charge to its end a capture is owed one, and only two steps drop
\* the debt: the call of a refund that fails, which refundUnread swallows, and
\* a kill in a last attempt.  Missed heartbeats, two workers in one job, a save
\* that rolls back and a completeJob or failJob that fails never do.
OwedUntilSettled ==
  [][\A c \in Captures :
       /\ paidBy[c] = NoGrant /\ paidBy'[c] # NoGrant => Owed(c)'
       /\ Owed(c) /\ ~Owed(c)' =>
            \/ doc'[c] \/ refunded'[c]
            \/ \E w \in Workers : /\ pc[w] # "idle" /\ Cap(w) = c
                                  /\ RefundFails(w) \/ (Crash(w) /\ last[w])]_vars

\* When every job of a charged capture is over, the user has the document or
\* the credit.  runOnce gives the credit back before it releases the job so
\* that a kill between the two cannot leave neither.  Excused: a missed
\* heartbeat and a database call that fails.
OverMeansSettled ==
  stalls = 0 /\ errors = 0 => \A c \in Captures :
    paidBy[c] # NoGrant /\ (\A j \in Jobs : capture[j] = c => Over(j))
      => doc[c] \/ refunded[c]

\* A scan that took a credit ends in a document or gives the credit back.
ScanAlwaysSettles ==
  \A c \in Captures : paidBy[c] # NoGrant ~> doc[c] \/ refunded[c]

\* A database call failed, or a worker was killed and a job of the capture has
\* no attempt left and nobody in it.
Lost(c) ==
  \/ errors > 0
  \/ crashes > 0 /\ \E j \in Jobs : /\ capture[j] = c /\ attempts[j] = MaxAttempts
                                   /\ ~completed[j] /\ \A w \in Workers : job[w] # j

\* Some job of the capture can be claimed again, or has a worker in it.
WorkedOn(c) ==
  \E j \in Jobs :
    /\ capture[j] = c /\ ~completed[j]
    /\ attempts[j] < MaxAttempts \/ \E w \in Workers : job[w] = j

\* While nothing is lost, no capture is left neither read nor given back, and
\* no linked receipt saved and not reported, with nobody to see to it.
NotForgotten ==
  \A c \in Captures :
    \/ paidBy[c] # NoGrant /\ ~doc[c] /\ ~refunded[c]
    \/ c \in Linked \ Statements /\ doc[c] /\ report[c] = "none"
    => WorkedOn(c) \/ Lost(c)

\* The same while nothing is lost: a worker killed before the last attempt
\* leaves nothing behind that the next attempt does not settle (runOnce).
ScanSettles ==
  \A c \in Captures : paidBy[c] # NoGrant ~> doc[c] \/ refunded[c] \/ Lost(c)

\* The receipt of a linked user gets its outbox row once it is saved: after a
\* kill between the two, the next attempt queues it (saveExtraction).
ReportQueued ==
  \A c \in Linked \ Statements : doc[c] ~> report[c] # "none" \/ Lost(c)

---------------------------------------------------------------------------
(* The promise this implements                                             *)

Promise == INSTANCE ScanPromise WITH
  charged  <- {c \in Captures : paidBy[c] # NoGrant},
  bought   <- {c \in Captures : paidBy[c] \in Bought},
  returned <- {c \in Captures : refunded[c]},
  read     <- {c \in Captures : doc[c]},
  earned   <- {c \in Captures : report[c] = "pending"}

\* The queue, the workers and their failures keep ScanPromise's word: every
\* step is one step of it for one capture, or none.
KeepsPromise == Promise!Spec

=============================================================================
