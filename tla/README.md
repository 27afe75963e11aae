# Snap Apps: a TLA+ verification project

Snap Apps reads receipts and bank statements, keeps a double-entry ledger for a
person or a small business, prepares tax deductions and reports paid scans to a
rewards partner (YourTal). This directory holds TLA+ models of the parts of it where
several processes, requests and database transactions meet, the TLC
configurations that check them on small instances, and proofs, checked by TLAPS, of
the results that hold for every size.

All paths below are relative to the repository.

- [1. Inventory](#1-inventory): the parts, their state, how they interact, what is hard
- [2. Plan](#2-plan): modules, order, what is left
- [3. The scan pipeline](#3-the-scan-pipeline)
- [4. Reconciliation](#4-reconciliation)
- [5. Voucher redemption](#5-voucher-redemption)
- [6. Points link and outbox](#6-points-link-and-outbox)
- [7. Offline writes](#7-offline-writes)
- [8. Credit purchases](#8-credit-purchases)
- [9. Document review](#9-document-review)
- [10. What is proved](#10-what-is-proved)
- [11. Disagreements between code and text](#11-disagreements-between-code-and-text)
- [12. Not modelled](#12-not-modelled)
- [13. Running it](#13-running-it)

## 1. Inventory

### Processes

| process | what it is | concurrency |
|---|---|---|
| API (`apps/server`, NestJS) | every HTTP request; each opens one or more short PostgreSQL transactions through `withTenantAs` (READ COMMITTED, row-level security per tenant) | requests interleave between any two of their transactions |
| worker (`apps/server/src/worker.ts`) | a polling loop over the `jobs` table | one container in `deploy/docker-compose.yml`, restarted unless stopped, but nothing in the code depends on there being one; old and new overlap in a deployment |
| PostgreSQL (`packages/db`) | tables, unique indexes, deferred constraint triggers, `FOR UPDATE` and advisory locks | the only synchronisation between processes |
| mobile app (`apps/mobile`, Expo) | offline outbox of writes, on-device reading | sends again after a lost answer |
| web app (`apps/web`) | client of the API | - |
| `services/docai-engine` | stateless OCR over HTTP | slow, fails |
| outside | model providers, Stripe, Google Play, YourTal, tax filing, mail | late, duplicated or missing answers |

### Components

| component | state | operations | interacts through | what makes it correct |
|---|---|---|---|---|
| capture intake (`captures/`) | `captures`, pages, stored objects | create, upload, device reading | hash dedup, enqueue-once | one capture per picture; stored before it is queued |
| **scan queue and worker** (`worker.ts`, `packages/db/src/client.ts`) | `jobs`: attempts, lock, completed | claim, heartbeat, complete, fail | row locks, lock timeout | one holder; no stranded job; the end of a job means an outcome for the user |
| extraction walk (`extraction/`) | none between calls | prompt, providers in order, cross-checks | HTTP | stops at the first reading the checks accept; cost is counted |
| **saving** (`repo.ts saveExtraction`) | `documents`, lines, extractions | save, refile, group same receipts | capture row lock | at most one document; human work survives a re-run |
| **scan credits** (`credits/spend.ts`) | `usage_grants`, `credit_spends` | spend, refund | advisory lock, capture row lock | no credit lost or made; a read scan is never refunded |
| **document review** (`documents/`, `repo.ts`) | `documents.version`, `locked_fields`, `review_status` | patch, replace lines, confirm, reject | expected version, locked fields | what a person settled outlasts the machine; a disagreement reaches a person; posted documents stay what was posted |
| **ledger** (`transactions/`) | `transactions`, `splits` | draft, post, supersede, void | `FOR UPDATE` on document and line, triggers | balanced; posted is immutable; each receipt counted once |
| **reconciliation** (`reconciliation/`, `statements/`) | `match_candidates`, `event_observations` | suggest, accept, reject, link, unlink, post standalone | unique keys, triggers of migration 0032 | observation and live transaction agree; a pair is one event |
| **YourTal outbox** (`yourtal/outbox*.ts`) | `yourtal_outbox` | queue, claim, check the link, send, finish, back off, give up, cancel | lock (`locked_by`, timeout), Idempotency-Key at YourTal | a receipt is paid once; a row says what YourTal did; every report ends |
| **voucher redemption** (`yourtal/redeem*.ts`) | `yourtal_voucher_redemptions`, grants | authorize, capture, void, look up, grant, review, drain | merchant API, lease, status machine of 0041 | a captured voucher is credited once or brought to a person; a closed attempt took nothing |
| **YourTal link** (`yourtal/link*`, `client.ts`) and events | `yourtal_links`, event jobs | exchange, insert, end an orphan, unlink, break; erase | YourTal, one live link per user | no live link is forgotten; nothing is paid under a link that is over |
| **credit purchases** (`credits/`) | `credit_purchases`, `usage_grants` | order, checkout, webhooks, redeem, consume, void notice | Stripe and Play deliveries, row locks | one grant per payment; a refund takes it back; a buyer is not charged twice |
| **idempotency** (`common/`) and **mobile outbox** (`apps/mobile/src/api`) | `idempotency_keys`; queue in memory and in storage | claim, replay, record, release; queue, load, drain, drop | HTTP | a write takes effect once, and in order; none is lost |
| sessions and accounts (`auth/`) | sessions, magic links, delete jobs | sign in, rotate, delete | hashed tokens | a link is used once; deletion finishes |
| tax sends (`deductions/ftr-send*`) | `ftr_sends` | claim, send, settle | remote service | at most one accepted send |
| teen spaces (`teens/`) | spaces, holds | invite, hold, come of age | guardian's credits | a hold ends; funding follows the guardian |
| admin plane (`admin/`) | audit, impersonation, operations | re-extract, impersonate | SQL functions | every act is audited |
| tax engine, reports, assistant, settings, export | none or single rows | pure or read-only | - | arithmetic |

In bold: modelled in this project so far, wholly or in part. `PROJECT.json` lists every
component with its sources and says, for each part left out, why.

### What is hard in this code

1. **A job is not one transaction.** A worker claims, calls models for minutes,
   saves, refunds, reports and completes in separate transactions. It may be
   killed between any two; `attempts` was already counted at the claim.
2. **Locks with a timeout.** A worker that lost its lock does not know it.
   `completeJob` and `failJob` do not look at `locked_by`.
3. **Check, then act.** A request reads in one transaction and acts in the next:
   accept, reject, unlink, standalone post, `isCaptureQueued` before the spend.
4. **One act in two commits.** Unlink deletes an observation and re-materialises
   the rest afterwards; a merge commits before its candidate is marked.
5. **The constraints are the last line.** Unique keys and deferred triggers
   (0032, 0006, 0009) decide what the check-then-act code lets through.
6. **Remote answers** that come late, twice or never (YourTal, Stripe, Play, tax sends).
   A call that was given up may still take effect at the other side.
7. **A phone that is closed at any moment**, whose queue is a copy in memory, a copy in
   storage and a copy in every drain.

The `hazards` of `PROJECT.json` name the lines where these bite and the property that covers each.

## 2. Plan

The order is by what a user loses when it goes wrong: money and scans first, the books
next, then edits, then the partners.

| # | module | composes / implements | status |
|---|---|---|---|
| 1 | `ScanPipeline` | queue + credits + save + report; implements `ScanPromise` | done, proved |
| 2 | `Reconciliation` | ledger + register + candidates + requests; implements `EvidenceRegister` | done, proved |
| 3 | `VoucherRedemption` | request + drain + merchant; implements `VoucherPromise` | done, proved |
| 4 | `PointsOutbox` | linking and unlinking requests + scans + drains + YourTal; implements `PointsPromise` | done, proved |
| 5 | `OfflineWrites` | app's queue + drains + idempotency keys + handler | done, proved |
| 6 | `CreditPurchases` | orders + checkouts + Stripe + Play + spends; implements `PurchasePromise` | done, proved |
| 7 | `DocumentReview` | corrections with versions, decisions, locked fields + re-extractions + bookings of one document; implements `ReviewPromise` | done, proved |
| 8 | `CaptureIntake` | dedup, pages and enqueue-once, feeding `FindNotQueued` and `EnqueueExtraction` of 1, and the photos of 5 | next |
| 9 | `SignIn`, `TaxSends`, `TeenSpaces` | a magic link is used once; a send is accepted once; a hold ends | planned |
| 10 | `ExtractionWalk` and pure operators (matcher, balance check, merge, CSV dates and amounts) | operators against reference definitions | planned |

Each module takes its sets as CONSTANTS under one named assumption, has one action per
database transaction (or per uninterruptible stretch of a handler) and no RECURSIVE operator, so
that a `*Proofs` module can prove about it. Where a module meets an outside service, the
service is modelled by what the code in the repository reads of it: its test double
(`apps/server/src/test-support`) or the fields the client takes from its answers.

The modules meet in rows, never inside a transaction: 3 and 6 make the grants that 1 spends,
1 decides when a receipt is reported and 4 what becomes of the report, 7 says which receipts
2 may book, and 5 carries the writes that start everything. Each takes the other's part as an input: 1 starts with its
grants, any of which may expire; 4 lets a scan be saved, and 6 lets a scan be charged or
given its credit back, at any moment.

## 3. The scan pipeline

`ScanPipeline.tla` (abstract: `ScanPromise.tla`, instances: `MCScanPipeline.tla`, proofs:
`ScanPipelineProofs.tla`).

### State and actions

| model | code |
|---|---|
| `capture`, `attempts`, `lock`, `lockedBy`, `completed` | a row of `jobs` (0007); `lock` is `locked_at` seen through the claim's timeout: null, recent, too old |
| `remaining`, `expired`, `paidBy`, `refunded` | `usage_grants`, and `credit_spends` of the capture (0039) |
| `doc`, `report`, `rowLock` | `documents` row, `yourtal_outbox` row, and who holds the `captures` row `FOR UPDATE` |
| `pc`, `job`, `last`, `read`, `reason` | a worker's place in `runOnce` and what its open transaction read |
| `FindNotQueued`, `EnqueueExtraction` | `isCaptureQueued` outside, then the spend and the job in one transaction under the advisory lock |
| `AdminReextract` | `admin_trigger_reextraction` (0021): a job without a charge |
| `ClaimJob`, `LockGoesStale`, `HeartbeatMissed`, `RenewJobLock` | `claimJobs`, the passing of `JOB_LOCK_TIMEOUT_S`, `withHeartbeat` |
| `ReadSucceeds`, `NotExtracted`, `HandleThrows` | what `handle` ends in: the providers' answer is a choice |
| `BeginSave`, `CommitSave`, `StatementAlreadySaved`, `QueueReceiptReport` | `saveExtraction` from its row lock to its commit, and the report after it |
| `BeginRefund`, `CommitRefund`, `CompleteJob`, `FailJob` | `refundScanCredit`, then `completeJob` or `failJob` |
| `SaveRollsBack`, `QueueReportFails`, `RefundFails`, `CompleteFails`, `FailJobFails`, `Crash` | a database call that throws at each place, and a kill at any place |

Each step of a worker is one database transaction, except the two that hold a row lock
while something else could run: save and refund are split at the moment the lock is
taken, so that every other process can act between the reading and the commit.

Abstractions: time is the three values of `lock`; the back-off of `failJob` only
delays a claim, and a claim may come at any later moment in the model; the fields
that a save writes, the grouping of pictures of the same receipt, the guardian's
credits of a teen space and the `shadow_ocr` jobs are left out. Workers have distinct names:
the code names them `worker-<pid>`, which two containers could share.

### Runs

| run | shows | bounds |
|---|---|---|
| `safety` | types, `CreditConservation`, `OwedUntilSettled`, and every step is a step of `ScanPromise` or none | a receipt and a statement, a free and a bought credit, two jobs for either, two workers, two attempts, one missed heartbeat, one failed call |
| `settles` | `ScanSettles`, `ReportQueued`; `NotForgotten`; `OneHolder` while no heartbeat is missed | a receipt, two jobs, one kill, one missed heartbeat (209 756 states) |
| `killed` | the counterexample of section 11 | one job, one kill |

Two workers and two jobs of one capture are the smallest instance of each race (claim
against claim, save against refund, refund against report): all of them are between
two jobs of one capture or two holders of one job. Two captures matter only where they
compete for a credit, which `safety` has. A second attempt distinguishes the last claim from
the others. One fault of each kind at any place already reaches every recovery
path, since a fault's effect is a job that is claimed again. The safety properties
under any number of faults are theorems (section 10).

`ScanSettles` and `ReportQueued` excuse what `Lost` names: a failed database call, and a
kill that leaves a job without attempts. `ScanAlwaysSettles` excuses nothing and
is what `killed` refutes. `NotForgotten` is their safety half: as long as the scan or its
report is due, some job can be claimed again or has a worker in it. `OwedUntilSettled` says step
by step what may lose a charged scan, under any missed heartbeats, duplicated jobs, rolled
back saves and failed completions: the call of a refund that fails (accepted,
worker.ts:714-716) and a kill in a last attempt, and nothing else (`safety` has no kill: for that
case it rests on the theorem `OwedCorrect`). `OneHolder` names its own
condition: one missed heartbeat puts two workers in one job (the failed renewal is only
logged, worker.ts:749-751).

Fairness (`FairSpec`): a worker that can step does, because the loop polls for ever and
every call it makes has a time limit, and an abandoned lock ages. A heartbeat that lands, a
user's request, a grant's expiry, a kill and an error are never assumed to happen.
`Worker(w)` is weakly fair as a whole, not per action: a fair worker need
not read successfully.

Stopping is allowed (`CHECK_DEADLOCK FALSE`): when every job is over, nothing is left to do.

## 4. Reconciliation

`Reconciliation.tla` (abstract: `EvidenceRegister.tla`, instances: `MCReconciliation.tla`,
proofs: `ReconciliationProofs.tla`).

### State and actions

| model | code |
|---|---|
| `txn` | `transactions.status`, with the document and the line its splits were built from |
| `docObs`, `lineObs`, `lineObsId` | `event_observations` by kind: the unique keys make each a function; `lineObsId` tells the rows of one line apart, since a row is deleted by id |
| `cand` | `match_candidates.status` of a pair |
| `postable` | the document is confirmed and its lines reconcile: `loadDocumentEvidence` accepts it |
| `req` | where a request is between two transactions, and what it read |
| `SupersedeAndPost` | `supersedeAndPost`: find what the evidence observes, void it, post anew, re-point, under the commit-time trigger (`LeavesNothing`) |
| `DraftFromDocument`, `PostTransaction` | receipt-first booking |
| `BeginAccept`, `BeginManualLink`, `Merge`, `MergeRefused`, `DecideAccepted` | accept and link: status check or upsert, merge, decision, each its own transaction |
| `BeginReject`, `Reject` | read and write of the status without a lock |
| `BeginUnlink`, `CheckUnlink`, `DeleteObservation`, `Rebook`, `RebookRefused` | the four transactions of `unlinkObservation` |
| `BeginStandalone`, `PostStandalone`, `StandaloneRefused` | `postStatementLineStandalone`, also as `postUnmatchedStatementLines` calls it |
| `Confirm`, `Reopen`, `Suggest`, `Dies` | review of the document, the matcher's suggestion, a failure between two transactions |

`supersedeAndPost` is one step: it locks its document and its line from the first read
to the commit, so two of them about the same evidence never overlap, and the
observation it re-points belongs to evidence it has locked. The one
write that takes no such lock is the unlink's delete: a supersede that read the row
just before it inserts a fresh one instead, which is the same as the delete having come first.

Amounts, splits, tax codes and variances are left out: a merge that they refuse is
`MergeRefused`. So are sales (`draftTransactionFromInvoice`) and hand-written
transactions, which have no observation.

### Runs

| run | shows | bounds |
|---|---|---|
| `books` | types, `ObservedIsMaterialised`, `DocumentCountedOnce`, `KeepsRegister`, `StaleIsVoided` | two receipts, one line, three transactions, two requests, one failure, one receipt that may be withdrawn (182 928 states) |

Two receipts and a line are two pairs that compete; two requests give every race of
two, and each race here is between two readers of one row. Receipts that compete for two lines
add states and no new kind of step, and the safety properties of `books` are proved for
every number of each (section 10). `Room` bounds the behaviours: a request starts
only when a transaction id is left for every request under way, so no request is
stuck for want of an id, which matters for `StaleIsVoided`. Three ids allow a draft, a
merge and a second merge or rebook.

`StaleIsSeenTo` is its safety half, proved: a stale transaction has an unlink on its way to it.

`StaleIsVoided` has two excuses: a request cut off between the two halves of an unlink, and
a rebook that is refused because its receipt was withdrawn (`Reopened`) and
cannot be posted alone. In both the line is free and its old transaction still counts it.

Fairness (`FairSpec`): a request that started runs on. `MergeRefused` is always open, so
fairness never forces a merge to succeed; `RebookRefused` is possible only when the
code refuses.

## 5. Voucher redemption

`VoucherRedemption.tla` (abstract: `VoucherPromise.tla`, instances: `MCVoucherRedemption.tla`,
proofs: `VoucherRedemptionProofs.tla`).

### State and actions

| model | code |
|---|---|
| `status`, `holder`, `lock`, `grants` | a row of `yourtal_voucher_redemptions` (0041): status, `locked_by`, `locked_at` seen through the lease, and the `usage_grants` made for it |
| `era` | the row's age in the three steps the code tells apart: new, past the minutes of hold and order, past the days after which a person is asked |
| `hold`, `worth`, `stored`, `late` | the merchant: the order's authorization, what it holds, the answers kept by key, and calls whose sender gave up |
| `proc` | a request or a drain: where it is in `advanceRedemption`, and the row as it read it |
| `InsertRedemption`, `ClaimDue` | the insert under the partial unique index; `claimDueRedemptions` |
| `SendAuthorize`, `OnAuthorize` | `authorizeOnce`: one call, then the move it implies |
| `BeginCapture`, `Send`, `OnAnswer` | the capture's key stored before the call; capture and void, and the move after the answer |
| `SendLookup`, `OnLookup` (`Resolved`) | `resolveByLookup` |
| `GrantRedemption`, `GrantFails`, `Review`, `Release` | the credits and the status in one transaction; escalation; letting go of the row |
| `LateAuthorize`, `LateCall`, `HoldLapses` | the merchant acts after the caller stopped waiting; a hold times out |
| `PassFails`, `Crash`, `LeaseLapses`, `GrowsOld` | a transaction that throws, a kill, and time |

A move needs the lease and the status that was read (`Mine`); the grant needs
only the row, which it locks. Every call is two steps, send and answer, so that
any other process and the merchant act in between.

Abstractions: one voucher code, since rows of different codes share nothing; the
merchant is `apps/server/src/test-support/fake-yourtal-vouchers.ts`, the double the
tests use; an authorization id that does not match and the 24 hours a merchant keeps a
key are left out; what is checked before the row is inserted (format, owner, face
value) is the input.

### Runs

| run | shows | bounds |
|---|---|---|
| `redeems` | types, `WrongAmountNotTaken`, `KeepsVoucherPromise`, `FollowsMachine`, `RedemptionEnds` | one row, one request, two drains, three faults |
| `mismatched` | the counterexample of section 11 | two rows, one fault |

Three processes on one row are two that overlap and one that takes over from either. Three
faults are enough for an answer lost, its retry lost, and a crash or an overrun lease during the lookup.

`FollowsMachine` says that no move of the service runs into the guard trigger of 0041, whatever is
stale when it is made. `RedemptionEnds` needs the drain (`FairSpec`: it polls for
ever, each call has a time limit, the merchant finishes what it began, leases and days pass) and
excuses nothing.

## 6. Points link and outbox

`PointsOutbox.tla` (abstract: `PointsPromise.tla`, instances: `MCPointsOutbox.tla`, proofs:
`PointsOutboxProofs.tla`).

### State and actions

| model | code |
|---|---|
| `link`, `issued` | `yourtal_links` (0037): a row is named by the request that inserts it, a link at YourTal by the request whose exchange made it |
| `req`, `unlink` | where a request to link or to unlink is between its calls and transactions |
| `scan`, `others` | where the worker's save and report of a capture is, and the same receipts it read |
| `status`, `via`, `lock`, `lockedBy`, `attempts` | `yourtal_outbox` (0038), one row per capture |
| `drain` | a drain's batch (with each row's attempts as claimed), the report in hand, what it heard |
| `ytLive`, `paid`, `answer`, `late` | YourTal: live links, reports that earned, answers kept by Idempotency-Key, requests still on their way |
| `BeginLink`, `ExchangeLinkCode`, `ExchangeFails`, `InsertLink`, `LostRace`, `RevokeOrphan`, `LinkDies` | `link()`: exchange, insert under two unique indexes, end the orphan of a lost race |
| `BeginUnlink`, `RevokeLinkAtYourtal`, `MarkLinkRevoked`, `RevokeFromYourtal` | `unlink()`, and the person unlinking on the other side |
| `SaveExtraction`, `LiveLink`, `NotQueued`, `QueueReceiptReport` | queueing in three transactions |
| `ClaimDueReports`, `IsLinkLive`, `Answered`, `NotServed`, `TimesOut`, `LateArrives` | a drain's claim, the read of the link, the send and what may come of it |
| `FinishReport`, `RescheduleReport`, `ReleaseUnattempted`, `MarkLinkBroken`, `CancelPendingForLink` | the writes after it, each its own transaction and fenced by `locked_by` and status |
| `Crash`, `AbandonedLockAges`, `HeldLockAges` | a kill or a database call that throws; 300 seconds over a lock nobody, or somebody, still holds |

Worker names are a parameter (`WorkerName`): the code names drains `yourtal-<pid>`, which two
containers may share, and then the fence tells them apart no more. `points` has two drains of
one name, `linking` two names.

Left out: `next_attempt_at` (a claim may come at any later moment), the expiry of keys at
YourTal, the pause for an unknown partner, refusals that ask for an identity check, and a re-extraction that
queues a report later. `NotQueued` is also a queue transaction that fails. One unlink at a
time per user; an image ref is unique to its capture.

### Runs

| run | shows | bounds |
|---|---|---|
| `points` | types, `BrokenIsMarked`, `KeepsPointsPromise` | two photos of one receipt without a number, one link, two drains of one name, two attempts, one kill or overrun (1.49 million states up to symmetry) |
| `linking` | `NoForgottenLink`, `NothingAfterUnlink`, `ReportEnds` | two requests link one person to two accounts, an unlink on either side, one report, two drains, one kill or overrun (414 000 states) |

Two photos of one receipt are the smallest case of a duplicate, and two requests that of
a lost race. Two attempts tell the last from the others. In both runs every report has a reference of
its own; that one reference is paid once however many reports carry it is shown by `PromiseKept` alone.

`missed` excuses what the code cannot know: an exchange whose answer never came, a request
that died, and a crash between closing a report as `link_broken` and marking the link. A row that was
cancelled or given up may have been paid, when the answer was lost (outbox.repo.ts:31
calls cancelled a local close); `PointsPromise` allows exactly that and forbids the rest: a report
that was paid is never called a duplicate, refused or broken.

Fairness (`FairSpec`): drains poll for ever and abandoned locks age. Nobody need link,
unlink, answer in time or accept a report.

## 7. Offline writes

`OfflineWrites.tla` (instances: `MCOfflineWrites.tla`, proofs: `OfflineWritesProofs.tla`).

### State and actions

| model | code |
|---|---|
| `write`, `ahead` | what the phone knows of a write, and what was queued before it |
| `entries`, `stored`, `loading`, `reading`, `overwrote` | `apps/mobile/src/api/outbox.ts`: the queue in memory, in storage, the first read of it, and a write queued while that read is under way |
| `drain`, `draining`, `answered` | a drain of `http.ts`: its copy of the queue and its place in it; the flag that keeps a second one out |
| `call` | a request: on its way, at the interceptor, at the handler, answering, and who waits for it |
| `row`, `ran`, `gone`, `threw` | `idempotency_keys`; how often a handler has done the write; how often a claim found its row just deleted; how often the handler threw after its commit |
| `NotAnswered`, `QueueWrite`, `ShowQueued`, `LoadEnds` | a write that found no connection is queued under a new key; the first read of the storage |
| `BeginDrain`, `Flush`, `SendNext`, `Answer`, `LoseAnswer`, `Upload`, `UploadFails` | the drain: read, send in order, drop what was answered, stop at what was not; a photo uploads its images after its capture is registered |
| `ClaimKey`, `FindKey` | `claimKey`: insert, or read what is there |
| `HandlerSucceeds`, `HandlerFails`, `HandlerThrowsLate`, `BookKey`, `BookingFails` | the handler: done, thrown with nothing done, thrown after its commit; the outcome recorded, or the key released after any throw |
| `AppRestarts`, `ServerCrashes` | the app is closed, the server is killed |

The model begins where a first, unkeyed attempt got no answer. Such an attempt may have reached
the handler: the key begins with the queue, and nothing in the code relates the
two, so `KeyRunsOnce` is about the key.

Left out: sign-out, an expired session (it stops a drain as a lost answer does), a storage that
is full, unreadable photo bytes, and a key used for two different requests. A change of the
queue and its write to storage are one step; a drain of an empty queue is none.

### Run

`sends` (one photo, one JSON write, two drains, two requests, one fault; 774 000 states) checks
types, `KeyRunsOnce`, `SentIsDone`, `KeptUntilAnswered`, `InOrder`, `QueueEmpties`. Two
writes are what an order needs, two drains and two requests are the first and the one after a
restart, with the late request of the first still running. A lost answer, a handler or bookkeeping that fails, a crash and a restart each
need one fault, and one fault already leaves a claimed key behind. The safety properties are proved without the bound.

Four things are excused, each a behaviour of the code. `gone`: a claim
whose insert conflicts with a row that is gone at the next read runs without one. `threw`: the
interceptor releases the key after any throw, and two handlers can throw when their write is
committed: `contribute` (business.controller.ts:444) lists the goals for its answer in
another transaction, and a capture is refused with 429 once it is stored (captures.controller.ts:317).
The next request under the key runs the handler again, be it a second drain's or a repeat after a lost
answer: a contribution is then recorded twice, a capture is found again by its hash (in the model
both count as done). `KeyRunsOnce` counts both kinds and says that there is no
third; one fault is enough for the second run, since two drains can send one entry. `overwrote`: a write queued
while the storage is first read goes over what is stored, and what the read returns then
goes over it in memory. `Stranded`: a key claimed by
a request that died is answered "in flight" for ever, and a photo waits for it
(a JSON write is dropped on that answer). `KeptUntilAnswered` therefore does not catch that overwriting, and
`InOrder` takes an "in flight" answer for an answer: a JSON write dropped on it may still be
done after a later one. The `hazards` list the lines.

Fairness (`FairSpec`): the app is used while there is a connection, so a read of the
storage ends and drains begin and go on; a request that arrives is worked on and answered.
Failures are never fair, so an answer that is lost for ever is not assumed away: `MaxFaults`
bounds it.

## 8. Credit purchases

`CreditPurchases.tla` (abstract: `PurchasePromise.tla`, instances: `MCCreditPurchases.tla`,
proofs: `CreditPurchasesProofs.tla`).

### State and actions

| model | code |
|---|---|
| `status`, `session`, `payment` | a row of `credit_purchases`: status, `provider_ref`, `payment_ref` |
| `left`, `expired`, `scan`, `returned` | the row's `usage_grants` and the `credit_spends` of it |
| `checkout`, `events` | Stripe: checkout sessions, and events not yet answered with 2xx |
| `play`, `consumed`, `notices` | Google Play: purchases, which are consumed, and void notices not yet answered |
| `req`, `stale` | a checkout or redemption between two steps; history: a token granted after its void notice was answered |
| `StartCreditPurchase`, `BeginCheckout`, `CreateCheckout`, `AttachCheckoutSession` | an order, and the checkout: read, create a session at Stripe, attach it if the order has none |
| `Pays`, `PaysLater`, `Clears`, `Refunds` | what the buyer and the bank do at Stripe |
| `CompletedWebhook`, `UnpaidWebhook`, `RefundedWebhook` | `stripe-webhook`: fulfil, ignore, refund, each under the row's lock |
| `Buys`, `BuyClears`, `Voids`, `PlayGivesUp` | what happens at Play |
| `BeginRedeem`, `GrantGooglePlayPurchase`, `Consume`, `VoidNotice` | verify with Play, grant once per token, consume; the notice that takes it back |
| `SpendScanCredit`, `RefundScanCredit`, `Dies` | the scans that use the pack; a request cut off |

Events come in any order, and again after an answer that was lost. A webhook finds and
refunds the purchase in one step: the find reads the payment reference, which is
written once. Consuming twice is harmless at Play.

Left out: the operator's manual fulfilment (demo hosts only), partial refunds, the
refusals of a wrong product, a test card or another workspace (they change nothing), a buyer who
left the workspace, a pack that was retired, the order in which grants are spent, and the
expiry of a session.

### Run

`purchases` (one order, two sessions, one token, two requests, two scans on packs of two, one
fault; 409 865 states) checks types, `OnePayment`, `RefundTakesBack`,
`KeepsPurchasePromise`, `PaidIsGranted`, `PlaySettles`. Two sessions are a checkout asked for
twice; two requests are the two tabs, or the app that sends a token again; two scans
on two credits tell an empty pack from a used one.

`stale` excuses one order of events: Play voids a purchase, its notice is answered before the
redemption that verified it earlier has granted, and the grant comes last. A pending debit that
clears later (`cleared`) is never granted: the event of its success is not one the webhook
handles, so `PaidIsGranted` is about a payment made at the checkout.

Fairness (`FairSpec`): Stripe delivers a completed checkout until it is answered, and Play
returns the money of a purchase not consumed within three days. No request and no buyer is fair.

## 9. Document review

`DocumentReview.tla` (abstract: `ReviewPromise.tla`, instances: `MCDocumentReview.tla`,
proofs: `DocumentReviewProofs.tla`).

### State and actions

| model | code |
|---|---|
| `values`, `locked`, `version`, `status` | a row of `documents` and its lines: the columns a person can correct, `locked_fields`, `version`, `review_status` |
| `books`, `tasks` | the live transaction made of it; its `review_tasks` |
| `save` | the `saveExtraction` at work: what it read of the locks, the values and the posting |
| `req` | a person's request: shown at which version, checked, over |
| `reading`, `late`, `touched` | history: what the last run read, what people changed during a run and since |
| `unseen`, `raced` | history, for the clients that send a version: what was changed since they showed the document, lines included, and what of it since their version was compared |
| `OpenDocument`, `CheckVersion`, `Conflict`, `EditRefused`, `WriteEdit` | `getDocument`; the statements of `updateDocument` for a correction, by document or by capture |
| `Decide`, `SetVisibility`, `ReplaceLines` | confirm and reject, `visibility`, `lines`: none sends a version |
| `BeginSave`, `AskAfterPosting`, `SaveExtraction`, `SaveRollsBack` | `saveExtraction` on a capture that has a document: lock and read, then ask, rewrite or fail |
| `DraftTransaction`, `PostTransaction`, `MergeAndPost` | `draftTransactionFromDocument`, `postTransaction`, `supersedeAndPost` as far as they look at the document |

A correction is two steps because nothing is locked between the comparison of the version and
the update. A save is two because only the capture is locked: a person can write between its
reading and its writing. A field's value is opaque, and a correction gives its fields one
value: a total brings its tax and net along, as the controller derives them. Writes of one
transaction raise the version once.

Left out: how tax, net and the tax subtotals are derived, the compliance verdict, the
duplicates flag, void and redraft of a transaction (section 4), and a document that is deleted.

### Runs

| run | shows | bounds |
|---|---|---|
| `review` | types, `DisagreementShown`, `OverwritesOnlyRaces`, `KeepsReviewPromise` | three requests, one without a version, two re-extractions, three edits (a total; a supplier; a category), two readings (765 859 states) |
| `confirmed` | the counterexample of section 11 | one request, one re-extraction |

Two requests with a version are two editors; the third, without, is a confirmation or an old
client. Two runs are the first that disagrees and the next, which may agree again or meet a
decision taken meanwhile. An edit of three fields that differ in what `saveExtraction` does with
them (kept and compared, twice, and neither), one of the field it keeps and does not compare, and one
of a field that only supplier memory fills cover each kind of field.

`DisagreementShown` ranges over every settled field that a run reads, and excuses what a person
touched since the run began. It names the one field a run keeps in silence, the
supplier. Of a settled net amount it says nothing: that one is not kept, so the
document and the reading agree, at the person's expense. Text of the repository promises a task for both
(section 11). `ReviewPromise` lets a run
take back what was settled or posted while it was at work, since it goes by what it read, and
asks for the rest: what was settled before it began stays, except the net amount (section 11).

`OverwritesOnlyRaces` is stated where a correction with a version is written, and `unseen` is kept from the
time its client showed the document until then: values, locks, decisions and lines, whoever changed
them. What is left unseen at the write was changed after the comparison (`raced`), or
is the lines, a table the version does not count. Both happen in the run. So the property says how large the
window is; it does not say that nothing is lost in it, which is false (section 11).

No property here is about progress: people come when they like, and section 3 says when a run ends.

## 10. What is proved

For every value of the constants under the module's `ConstantsAssumption` (distinct
null values, finite sets where something is counted, natural bounds). No theorem relies on
a bound of the runs: any number of captures, workers, drains, requests and faults.

`ScanPipelineProofs.tla`

| theorem | states |
|---|---|
| `TypeCorrect` | `Spec => []TypeOK` |
| `ReadsStayTrue` | the inductive invariant `TypeOK /\ ReadInv` |
| `PointsCorrect` | `Spec => []PointsArePaidFor` |
| `RefundCorrect` | `Spec => RefundOnlyUnread` |
| `ConservationCorrect` | `Spec => []CreditConservation` |
| `PromiseKept` | `Spec => KeepsPromise`, the refinement |
| `OneHolderCorrect` | `Spec => []OneHolder` |
| `SettledCorrect` | `Spec => []OverMeansSettled` |
| `OwedCorrect` | `Spec => OwedUntilSettled` |
| `NothingForgotten` | `Spec => []NotForgotten` |

None of the safety properties is inductive: they hold because of what a worker read a
few steps ago. `ReadInv` says what that reading is still worth: while a worker is in
`saving` or `refunding` it holds the row of its capture, and what it read of the
payment or of the document is still so, since every other step that could change it
needs that row; while it is about to report a paid scan, the document exists, so no
refund can pass. `PointsCorrect`, `RefundCorrect` and the refinement each follow from it by
looking at the few actions that change the user-visible state. Conservation is
separate: a spend or a refund moves one capture in or out of `ChargedTo(g)` and one
credit the other way, counted with the cardinality theorems. `HolderInv` adds that, while
no heartbeat is missed, a worker's job is locked by it and not complete, and that it knows whether its
attempt is the last; with it `SettledInv` says that a paid capture without document or
refund has a job that still owes one: one that will be claimed again or whose worker has not yet
settled it. Over means that none does. `OwedCorrect` holds with any missed heartbeat, so two workers may be in
one job. Of `HolderInv` it uses only what needs no heartbeat: that nobody is in a job before it is
queued. `WithinAttempt` follows one worker through its attempt, `OwesStep` one job through
every step of any worker: whoever is about to complete a job leaves its capture read or
refunded (`RefundSees`), and a worker in its last attempt stands for the attempts that are gone.
`NothingForgotten` adds `DebtInv`: while no
call fails, a settled debt is a document, a refund or a kill in a last attempt;
and `ReportInv`: a saved receipt without a row has a worker between the commit and the report, or
a job that comes back to it.

`ReconciliationProofs.tla`

| theorem | states |
|---|---|
| `TypeCorrect` | `Spec => []TypeOK` |
| `EvidenceHolds` | the inductive invariant `Evidence` |
| `ObservedCorrect` | `Spec => []ObservedIsMaterialised` |
| `CountedOnce` | `Spec => []DocumentCountedOnce` |
| `StaleCorrect` | `Spec => []StaleIsSeenTo` |
| `ResuggestCorrect` | `Spec => NeverResuggested` |
| `RegisterKept` | `Spec => KeepsRegister`, the refinement |

`ObservedIsMaterialised` is one direction (an observation has its live transaction).
Alone it lets a supersede leave a live transaction behind that nothing observes, so
`Evidence` adds `LiveIsObserved`, the other direction for receipts: it is what makes a
receipt count once, and what the trigger needs so that a supersede of a line alone is refused when
the line is matched. The same is false for lines, because an unlink breaks it on
purpose (section 11). `UnlinkFinds` adds what an unlink relies on across its
transactions: if the row it read still exists, its transaction is of the very
receipt it read. Only with it is the delete exactly an `Unmatch` of the register. The lemmas
`SupersedeSteps`, `SupersedeEvidence` and `SupersedeLinks` say what superseding
does to observations, transactions and matched pairs, once for its three callers.

`StaleCorrect` is about the half-done unlink. The delete makes a transaction stale and knows
its receipt (`UnlinkFinds`, which therefore names the receipt), so the rebook it is about to do is of
that receipt. Any supersede that posts the receipt, the rebook or another's, voids the stale
transaction, since it is what the receipt's observation points at (`SupersedeStale`). A rebook
refused for a stale transaction was refused because the receipt is no longer postable, and with
`PostedIsPostable` such a receipt is one that was withdrawn (`RefusedWasWithdrawn`).

`VoucherRedemptionProofs.tla`

| theorem | states |
|---|---|
| `TypeCorrect` | `Spec => []TypeOK` |
| `AlwaysIInv` | the inductive invariant `IInv` |
| `PromiseKept` | `Spec => KeepsVoucherPromise`, the refinement |
| `MachineFollowed` | `Spec => FollowsMachine` |
| `AmountCorrect` | `Spec => []WrongAmountNotTaken` |
| `OtherValueCorrect` | `Spec => []OtherValueNeedsFault` |

A process may act on what it read long ago, and a call may run after its sender gave up, so
`IInv` is mostly about those. `AnswersStayTrue`: an answer heard or kept, other than "still
held", is the merchant's state for good. `OneAuthorize`: an authorize that has not run is the only one of
its row. `CapturesAreOpen`: a capture that can still take the voucher belongs to an attempt
that is open; this is why no closed attempt takes anything later. `OldHoldIsOver`: a person
is asked only when the hold is over. `StatusTellsTaken`, what a
reader wants, follows from these and from nothing less. Each step is then one step
of the promise at one row, or none.

`MachineFollowed` takes `StepFitsStatus` from the same invariant: every move goes from the status the
process read to one the trigger allows from there, and a move whose reading is stale is not
made (`FencedIsFollowed`). `WrongAmountNotTaken` is not inductive, since a capture may be on its way or be
about to be. `WrongIsReleased` adds that no such row is `authorized` or `capturing`, that no
capture of it is late, and that no process read it so or is about to hear that it is (`NotMeant`).
That a hold begins under a row in this state is `HoldWasTaken` of `IInv` (`BeginsReleased`).
The same invariant covers a voucher that holds more than its face value while nothing has failed. For it
the step that matters is the lookup, which does not tell such a value: `AuthorizedByOne` says that
until its answer to authorize is heard a row stays with the one that inserted it, so nobody looks up in
its place. `OtherValueNotTaken` itself is false (section 11).

`PointsOutboxProofs.tla`

| theorem | states |
|---|---|
| `TypeCorrect` | `Spec => []TypeOK` |
| `LinksRemembered` | `Spec => []NoForgottenLink` |
| `UnlinkedEarnsNothing` | `Spec => NothingAfterUnlink` |
| `BrokenLinksMarked` | `Spec => []BrokenIsMarked` |
| `PromiseKept` | `Spec => KeepsPointsPromise`, the refinement |

The invariant has three parts. `LinkInv`: a link that is over here, or that an unlink is
about to mark, is over at YourTal. `RowInv`: a row's final answer is the answer YourTal keeps
under its key. `DrainInv`: so is what a drain is about to write, even one that has lost its lock: this is why a
fence that two drains of one name pass is harmless.

`OfflineWritesProofs.tla`

| theorem | states |
|---|---|
| `TypeCorrect` | `Spec => []TypeOK` |
| `KeysRunOnce` | `Spec => []KeyRunsOnce` |
| `SentWasDone` | `Spec => []SentIsDone` |
| `StorageKeeps` | `Spec => []KeptUntilAnswered` |
| `KeepsOrder` | `Spec => InOrder` |

`Waits` ties a waiting drain to its request. `RunsOnce` counts: the times a write was done and the
requests that hold its key together are at most its row, the rows found deleted and the handlers that
threw late (each of which still holds the key it is about to release). So a
second run under a key needs one of the two. `WordIsTrue` follows a success from the handler through
the recorded answer, the reply and the upload to the phone. `Stores` says that memory and
storage agree once the first read is done. `LinesInOrder` is the argument for the order:
each copy of the queue, the drains' included, lists what a write waits for before the write, unless it
is done or answered, and a request on its way waits for nothing.

`CreditPurchasesProofs.tla`

| theorem | states |
|---|---|
| `AlwaysIInv` | the inductive invariant `IInv` |
| `TypeCorrect` | `Spec => []TypeOK` |
| `OneCheckout` | `Spec => []OnePayment` |
| `ConsumedCorrect` | `Spec => []ConsumedIsGranted` |
| `RefundHolds` | `Spec => []RefundTakesBack` |
| `PaymentsOwed` | `Spec => []PaidIsOwed` |
| `PackCorrect` | `Spec => []PackConserved` |
| `PromiseKept` | `Spec => KeepsPurchasePromise`, the refinement |

`Attached` and `OwnSessions`: a session is its order's own by the time the buyer sees it, and no
two requests attach one. `Asking`: what a request read still stands, but for a void. `CardRows` and
`PlayRows`: a settled row was settled by its own payment. `Heard`: an event tells what happened,
and a refund not yet answered is the only one a row may not know of. `Granted`: a grant is
live exactly while its purchase is paid, which makes a credit given back after the refund worth
nothing. `NextKeepsIInv` has one lemma per action.

`PaymentsOwed`: a session that was paid is its order's only one (`PaidSession`), so no webhook of
another session answers its event or closes its order, and its own `completed` finds the order
pending or already settled by it. `PackCorrect` counts: a spend takes a credit and adds a scan to
`Scanned`, which `ReturnedWasSpent` says was not returned already; a give-back undoes both,
and since the scan it is for is counted, what is left was below the pack's size and the cap in
`refundScanCredit` changes nothing. It is the one theorem of the module that needs
finitely many scans (`ScansAssumption`).

`DocumentReviewProofs.tla`

| theorem | states |
|---|---|
| `AlwaysIInv` | the inductive invariant `IInv` |
| `TypeCorrect` | `Spec => []TypeOK` |
| `DisagreementsShown` | `Spec => []DisagreementShown` |
| `VersionsCorrect` | `Spec => OverwritesOnlyRaces` |
| `PromiseKept` | `Spec => KeepsReviewPromise`, the refinement |

`SaveStands` says what a run's reading is worth when it writes: its locks are still held,
what was locked or changed since is in `late`, and the values it compares are the document's
but for those. Without it neither the disagreement nor the refinement could be carried over
the save. `SaveShows` goes through the settled fields that are read: one that is not kept
agrees with the reading, one that is kept is compared as it stands, or is the supplier.
`VersionTells`: a client that has not seen something the version counts holds one that is
behind, and a client past the comparison has missed only what was changed since.

Proved and checked by no run, since each holds for every instance: `NeverResuggested`,
`RefundOnlyUnread`, `PointsArePaidFor`, `OverMeansSettled`, `StaleIsSeenTo`, `ConsumedIsGranted`,
`PaidIsOwed`, `PackConserved` and `OtherValueNeedsFault`.

Only model-checked: the liveness properties (`ScanSettles`, `ReportQueued`,
`StaleIsVoided`, `RedemptionEnds`, `ReportEnds`, `QueueEmpties`, `PaidIsGranted`, `PlaySettles`), which
are out of the prover's reach, and the counterexamples. For four of them the
safety half is proved, that whoever must act has not forgotten: `NotForgotten`
(`ScanSettles`, `ReportQueued`), `StaleIsSeenTo` (`StaleIsVoided`) and `PaidIsOwed`
(`PaidIsGranted`). What is left to TLC there is that it does act.

## 11. Disagreements between code and text

Each is a run that TLC ends with a counterexample; `PROJECT.json` quotes the text.

| run | what the text says | what the code does |
|---|---|---|
| `killed` | spend.ts:7: a scan no model could read gives its credit back | a kill during the last attempt leaves neither document nor refund (and, between the save and the report, a saved receipt without its report) |
| `mismatched` | redeem.service.ts:75: amount and balance must both be the face value, else the hold is voided, whatever crashes | when the answer to authorize is lost, the lookup compares the amount only, and a voucher with another balance is captured (never without a fault: `OtherValueCorrect`) |
| `confirmed` | documents.controller.ts:583: confirming locks the checked fields against re-extraction (also 0009:18) | confirm locks nothing; a later run rewrites the amounts and the review status |

Seen while modelling, and not shown by a run of its own; each is a behaviour of the models:

- 0009_review_locks.sql:18 says a re-extraction must raise a review task where it disagrees with a
  locked field, and capture-document.controller.ts:67 that it raises one for a locked path. A settled supplier is kept
  and never compared (repo.ts:1777): no task, and the document may come out auto-accepted.
- repo.ts:1578 says every other column goes through `keep()`. The net amount does not
  (repo.ts:1780), although a corrected total locks it: a run changes it and nobody is told.
- repo.ts:1155 says a stale write is refused. Two corrections with one version can both
  pass the comparison, and the later one wins; and lines replaced since the client showed them
  make no version stale.
- idempotency.interceptor.ts:18 says it makes a retried write happen once. A handler that throws after its commit
  gives its key back, and the next request under the key does the write again (section 7).
- statements.repo.ts:396 says there are never two live transactions for one line. A standalone post
  between the halves of an unlink makes two; `StaleIsVoided` says when one of them goes.
- STATEMENTS.md:371 gives a candidate's life: suggested, then accepted or rejected. A reject that read
  before an accept overwrites the acceptance, and the pair stays posted.

And: a JSON write answered with a 5xx is dropped by the phone's queue like a
refusal (outbox.ts:289); two photos of a receipt without a number, saved before either is
reported, are both paid (outbox.repo.ts:193); and a transaction is built from the machine's tax
subtotals even when a person has corrected the total since (transactions.repo.ts:268).

## 12. Not modelled

`PROJECT.json` says it for each component. In short: the planned modules of section 2 (8 to
10); user interfaces (web, mobile screens); pure arithmetic and parsing that a
checker can only sample (tax engine, CSV and PDF, prompts), kept for later as operators
where a reference definition exists; the assistant, whose text nothing can check; read-only reports and
exports; deployment scripts; row-level security, which is SQL policy and is
taken as given: each model is inside one tenant. Most of the repository's lines are of
these kinds (the two screens layers, the API contract's schemas, fixtures and mocks, table definitions): the modules cover
the handlers and transactions where an order of events can go wrong.

## 13. Running it

    tlc -workers 2 -config ScanPipeline_safety.cfg MCScanPipeline.tla
    tlc -workers 2 -config Reconciliation_books.cfg MCReconciliation.tla
    tlc -workers 2 -config VoucherRedemption_redeems.cfg MCVoucherRedemption.tla
    tlc -workers 2 -config PointsOutbox_points.cfg MCPointsOutbox.tla
    tlc -workers 2 -config OfflineWrites_sends.cfg MCOfflineWrites.tla
    tlc -workers 2 -config CreditPurchases_purchases.cfg MCCreditPurchases.tla
    tlc -workers 2 -config DocumentReview_review.cfg MCDocumentReview.tla
    tlapm ScanPipelineProofs.tla

and so on: every cfg is named after its module and its run, and its first line says what it
varies; every `*Proofs` module is checked with `tlapm`. Definitions called a variant in their
comment are never part of a specification: each is a plausible mistake in one action, used to
see that a property would notice it.
