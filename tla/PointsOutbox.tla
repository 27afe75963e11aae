--------------------------- MODULE PointsOutbox ---------------------------
(***************************************************************************)
(* The YourTal points link and the outbox of receipt reports               *)
(* (apps/server/src/yourtal): requests that link and unlink an account,    *)
(* scans that queue a report, drains that claim, send, back off and give   *)
(* up, and YourTal's side of it as the code and its test double see it.    *)
(*                                                                         *)
(* A link row is named by the request that inserts it, and a link at       *)
(* YourTal by the request whose exchange made it. One report per capture   *)
(* (0038), so a report is named by its capture.                            *)
(***************************************************************************)
EXTENDS Naturals, FiniteSets

CONSTANTS
  Users,        \* Snap Apps accounts
  Requests,     \* POST /v1/yourtal/link, each with a fresh code
  RequestUser,  \* who makes it
  Account,      \* the YourTal account its code was issued for
  Captures,
  Owner,        \* who uploaded the capture
  Receipt,      \* the paper receipt a capture shows
  Numbered,     \* the receipts with a document number: a content ref
  Drainers,     \* worker processes that drain
  WorkerName,   \* `yourtal-<pid>`: two containers may share one
  MaxAttempts,  \* OUTBOX_RETRY.maxAttempts
  MaxFaults,    \* bound: drains cut off, and locks that time out under one that runs
  NoLink, NoName, NoCapture

Names == {WorkerName[d] : d \in Drainers}

ASSUME ConstantsAssumption ==
  /\ RequestUser \in [Requests -> Users]
  /\ Owner \in [Captures -> Users]
  /\ DOMAIN Receipt = Captures /\ DOMAIN Account = Requests
  /\ MaxAttempts \in Nat \ {0} /\ MaxFaults \in Nat
  /\ NoLink \notin Requests /\ NoCapture \notin Captures /\ NoName \notin Names

VARIABLES
  link,      \* yourtal_links by request: none, live, revoked or broken
  issued,    \* the YourTal link id the request was given
  req,       \* where the request is
  unlink,    \* per user, where DELETE /v1/yourtal/link is, and the row it read
  scan,      \* where the scan of a capture is: unread, saved, linked, done
  others,    \* sameReceiptCaptureIds, read by the save
  status, via, lock, lockedBy, attempts,     \* yourtal_outbox by capture
  drain,     \* what each drain holds and does
  ytLive,    \* YourTal: links not revoked
  paid,      \* YourTal: reports that earned
  answer,    \* YourTal: the answer stored under a report's Idempotency-Key
  late,      \* requests given up here and still on their way there
  missed,    \* ghost: links whose YourTal side was heard of by nobody here
  faults

linkVars == <<link, issued, req, unlink>>
scanVars == <<scan, others>>
rowVars  == <<status, via, lock, lockedBy, attempts>>
ytVars   == <<paid, answer, late>>
vars == <<linkVars, scanVars, rowVars, drain, ytLive, ytVars, missed, faults>>

(* What the code calls reported: sent, or answered by YourTal's ledger. *)
REPORTED == {"pending", "sent", "duplicate", "refused"}
LedgerAnswers == {"sent", "duplicate", "refused", "link_broken"}
Outcomes == LedgerAnswers \cup {"cancelled", "failed", "dead"}

(* Where a drain is with the report in hand, if any. *)
Underway == {"sending", "finishing", "marking", "cancelling"}
DrainRecord == [pc : {"idle", "next", "releasing"} \cup Underway, batch : [Captures -> Nat],
                at : Captures \cup {NoCapture}, outcome : {"none", "retry"} \cup Outcomes, pause : BOOLEAN]

Between(pc, batch) == [pc |-> pc, batch |-> batch, at |-> NoCapture, outcome |-> "none", pause |-> FALSE]
Resting == Between("idle", [c \in Captures |-> 0])

Init ==
  /\ link = [r \in Requests |-> "none"] /\ issued = [r \in Requests |-> NoLink]
  /\ req = [r \in Requests |-> "idle"]
  /\ unlink = [u \in Users |-> [pc |-> "idle", row |-> NoLink]]
  /\ scan = [c \in Captures |-> "unread"] /\ others = [c \in Captures |-> {}]
  /\ status = [c \in Captures |-> "none"] /\ via = [c \in Captures |-> NoLink]
  /\ lock = [c \in Captures |-> "none"] /\ lockedBy = [c \in Captures |-> NoName]
  /\ attempts = [c \in Captures |-> 0]
  /\ drain = [d \in Drainers |-> Resting]
  /\ ytLive = {} /\ paid = {} /\ answer = [c \in Captures |-> "none"] /\ late = {}
  /\ missed = {} /\ faults = 0

(***************************************************************************)
(* Linking: liveLink, exchange, insertLink, and what a lost race does.     *)
(***************************************************************************)
LiveRows(u) == {r \in Requests : link[r] = "live" /\ RequestUser[r] = u}

Goes(r, pc) == req' = [req EXCEPT ![r] = pc]

BeginLink(r) ==
  /\ req[r] = "idle" /\ LiveRows(RequestUser[r]) = {}
  /\ Goes(r, "exchanging")
  /\ UNCHANGED <<link, issued, unlink, scanVars, rowVars, drain, ytLive, ytVars, missed, faults>>

(* YourTal keeps one link per account and partner: a second exchange is    *)
(* handed the same one.                                                    *)
Exchanged(r) == {i \in ytLive : Account[i] = Account[r]}

ExchangeLinkCode(r) ==
  /\ req[r] = "exchanging" /\ Goes(r, "inserting")
  /\ \/ Exchanged(r) = {} /\ ytLive' = ytLive \cup {r} /\ issued' = [issued EXCEPT ![r] = r]
     \/ \E i \in Exchanged(r) : issued' = [issued EXCEPT ![r] = i] /\ ytLive' = ytLive
  /\ UNCHANGED <<link, unlink, scanVars, rowVars, drain, ytVars, missed, faults>>

(* Every inline attempt went unanswered, or the answer was a refusal: the  *)
(* code may or may not have been spent.                                    *)
ExchangeFails(r) ==
  /\ req[r] = "exchanging" /\ Goes(r, "over")
  /\ \/ UNCHANGED <<ytLive, missed>>
     \/ Exchanged(r) = {} /\ ytLive' = ytLive \cup {r} /\ missed' = missed \cup {r}
  /\ UNCHANGED <<link, issued, unlink, scanVars, rowVars, drain, ytVars, faults>>

(* The indexes of 0037 decide: one live link per user, then one live       *)
(* Snap Apps account per YourTal link.                                     *)
InsertLink(r) ==
  /\ req[r] = "inserting"
  /\ IF LiveRows(RequestUser[r]) # {} THEN Goes(r, "raced") /\ link' = link
     ELSE /\ Goes(r, "over")
          /\ link' = IF \E q \in Requests : link[q] = "live" /\ issued[q] = issued[r] THEN link
                     ELSE [link EXCEPT ![r] = "live"]
  /\ UNCHANGED <<issued, unlink, scanVars, rowVars, drain, ytLive, ytVars, missed, faults>>

(* Variant: a lost race answers 409 and leaves the link it was given. *)
LeavesOrphan(r) ==
  /\ req[r] = "raced" /\ Goes(r, "over")
  /\ UNCHANGED <<link, issued, unlink, scanVars, rowVars, drain, ytLive, ytVars, missed, faults>>

(* Lost the race: the other request's link is this one, or this is ended. *)
LostRace(r) ==
  /\ req[r] = "raced"
  /\ Goes(r, IF \E q \in LiveRows(RequestUser[r]) : issued[q] = issued[r] THEN "over" ELSE "revoking")
  /\ UNCHANGED <<link, issued, unlink, scanVars, rowVars, drain, ytLive, ytVars, missed, faults>>

RevokeOrphan(r) ==
  /\ req[r] = "revoking" /\ Goes(r, "over")
  /\ \/ ytLive' = ytLive \ {issued[r]} /\ missed' = missed
     \/ ytLive' = ytLive /\ missed' = missed \cup {issued[r]}
  /\ UNCHANGED <<link, issued, unlink, scanVars, rowVars, drain, ytVars, faults>>

(* The request dies between two of its steps. *)
LinkDies(r) ==
  /\ req[r] \in {"inserting", "raced", "revoking"} /\ Goes(r, "over")
  /\ missed' = missed \cup {issued[r]}
  /\ UNCHANGED <<link, issued, unlink, scanVars, rowVars, drain, ytLive, ytVars, faults>>

(***************************************************************************)
(* Unlinking: YourTal is told first, then the row is marked.               *)
(***************************************************************************)
BeginUnlink(u) ==
  /\ unlink[u].pc = "idle"
  /\ \E r \in LiveRows(u) : unlink' = [unlink EXCEPT ![u] = [pc |-> "revoking", row |-> r]]
  /\ UNCHANGED <<link, issued, req, scanVars, rowVars, drain, ytLive, ytVars, missed, faults>>

UnlinkOver(u) == unlink' = [unlink EXCEPT ![u] = [pc |-> "idle", row |-> NoLink]]

(* Variant: an unanswered revoke counts as done. *)
ForgetsAnyway(u) ==
  /\ unlink[u].pc = "revoking" /\ unlink' = [unlink EXCEPT ![u].pc = "marking"]
  /\ ytLive' \in {ytLive, ytLive \ {issued[unlink[u].row]}}
  /\ UNCHANGED <<link, issued, req, scanVars, rowVars, drain, ytVars, missed, faults>>

RevokeLinkAtYourtal(u) ==
  /\ unlink[u].pc = "revoking"
  /\ \/ ytLive' = ytLive \ {issued[unlink[u].row]} /\ unlink' = [unlink EXCEPT ![u] = [pc |-> "marking", row |-> unlink[u].row]]
     \/ ytLive' \in {ytLive, ytLive \ {issued[unlink[u].row]}} /\ UnlinkOver(u)   \* no answer, or the request dies
  /\ UNCHANGED <<link, issued, req, scanVars, rowVars, drain, ytVars, missed, faults>>

MarkLinkRevoked(u) ==
  /\ unlink[u].pc = "marking" /\ UnlinkOver(u)
  /\ link' = [link EXCEPT ![unlink[u].row] = "revoked"]
  /\ UNCHANGED <<issued, req, scanVars, rowVars, drain, ytLive, ytVars, missed, faults>>

(* The person unlinks in YourTal. *)
RevokeFromYourtal(i) ==
  /\ i \in ytLive /\ ytLive' = ytLive \ {i}
  /\ UNCHANGED <<linkVars, scanVars, rowVars, drain, ytVars, missed, faults>>

(***************************************************************************)
(* Queueing: the save reads who else shows the same receipt, the link is   *)
(* read, and the row is written, each in its own transaction.              *)
(***************************************************************************)
Ref == [c \in Captures |-> IF Receipt[c] \in Numbered THEN <<"content", Receipt[c]>> ELSE <<"image", c>>]

SaveExtraction(c) ==
  /\ scan[c] = "unread" /\ scan' = [scan EXCEPT ![c] = "saved"]
  /\ others' = [others EXCEPT ![c] = {o \in Captures \ {c} : Receipt[o] = Receipt[c] /\ scan[o] # "unread"}]
  /\ UNCHANGED <<linkVars, rowVars, drain, ytLive, ytVars, missed, faults>>

LiveLink(c) ==
  /\ scan[c] = "saved"
  /\ \E r \in LiveRows(Owner[c]) : scan' = [scan EXCEPT ![c] = "linked"] /\ via' = [via EXCEPT ![c] = r]
  /\ UNCHANGED <<linkVars, others, status, lock, lockedBy, attempts, drain, ytLive, ytVars, missed, faults>>

(* No live link, a receipt from before it, or the transaction failed. *)
NotQueued(c) ==
  /\ scan[c] \in {"saved", "linked"} /\ scan' = [scan EXCEPT ![c] = "done"]
  /\ via' = [via EXCEPT ![c] = NoLink]
  /\ UNCHANGED <<linkVars, others, status, lock, lockedBy, attempts, drain, ytLive, ytVars, missed, faults>>

SameContent(c) == {o \in Captures \ {c} : /\ Owner[o] = Owner[c] /\ Ref[o] = Ref[c]
                                          /\ status[o] \notin {"none", "skipped"}}
ReportedEarlier(c) == {o \in others[c] : Owner[o] = Owner[c] /\ status[o] \in REPORTED}

QueueReceiptReport(c, paidScan) ==
  /\ scan[c] = "linked" /\ scan' = [scan EXCEPT ![c] = "done"]
  /\ status' = [status EXCEPT ![c] = IF paidScan /\ SameContent(c) = {} /\ ReportedEarlier(c) = {}
                                     THEN "pending" ELSE "skipped"]
  /\ UNCHANGED <<linkVars, others, via, lock, lockedBy, attempts, drain, ytLive, ytVars, missed, faults>>

(***************************************************************************)
(* Draining.                                                               *)
(***************************************************************************)
(* Variant: locked_by is not cleared with locked_at. *)
UnlocksOnly(c) == lock' = [lock EXCEPT ![c] = "none"] /\ lockedBy' = lockedBy

(* Variant: a write by id alone. *)
ByIdAlone(d, c) == TRUE

Free(c) == lock' = [lock EXCEPT ![c] = "none"] /\ lockedBy' = [lockedBy EXCEPT ![c] = NoName]

Fenced(d, c) == lockedBy[c] = WorkerName[d] /\ status[c] = "pending"

(* Variant: a locked report is never taken over. *)
ClaimsFreeOnly(d) ==
  /\ drain[d].pc = "idle"
  /\ \E due \in SUBSET {c \in Captures : status[c] = "pending" /\ lock[c] = "none"} :
       /\ due # {}
       /\ lock' = [c \in Captures |-> IF c \in due THEN "fresh" ELSE lock[c]]
       /\ lockedBy' = [c \in Captures |-> IF c \in due THEN WorkerName[d] ELSE lockedBy[c]]
       /\ attempts' = [c \in Captures |-> IF c \in due THEN attempts[c] + 1 ELSE attempts[c]]
       /\ drain' = [drain EXCEPT ![d] = Between("next", [c \in Captures |-> IF c \in due THEN attempts[c] + 1 ELSE 0])]
  /\ UNCHANGED <<linkVars, scanVars, status, via, ytLive, ytVars, missed, faults>>

ClaimDueReports(d) ==
  /\ drain[d].pc = "idle"
  /\ \E due \in SUBSET {c \in Captures : status[c] = "pending" /\ lock[c] # "fresh"} :
       /\ due # {}
       /\ lock' = [c \in Captures |-> IF c \in due THEN "fresh" ELSE lock[c]]
       /\ lockedBy' = [c \in Captures |-> IF c \in due THEN WorkerName[d] ELSE lockedBy[c]]
       /\ attempts' = [c \in Captures |-> IF c \in due THEN attempts[c] + 1 ELSE attempts[c]]
       /\ drain' = [drain EXCEPT ![d] = Between("next", [c \in Captures |-> IF c \in due THEN attempts[c] + 1 ELSE 0])]
  /\ UNCHANGED <<linkVars, scanVars, status, via, ytLive, ytVars, missed, faults>>

(* The reports a drain claimed and is not done with, by the attempts each   *)
(* had after the claim.                                                    *)
Batch(d) == {c \in Captures : drain[d].batch[c] > 0}

(* Where a drain is with one report of its batch. *)
At(d, pc, c, outcome, pause) ==
  drain' = [drain EXCEPT ![d] = [pc |-> pc, batch |-> drain[d].batch, at |-> c,
                                 outcome |-> outcome, pause |-> pause]]

(* The next report of the batch; its link is read before the send. *)
IsLinkLive(d, c) ==
  /\ drain[d].pc = "next" /\ c \in Batch(d)
  /\ IF link[via[c]] = "live" THEN At(d, "sending", c, "none", FALSE)
     ELSE At(d, "finishing", c, "cancelled", FALSE)
  /\ UNCHANGED <<linkVars, scanVars, rowVars, ytLive, ytVars, missed, faults>>

(* What YourTal does with the action: the stored answer again, or a new    *)
(* one. A receipt pays once per ref; a refusal may come for any report.    *)
Judged(c) == IF answer[c] # "none" THEN {answer[c]}
             ELSE IF issued[via[c]] \notin ytLive THEN {"link_broken"}
             ELSE {"refused", IF \E o \in paid : Ref[o] = Ref[c] THEN "duplicate" ELSE "sent"}

Records(c, verdict) ==
  /\ answer' = [answer EXCEPT ![c] = verdict]
  /\ paid' = IF verdict = "sent" THEN paid \cup {c} ELSE paid

Heard(d, outcome, pause) == At(d, "finishing", drain[d].at, outcome, pause)

Answered(d) ==
  /\ drain[d].pc = "sending"
  /\ \E verdict \in Judged(drain[d].at) : Records(drain[d].at, verdict) /\ Heard(d, verdict, FALSE)
  /\ UNCHANGED <<linkVars, scanVars, rowVars, ytLive, late, missed, faults>>

(* 429, 5xx, 401, 408 pause the batch, 409 in progress does not; any other *)
(* 4xx is final. Nothing was done.                                         *)
NotServed(d) ==
  /\ drain[d].pc = "sending"
  /\ \/ \E pause \in BOOLEAN : Heard(d, "retry", pause)
     \/ Heard(d, "failed", FALSE)
  /\ UNCHANGED <<linkVars, scanVars, rowVars, ytLive, ytVars, missed, faults>>

(* A timeout: YourTal did it, or the request is still on its way. *)
TimesOut(d) ==
  /\ drain[d].pc = "sending" /\ Heard(d, "retry", TRUE)
  /\ \/ \E verdict \in Judged(drain[d].at) : Records(drain[d].at, verdict) /\ late' = late
     \/ late' = late \cup {drain[d].at} /\ UNCHANGED <<paid, answer>>
  /\ UNCHANGED <<linkVars, scanVars, rowVars, ytLive, missed, faults>>

LateArrives(c) ==
  /\ c \in late /\ late' = late \ {c}
  /\ \E verdict \in Judged(c) : Records(c, verdict)
  /\ UNCHANGED <<linkVars, scanVars, rowVars, drain, ytLive, missed, faults>>

(* The report is done with: on to the next of the batch, or to rest. *)
After(d, pc) == IF pc = "next" /\ Batch(d) = {drain[d].at} THEN Resting
                ELSE Between(pc, [drain[d].batch EXCEPT ![drain[d].at] = 0])

GivenUp(d) == drain[d].outcome = "retry" /\ drain[d].batch[drain[d].at] >= MaxAttempts
Final(d) == IF GivenUp(d) THEN "dead" ELSE drain[d].outcome

(* Variant: a broken link is a final answer like any other. *)
FinishesOnly(d) ==
  LET c == drain[d].at IN
  /\ drain[d].pc = "finishing" /\ Final(d) # "retry"
  /\ IF Fenced(d, c) THEN status' = [status EXCEPT ![c] = Final(d)] /\ Free(c)
     ELSE UNCHANGED <<status, lock, lockedBy>>
  /\ drain' = [drain EXCEPT ![d] = After(d, "next")]
  /\ UNCHANGED <<linkVars, scanVars, via, attempts, ytLive, ytVars, missed, faults>>

FinishReport(d) ==
  LET c == drain[d].at IN
  /\ drain[d].pc = "finishing" /\ Final(d) # "retry"
  /\ IF Fenced(d, c) THEN status' = [status EXCEPT ![c] = Final(d)] /\ Free(c)
     ELSE UNCHANGED <<status, lock, lockedBy>>
  /\ IF Final(d) = "link_broken" THEN At(d, "marking", c, "link_broken", FALSE)
     ELSE drain' = [drain EXCEPT ![d] = After(d, "next")]
  /\ UNCHANGED <<linkVars, scanVars, via, attempts, ytLive, ytVars, missed, faults>>

RescheduleReport(d) ==
  LET c == drain[d].at IN
  /\ drain[d].pc = "finishing" /\ Final(d) = "retry"
  /\ IF Fenced(d, c) THEN Free(c) ELSE UNCHANGED <<lock, lockedBy>>
  /\ drain' = [drain EXCEPT ![d] = After(d, IF drain[d].pause THEN "releasing" ELSE "next")]
  /\ UNCHANGED <<linkVars, scanVars, status, via, attempts, ytLive, ytVars, missed, faults>>

(* Handed back unattempted, the attempt not counted. *)
ReleaseUnattempted(d) ==
  LET back == {c \in Batch(d) : Fenced(d, c)} IN
  /\ drain[d].pc = "releasing" /\ drain' = [drain EXCEPT ![d] = Resting]
  /\ lock' = [c \in Captures |-> IF c \in back THEN "none" ELSE lock[c]]
  /\ lockedBy' = [c \in Captures |-> IF c \in back THEN NoName ELSE lockedBy[c]]
  /\ attempts' = [c \in Captures |-> IF c \in back /\ attempts[c] > 0 THEN attempts[c] - 1 ELSE attempts[c]]
  /\ UNCHANGED <<linkVars, scanVars, status, via, ytLive, ytVars, missed, faults>>

MarkLinkBroken(d) ==
  LET r == via[drain[d].at] IN
  /\ drain[d].pc = "marking" /\ At(d, "cancelling", drain[d].at, "link_broken", FALSE)
  /\ link' = IF link[r] = "live" THEN [link EXCEPT ![r] = "broken"] ELSE link
  /\ UNCHANGED <<issued, req, unlink, scanVars, rowVars, ytLive, ytVars, missed, faults>>

CancelPendingForLink(d) ==
  LET c == drain[d].at IN
  /\ drain[d].pc = "cancelling"
  /\ status' = [o \in Captures |-> IF /\ status[o] = "pending" /\ lock[o] = "none"
                                      /\ via[o] = via[c] /\ o # c
                                   THEN "cancelled" ELSE status[o]]
  /\ drain' = [drain EXCEPT ![d] = After(d, "next")]
  /\ UNCHANGED <<linkVars, scanVars, via, lock, lockedBy, attempts, ytLive, ytVars, missed, faults>>

(* The worker is killed, or a database call throws: the pass ends and the  *)
(* locks stay.                                                             *)
Crash(d) ==
  /\ drain[d].pc # "idle" /\ faults < MaxFaults /\ faults' = faults + 1
  /\ drain' = [drain EXCEPT ![d] = Resting]
  /\ missed' = IF drain[d].pc = "marking" THEN missed \cup {via[drain[d].at]} ELSE missed
  /\ UNCHANGED <<linkVars, scanVars, rowVars, ytLive, ytVars>>

Holds(d, c) == c \in Batch(d) /\ WorkerName[d] = lockedBy[c]

(* 300 seconds pass over a lock whose drain is gone, or is slower. *)
LockAges(c) ==
  /\ lock[c] = "fresh" /\ lock' = [lock EXCEPT ![c] = "stale"]
  /\ UNCHANGED <<linkVars, scanVars, status, via, lockedBy, attempts, drain, ytLive, ytVars, missed>>

AbandonedLockAges(c) ==
  LockAges(c) /\ (\A d \in Drainers : ~Holds(d, c)) /\ UNCHANGED faults
HeldLockAges(c) ==
  LockAges(c) /\ (\E d \in Drainers : Holds(d, c)) /\ faults < MaxFaults /\ faults' = faults + 1

(***************************************************************************)
(* Specification.                                                          *)
(***************************************************************************)
Drain(d) ==
  \/ ClaimDueReports(d) \/ Answered(d) \/ NotServed(d) \/ TimesOut(d)
  \/ FinishReport(d) \/ RescheduleReport(d) \/ ReleaseUnattempted(d)
  \/ MarkLinkBroken(d) \/ CancelPendingForLink(d)
  \/ \E c \in Captures : IsLinkLive(d, c)

LinkStep(r) ==
  \/ BeginLink(r) \/ ExchangeLinkCode(r) \/ ExchangeFails(r) \/ InsertLink(r)
  \/ LostRace(r) \/ RevokeOrphan(r) \/ LinkDies(r) \/ RevokeFromYourtal(r)

UnlinkStep(u) == BeginUnlink(u) \/ RevokeLinkAtYourtal(u) \/ MarkLinkRevoked(u)

ScanStep(c) ==
  \/ SaveExtraction(c) \/ LiveLink(c) \/ NotQueued(c)
  \/ \E paidScan \in BOOLEAN : QueueReceiptReport(c, paidScan)
  \/ LateArrives(c) \/ AbandonedLockAges(c) \/ HeldLockAges(c)

Next ==
  \/ \E r \in Requests : LinkStep(r)
  \/ \E u \in Users : UnlinkStep(u)
  \/ \E c \in Captures : ScanStep(c)
  \/ \E d \in Drainers : Drain(d) \/ Crash(d)

Spec == Init /\ [][Next]_vars

FairSpec == Spec /\ (\A d \in Drainers : WF_vars(Drain(d)))
                 /\ (\A c \in Captures : WF_vars(AbandonedLockAges(c)))

(***************************************************************************)
(* Properties.                                                             *)
(***************************************************************************)
(* The type invariant: every row, request and drain is in a state the      *)
(* tables of 0037 and the handlers know, and locked_at and locked_by are   *)
(* set and cleared together.                                               *)
TypeOK ==
  /\ link \in [Requests -> {"none", "live", "revoked", "broken"}]
  /\ issued \in [Requests -> Requests \cup {NoLink}]
  /\ req \in [Requests -> {"idle", "exchanging", "inserting", "raced", "revoking", "over"}]
  /\ unlink \in [Users -> [pc : {"idle", "revoking", "marking"}, row : Requests \cup {NoLink}]]
  /\ scan \in [Captures -> {"unread", "saved", "linked", "done"}]
  /\ others \in [Captures -> SUBSET Captures]
  /\ status \in [Captures -> {"none", "skipped", "pending"} \cup Outcomes]
  /\ via \in [Captures -> Requests \cup {NoLink}]
  /\ lock \in [Captures -> {"none", "fresh", "stale"}]
  /\ lockedBy \in [Captures -> Names \cup {NoName}]
  /\ \A c \in Captures : lock[c] = "none" <=> lockedBy[c] = NoName
  /\ attempts \in [Captures -> Nat]
  /\ drain \in [Drainers -> DrainRecord]
  /\ \A d \in Drainers : drain[d].pc \in Underway => drain[d].at \in Captures
  /\ ytLive \subseteq Requests /\ missed \subseteq Requests \cup {NoLink}
  /\ paid \subseteq Captures /\ late \subseteq Captures
  /\ answer \in [Captures -> {"none"} \cup LedgerAnswers]
  /\ faults \in 0 .. MaxFaults

(* A link that is live at YourTal is known here, by a live row or by a     *)
(* request about to insert or end it, however requests to link and unlink  *)
(* interleave: link() ends the link of a lost race "rather than leave a    *)
(* live link at YourTal that Snap Apps has forgotten". Excused: an answer  *)
(* that never came and a request that died.                                *)
NoForgottenLink ==
  \A i \in ytLive \ missed : \E r \in Requests :
    issued[r] = i /\ (link[r] = "live" \/ req[r] \in {"inserting", "raced", "revoking"})

(* A report closed as link_broken comes with its link marked broken (or    *)
(* unlinked), so that the person is told to link again: finishReport,      *)
(* markLinkBroken and cancelPendingForLink are three transactions, and     *)
(* other drains, takeovers and unlinks run between them. Excused: a crash  *)
(* between the first two.                                                  *)
BrokenIsMarked ==
  \A c \in Captures : status[c] = "link_broken" =>
    \/ link[via[c]] # "live" \/ via[c] \in missed
    \/ \E d \in Drainers : drain[d].pc = "marking" /\ drain[d].at = c

(* Once a link is over here, YourTal pays nothing more under it: not the   *)
(* batch a drain holds, not a request already sent, not a retry. Unlinking *)
(* "tells YourTal first, then forgets the link here, so the link cannot    *)
(* keep earning".                                                          *)
NothingAfterUnlink ==
  [][\A c \in paid' \ paid : link[via[c]] \notin {"revoked", "broken"}]_vars

(* The rows and YourTal's ledger keep PointsPromise.                       *)
Promise == INSTANCE PointsPromise WITH told <- status
KeepsPointsPromise == Promise!Spec

(* Every queued report ends: sent, answered, cancelled or given up, when   *)
(* the drains poll for ever and the lock of a killed one times out,        *)
(* however its link is ended meanwhile.                                    *)
ReportEnds == \A c \in Captures : status[c] = "pending" ~> status[c] # "pending"

=============================================================================
