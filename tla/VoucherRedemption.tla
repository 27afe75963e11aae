--------------------------- MODULE VoucherRedemption ---------------------------
(***************************************************************************)
(* A YourTal voucher redeemed for scan credits: a row that is moved along  *)
(* its status machine by the request that made it and by the worker's      *)
(* drain, one call to the merchant API and one database transaction at a   *)
(* time.                                                                   *)
(*                                                                         *)
(* The rules of redeem.service.ts: authorize is sent once; a key is stored *)
(* with the row and used again on every retry, and any answer for it is    *)
(* final; a move needs the lease (locked_by) and the status that was read, *)
(* the grant needs only the row; a lookup settles what is not known.       *)
(*                                                                         *)
(* The merchant is modelled as apps/server/src/test-support describes it:  *)
(* one hold per voucher, one authorization per order, answers stored by    *)
(* key and replayed.  A call may be lost, arrive late, or be answered with *)
(* an error although it took effect.  One voucher code is enough: rows of  *)
(* different codes share nothing.                                          *)
(***************************************************************************)
EXTENDS Naturals, FiniteSets

CONSTANTS
  Rows,       \* attempts to redeem the code: rows of yourtal_voucher_redemptions
  Requests,   \* API requests
  Drains,     \* passes of the worker's drain
  NoRow, NoOne,
  Worths,     \* what the merchant may say the voucher holds
  MaxFaults   \* bound: lost or late calls, errors, failed transactions, crashes, overrun leases

Procs == Requests \cup Drains

ASSUME ConstantsAssumption ==
  /\ NoRow \notin Rows /\ NoOne \notin Procs
  /\ Requests \cap Drains = {}
  /\ Worths \subseteq {"face", "balance", "amount"}
  /\ MaxFaults \in Nat

VARIABLES
  status, holder,   \* the row: status and locked_by
  lock,             \* locked_at as a claim sees it: null, recent, or past the lease
  grants,           \* usage_grants rows made for it
  era,              \* its age: new, past the minutes of hold and order, past a day
  hold, worth,      \* the merchant: state of the order's authorization, and its value
  stored,           \* the merchant: the answer kept for a capture or void key
  late,             \* calls whose sender stopped waiting and that still run
  proc,             \* a process: where it is, and the row as it read it
  faults

rowVars == <<status, holder, lock, grants>>
merchantVars == <<hold, worth, stored, late>>
vars == <<rowVars, era, merchantVars, proc, faults>>

---------------------------------------------------------------------------

Finals == {"granted", "voided", "expired", "refused", "abandoned", "failed"}
Unfinished == {"authorizing", "authorized", "capturing", "captured", "voiding"}
Statuses == {"none", "needs_review"} \cup Finals \cup Unfinished

Holds == {"none", "held", "captured", "voided", "expired"}
Keyed == {"capture", "void"}
Calls == Keyed \cup {"authorize", "lookup"}

Answers ==
  {"none", "network", "ok", "error", "mismatch", "refused", "failed", "notFound"} \cup (Holds \ {"none"})

Idle == [at |-> "idle", row |-> NoRow, seen |-> "none", ans |-> "none"]

ProcRecord ==
  [at : {"idle", "begin", "grant", "review", "release"} \cup Calls,
   row : Rows \cup {NoRow}, seen : Statuses, ans : Answers]

TypeOK ==
  /\ status \in [Rows -> Statuses]
  /\ holder \in [Rows -> Procs \cup {NoOne}]
  /\ lock \in [Rows -> {"free", "held", "stale"}]
  /\ grants \in [Rows -> Nat]
  /\ era \in [Rows -> 0..2]
  /\ hold \in [Rows -> Holds]
  /\ worth \in [Rows -> {"face", "balance", "amount"}]
  /\ stored \in [Keyed \X Rows -> {"none", "ok", "error"}]
  /\ late \subseteq (Keyed \cup {"authorize"}) \X Rows
  /\ proc \in [Procs -> ProcRecord]
  /\ faults \in 0..MaxFaults
  /\ \A p \in Procs : proc[p].at # "idle" => proc[p].row \in Rows

Init ==
  /\ status = [r \in Rows |-> "none"]
  /\ holder = [r \in Rows |-> NoOne]
  /\ lock = [r \in Rows |-> "free"]
  /\ grants = [r \in Rows |-> 0]
  /\ era = [r \in Rows |-> 0]
  /\ hold = [r \in Rows |-> "none"]
  /\ worth = [r \in Rows |-> "face"]
  /\ stored = [k \in Keyed \X Rows |-> "none"]
  /\ late = {}
  /\ proc = [p \in Procs |-> Idle]
  /\ faults = 0

\* The partial unique index: in progress, granted or before a person.
Live(r) == status[r] \in Unfinished \cup {"granted", "needs_review"}

Fault == faults < MaxFaults /\ faults' = faults + 1

At(p, at) == proc[p].at = at /\ proc[p].ans = "none"
Answered(p, call) == proc[p].at = call /\ proc[p].ans # "none"
MyRow(p) == proc[p].row
Mine(p) == holder[MyRow(p)] = p /\ status[MyRow(p)] = proc[p].seen

\* What advanceRedemption does next with a row it read as s.
NextStep(p, r, s) ==
  CASE s = "authorizing" -> IF p \in Drains THEN "lookup" ELSE "release"
    [] s = "authorized"  -> IF era[r] >= 1 THEN "lookup" ELSE "begin"
    [] s = "capturing"   -> IF era[r] = 2 THEN "lookup" ELSE "capture"
    [] s = "voiding"     -> "void"
    [] s = "captured"    -> "grant"
    [] OTHER             -> "release"

\* Take up the row at status s.
Continue(p, r, s) ==
  proc' = [proc EXCEPT ![p] = [at |-> NextStep(p, r, s), row |-> r, seen |-> s, ans |-> "none"]]

Ask(p, at) == proc' = [proc EXCEPT ![p].at = at, ![p].ans = "none"]

\* Wait for the drain's next pass; a drain may find it is three days in capturing.
GiveUp(p) ==
  \/ Ask(p, "release")
  \/ p \in Drains /\ proc[p].seen = "capturing" /\ era[MyRow(p)] = 2 /\ Ask(p, "review")

\* Variant: UPDATE ... WHERE id alone.
MovesUnfenced(p, to) ==
  /\ status' = [status EXCEPT ![MyRow(p)] = to]
  /\ Continue(p, MyRow(p), to)
  /\ UNCHANGED <<holder, lock, grants>>

\* moveRedemption: fenced by the lease and by the status that was read.
Move(p, to) ==
  LET r == MyRow(p) IN
  /\ IF Mine(p)
     THEN /\ status' = [status EXCEPT ![r] = to]
          /\ Continue(p, r, to)
     ELSE UNCHANGED status /\ Ask(p, "release")
  /\ UNCHANGED <<holder, lock, grants>>

---------------------------------------------------------------------------
(* The merchant                                                            *)

\* An authorize takes effect; or it is turned down: the voucher is held by
\* another order, used, another merchant's, or redemption is switched off.
Authorizes(r, v) ==
  /\ \A x \in Rows : hold[x] \notin {"held", "captured"}
  /\ hold' = [hold EXCEPT ![r] = "held"]
  /\ worth' = [worth EXCEPT ![r] = v]

Declines == UNCHANGED <<hold, worth>>

\* Variant: a status the table does not know.
BecomesVoid(call) == IF call = "capture" THEN "captured" ELSE "void"

Becomes(call) == IF call = "capture" THEN "captured" ELSE "voided"

\* A capture or void needs a live hold, checked when it runs.
Effect(call, r, answer) ==
  \/ /\ hold[r] = "held" /\ answer = "ok"
     /\ hold' = [hold EXCEPT ![r] = Becomes(call)]
  \/ /\ hold[r] # "held" /\ answer = "error"
     /\ UNCHANGED hold

\* It fails although the hold is live, with or without having taken effect.
Fails(call, r, answer) ==
  /\ hold[r] = "held" /\ answer = "error"
  /\ hold' \in {hold, [hold EXCEPT ![r] = Becomes(call)]}

\* The first answer for a key is kept and replayed.
Keep(call, r, answer) ==
  stored' = [stored EXCEPT ![<<call, r>>] = answer]

\* A call that arrives after its sender stopped waiting.
LateAuthorize(r) ==
  /\ <<"authorize", r>> \in late
  /\ late' = late \ {<<"authorize", r>>}
  /\ Declines \/ \E v \in Worths : Authorizes(r, v)
  /\ UNCHANGED <<rowVars, era, stored, proc, faults>>

LateCall(call, r) ==
  /\ <<call, r>> \in late
  /\ late' = late \ {<<call, r>>}
  /\ \/ stored[<<call, r>>] # "none" /\ UNCHANGED <<hold, stored, faults>>
     \/ /\ stored[<<call, r>>] = "none"
        /\ \E answer \in {"ok", "error"} :
             /\ Keep(call, r, answer)
             /\ \/ Effect(call, r, answer) /\ UNCHANGED faults
                \/ Fails(call, r, answer) /\ Fault
  /\ UNCHANGED <<rowVars, era, worth, proc>>

\* The fifteen minutes of a hold are over.
HoldLapses(r) ==
  /\ hold[r] = "held"
  /\ hold' = [hold EXCEPT ![r] = "expired"]
  /\ UNCHANGED <<rowVars, era, worth, stored, late, proc, faults>>

---------------------------------------------------------------------------
(* Calls: what the merchant does, and what the caller hears of it          *)

Hears(p, answer) == proc' = [proc EXCEPT ![p].ans = answer]

\* The request's one authorize (authorizeOnce, to the answer).
SendAuthorize(p) ==
  LET r == MyRow(p) IN
  /\ At(p, "authorize")
  /\ \/ /\ \E v \in Worths :
               Authorizes(r, v) /\ Hears(p, IF v = "face" THEN "ok" ELSE "mismatch")
          /\ UNCHANGED <<late, faults>>
     \/ /\ Declines
        /\ \E answer \in {"refused", "failed"} : Hears(p, answer)
        /\ UNCHANGED <<late, faults>>
     \* Lost, a 5xx, or a body without an id: not known whether it holds.
     \/ /\ Fault /\ Hears(p, "network")
        /\ \/ Declines /\ late' \in {late, late \cup {<<"authorize", r>>}}
           \/ \E v \in Worths : Authorizes(r, v) /\ UNCHANGED late
  /\ UNCHANGED <<rowVars, era, stored>>

\* capture and void, sent with the row's key each time.
Send(p, call) ==
  LET r == MyRow(p) IN
  /\ At(p, call)
  /\ \/ /\ stored[<<call, r>>] # "none"
        /\ Hears(p, stored[<<call, r>>])
        /\ UNCHANGED <<hold, stored, late, faults>>
     \/ /\ stored[<<call, r>>] = "none"
        /\ \E answer \in {"ok", "error"} :
             /\ Keep(call, r, answer)
             /\ \/ Effect(call, r, answer) /\ Hears(p, answer) /\ UNCHANGED faults
                \/ Fails(call, r, answer) /\ Hears(p, answer) /\ Fault
                \/ Effect(call, r, answer) /\ Hears(p, "network") /\ Fault
        /\ UNCHANGED late
     \* Lost, or so slow that the sender stops waiting.
     \/ /\ Fault /\ Hears(p, "network")
        /\ late' \in {late, late \cup {<<call, r>>}}
        /\ UNCHANGED <<hold, stored>>
     \* 409: a call with this key is still being processed.
     \/ /\ <<call, r>> \in late /\ stored[<<call, r>>] = "none"
        /\ Hears(p, "network")
        /\ UNCHANGED <<hold, stored, late, faults>>
  /\ UNCHANGED <<rowVars, era, worth>>

SendLookup(p) ==
  LET r == MyRow(p) IN
  /\ At(p, "lookup")
  /\ \/ /\ Hears(p, CASE hold[r] = "none" -> "notFound"
                       [] hold[r] = "held" /\ worth[r] = "amount" -> "mismatch"
                       [] OTHER -> hold[r])
        /\ UNCHANGED faults
     \/ Fault /\ Hears(p, "network")
  /\ UNCHANGED <<rowVars, era, merchantVars>>

---------------------------------------------------------------------------
(* The request and the drain                                               *)

\* The row, committed before any call; the unique index lets one in.
InsertRedemption(p, r) ==
  /\ proc[p].at = "idle"
  /\ status[r] = "none" /\ \A x \in Rows : ~Live(x)
  /\ status' = [status EXCEPT ![r] = "authorizing"]
  /\ holder' = [holder EXCEPT ![r] = p]
  /\ lock' = [lock EXCEPT ![r] = "held"]
  /\ proc' = [proc EXCEPT ![p] = [at |-> "authorize", row |-> r, seen |-> "authorizing", ans |-> "none"]]
  /\ UNCHANGED <<grants, era, merchantVars, faults>>

\* Variant: a lease that never runs out.
ClaimsFreeOnly(p, r) ==
  /\ proc[p].at = "idle"
  /\ status[r] \in Unfinished /\ lock[r] = "free"
  /\ holder' = [holder EXCEPT ![r] = p]
  /\ lock' = [lock EXCEPT ![r] = "held"]
  /\ Continue(p, r, status[r])
  /\ UNCHANGED <<status, grants, era, merchantVars, faults>>

\* The drain's claim: unfinished, and not under a recent lease.
ClaimDue(p, r) ==
  /\ proc[p].at = "idle"
  /\ status[r] \in Unfinished /\ lock[r] # "held"
  /\ holder' = [holder EXCEPT ![r] = p]
  /\ lock' = [lock EXCEPT ![r] = "held"]
  /\ Continue(p, r, status[r])
  /\ UNCHANGED <<status, grants, era, merchantVars, faults>>

\* authorizeOnce, from the answer.
OnAuthorize(p) ==
  /\ Answered(p, "authorize")
  /\ CASE proc[p].ans = "ok"       -> Move(p, "authorized")
       [] proc[p].ans = "mismatch" -> Move(p, "voiding")
       [] proc[p].ans = "refused"  -> Move(p, "refused")
       [] proc[p].ans = "failed"   -> Move(p, "failed")
       [] OTHER                    -> Ask(p, "release") /\ UNCHANGED rowVars
  /\ UNCHANGED <<era, merchantVars, faults>>

\* 'capturing' is committed before the capture is sent.
BeginCapture(p) ==
  LET r == MyRow(p) IN
  /\ At(p, "begin")
  /\ IF Mine(p)
     THEN /\ status' = [status EXCEPT ![r] = "capturing"]
          /\ proc' = [proc EXCEPT ![p].at = "capture", ![p].seen = "capturing"]
     ELSE UNCHANGED status /\ Ask(p, "release")
  /\ UNCHANGED <<holder, lock, grants, era, merchantVars, faults>>

\* sendCapture and sendVoid, from the answer: ok moves the row, an error is
\* looked up, no answer waits for the drain.
OnAnswer(p, call) ==
  /\ Answered(p, call)
  /\ CASE proc[p].ans = "ok"    -> Move(p, Becomes(call))
       [] proc[p].ans = "error" -> Ask(p, "lookup") /\ UNCHANGED rowVars
       [] OTHER                 -> GiveUp(p) /\ UNCHANGED rowVars
  /\ UNCHANGED <<era, merchantVars, faults>>

\* Variant: whatever is held is authorized.
ResolvesAnyHold(seen, old, ans) ==
  CASE ans \in {"captured", "voided", "expired"}                     -> ans
    [] ans = "notFound" /\ seen = "authorizing" /\ old               -> "abandoned"
    [] ans \in {"held", "mismatch"} /\ seen = "authorizing"          -> "authorized"
    [] ans \in {"held", "mismatch"} /\ seen = "capturing"            -> "voiding"
    [] OTHER                                                         -> "none"

\* resolveByLookup, from the answer: where the row goes, or nowhere yet.
Resolved(seen, old, ans) ==
  CASE ans \in {"captured", "voided", "expired"}               -> ans
    [] ans = "notFound" /\ seen = "authorizing" /\ old         -> "abandoned"
    [] ans = "held" /\ seen = "authorizing"                    -> "authorized"
    [] ans = "mismatch" /\ seen = "authorizing"                -> "voiding"
    [] ans \in {"held", "mismatch"} /\ seen = "capturing"      -> "voiding"
    [] OTHER                                                   -> "none"

OnLookup(p) ==
  LET to == Resolved(proc[p].seen, era[MyRow(p)] >= 1, proc[p].ans) IN
  /\ Answered(p, "lookup")
  /\ IF to # "none" THEN Move(p, to) ELSE GiveUp(p) /\ UNCHANGED rowVars
  /\ UNCHANGED <<era, merchantVars, faults>>

\* Variant: the credits follow the status as it was read.
GrantsAsRead(p) ==
  LET r == MyRow(p) IN
  /\ At(p, "grant")
  /\ status' = [status EXCEPT ![r] = "granted"]
  /\ grants' = [grants EXCEPT ![r] = @ + 1]
  /\ holder' = [holder EXCEPT ![r] = NoOne]
  /\ lock' = [lock EXCEPT ![r] = "free"]
  /\ Ask(p, "release")
  /\ UNCHANGED <<era, merchantVars, faults>>

\* The credits, under the row's lock and not under the lease.
GrantRedemption(p) ==
  LET r == MyRow(p) IN
  /\ At(p, "grant")
  /\ IF status[r] = "captured"
     THEN /\ status' = [status EXCEPT ![r] = "granted"]
          /\ grants' = [grants EXCEPT ![r] = @ + 1]
          /\ holder' = [holder EXCEPT ![r] = NoOne]
          /\ lock' = [lock EXCEPT ![r] = "free"]
     ELSE UNCHANGED rowVars
  /\ Ask(p, "release")
  /\ UNCHANGED <<era, merchantVars, faults>>

Escalate(p) ==
  /\ IF Mine(p) THEN status' = [status EXCEPT ![MyRow(p)] = "needs_review"] ELSE UNCHANGED status
  /\ Ask(p, "release")
  /\ UNCHANGED <<holder, lock, grants, era, merchantVars>>

\* The grant's transaction fails; after a day of it the drain asks a person.
GrantFails(p) ==
  /\ At(p, "grant") /\ Fault
  /\ \/ p \in Drains /\ era[MyRow(p)] = 2 /\ Escalate(p)
     \/ Ask(p, "release") /\ UNCHANGED <<rowVars, era, merchantVars>>

\* Three days in capturing.
Review(p) == At(p, "review") /\ Escalate(p) /\ UNCHANGED faults

Release(p) ==
  LET r == MyRow(p) IN
  /\ At(p, "release")
  /\ IF holder[r] = p
     THEN /\ holder' = [holder EXCEPT ![r] = NoOne]
          /\ lock' = [lock EXCEPT ![r] = "free"]
     ELSE UNCHANGED <<holder, lock>>
  /\ proc' = [proc EXCEPT ![p] = Idle]
  /\ UNCHANGED <<status, grants, era, merchantVars, faults>>

---------------------------------------------------------------------------
(* What goes wrong, and time                                               *)

\* A transaction of the pass throws: the pass ends by letting go of the row.
PassFails(p) ==
  /\ proc[p].at \in {"begin", "review"} \/ \E call \in Calls : Answered(p, call)
  /\ Fault
  /\ Ask(p, "release")
  /\ UNCHANGED <<rowVars, era, merchantVars>>

\* The process dies, or cannot even let go.
Crash(p) ==
  /\ proc[p].at # "idle" /\ Fault
  /\ proc' = [proc EXCEPT ![p] = Idle]
  /\ UNCHANGED <<rowVars, era, merchantVars>>

\* The lease of a crashed process runs out; that of a slow one only as a fault.
LeaseLapses(r) ==
  /\ status[r] \in Unfinished /\ lock[r] = "held"
  /\ lock' = [lock EXCEPT ![r] = "stale"]
  /\ IF \E p \in Procs : holder[r] = p /\ MyRow(p) = r THEN Fault ELSE UNCHANGED faults
  /\ UNCHANGED <<status, holder, grants, era, merchantVars, proc>>

\* A hold lasts minutes: after a day it is over, and so is every call.
GrowsOld(r) ==
  /\ status[r] \in Unfinished /\ era[r] < 2
  /\ era[r] = 1 => hold[r] # "held" /\ \A k \in late : k[2] # r
  /\ era' = [era EXCEPT ![r] = @ + 1]
  /\ UNCHANGED <<rowVars, merchantVars, proc, faults>>

Step(p) ==
  \/ SendAuthorize(p) \/ SendLookup(p) \/ \E call \in Keyed : Send(p, call) \/ OnAnswer(p, call)
  \/ OnAuthorize(p) \/ BeginCapture(p) \/ OnLookup(p)
  \/ GrantRedemption(p) \/ GrantFails(p) \/ Review(p) \/ Release(p)

Pass(p) == Step(p) \/ (p \in Drains /\ \E r \in Rows : ClaimDue(p, r))

Merchant(r) == LateAuthorize(r) \/ (\E call \in Keyed : LateCall(call, r)) \/ HoldLapses(r)

Next ==
  \/ \E p \in Requests, r \in Rows : InsertRedemption(p, r)
  \/ \E p \in Procs : Pass(p) \/ PassFails(p) \/ Crash(p)
  \/ \E r \in Rows : Merchant(r) \/ LeaseLapses(r) \/ GrowsOld(r)

Spec == Init /\ [][Next]_vars

\* The loop polls for ever and every call has a time limit; the merchant
\* finishes what it began; time passes.
FairSpec ==
  /\ Spec
  /\ \A p \in Procs : WF_vars(Pass(p))
  /\ \A r \in Rows : WF_vars(Merchant(r)) /\ WF_vars(LeaseLapses(r)) /\ WF_vars(GrowsOld(r))

---------------------------------------------------------------------------
(* Properties                                                              *)

\* The moves the table's guard trigger allows (0041).
Allowed ==
  [s \in Statuses |->
    CASE s = "authorizing"  -> {"authorized", "captured", "voided", "expired", "refused", "abandoned", "failed"}
      [] s = "authorized"   -> {"capturing", "voiding", "captured", "expired"}
      [] s = "capturing"    -> {"captured", "voiding", "voided", "expired", "needs_review"}
      [] s = "captured"     -> {"granted", "needs_review"}
      [] s = "voiding"      -> {"voided", "expired", "captured"}
      [] s = "needs_review" -> {"captured", "granted", "voided", "expired"}
      [] OTHER              -> {}]

\* What redeem.service.ts makes of answers that are late, stale or repeated
\* never runs into the guard trigger of 0041: every move is one of its edges,
\* or the two through a status in between that the code names.
FollowsMachine ==
  [][\A r \in Rows :
       LET s == status[r] t == status'[r] IN
       \/ s = t \/ s = "none" \/ t \in Allowed[s]
       \/ s = "authorizing" /\ t = "voiding"
       \/ s = "authorized" /\ t = "voided"]_vars

\* The refinement: what the app says of an attempt, and what the merchant took.
Outcome(s) ==
  CASE s = "none"         -> "none"
    [] s = "granted"      -> "credited"
    [] s = "needs_review" -> "review"
    [] s \in Unfinished   -> "open"
    [] OTHER              -> "closed"

Attempt == [r \in Rows |-> Outcome(status[r])]
Taken == {r \in Rows : hold[r] = "captured"}

Promise == INSTANCE VoucherPromise WITH
  attempt <- Attempt, taken <- Taken, credits <- grants

\* A captured voucher is credited once or brought to a person, and an attempt
\* that ended without credits took nothing and never will (0041, the drain).
KeepsVoucherPromise == Promise!Spec

\* A hold whose amount is not the voucher's face value is released, also when
\* only a lookup told (authorizeOnce, resolveByLookup).
WrongAmountNotTaken == \A r \in Rows : worth[r] = "amount" => hold[r] # "captured"

\* The same of a voucher that holds more than its face value, which only the
\* answer to authorize tells.
OtherValueNotTaken == \A r \in Rows : worth[r] # "face" => hold[r] # "captured"

\* It takes a fault to lose that answer: while no call, transaction or process
\* failed and no lease ran out on its holder, such a voucher is never taken.
OtherValueNeedsFault == faults = 0 => OtherValueNotTaken

\* Every redemption ends or comes before a person, whatever was lost on the way.
RedemptionEnds ==
  \A r \in Rows : status[r] \in Unfinished ~> status[r] \in Finals \cup {"needs_review"}

=============================================================================
