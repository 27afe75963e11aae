----------------------- MODULE VoucherRedemptionProofs -----------------------
(***************************************************************************)
(* Proofs about VoucherRedemption, for every number of attempts, requests, *)
(* drains and faults.                                                      *)
(***************************************************************************)
EXTENDS VoucherRedemption, TLAPS

\* A process that takes up a row, asks or hears keeps its shape.
LEMMA ProcMoves ==
  ASSUME TypeOK, NEW p \in Procs
  PROVE  /\ \A r \in Rows, s \in Statuses : Continue(p, r, s) => proc' \in [Procs -> ProcRecord]
         /\ \A at \in {"release", "review", "lookup"} : Ask(p, at) => proc' \in [Procs -> ProcRecord]
         /\ \A ans \in Answers : Hears(p, ans) => proc' \in [Procs -> ProcRecord]
<1>1. proc[p] \in ProcRecord
  BY DEF TypeOK
<1>2. ASSUME NEW r \in Rows, NEW s \in Statuses, Continue(p, r, s) PROVE proc' \in [Procs -> ProcRecord]
  <2>1. [at |-> NextStep(p, r, s), row |-> r, seen |-> s, ans |-> "none"] \in ProcRecord
    BY DEF NextStep, ProcRecord, Calls, Keyed, Answers
  <2> QED BY <1>2, <2>1 DEF Continue, TypeOK
<1>3. ASSUME NEW at \in {"release", "review", "lookup"}, Ask(p, at) PROVE proc' \in [Procs -> ProcRecord]
  <2>1. [proc[p] EXCEPT !.at = at, !.ans = "none"] \in ProcRecord
    BY <1>1 DEF ProcRecord, Calls, Keyed, Answers
  <2> QED BY <1>3, <2>1 DEF Ask, TypeOK
<1>4. ASSUME NEW ans \in Answers, Hears(p, ans) PROVE proc' \in [Procs -> ProcRecord]
  <2>1. [proc[p] EXCEPT !.ans = ans] \in ProcRecord
    BY <1>1 DEF ProcRecord
  <2> QED BY <1>4, <2>1 DEF Hears, TypeOK
<1> QED BY <1>2, <1>3, <1>4

\* What they leave alone: the other processes, and what p knows.
Others(p) == \A q \in Procs \ {p} : proc'[q] = proc[q]
LEMMA ProcEffects ==
  ASSUME TypeOK, NEW p \in Procs
  PROVE  /\ \A r \in Rows, s \in Statuses : Continue(p, r, s) =>
              /\ Others(p)
              /\ proc'[p] = [at |-> NextStep(p, r, s), row |-> r, seen |-> s, ans |-> "none"]
         /\ \A at : Ask(p, at) =>
              /\ Others(p)
              /\ proc'[p].at = at /\ proc'[p].ans = "none"
              /\ proc'[p].row = proc[p].row /\ proc'[p].seen = proc[p].seen
         /\ \A ans : Hears(p, ans) =>
              /\ Others(p)
              /\ proc'[p].at = proc[p].at /\ proc'[p].ans = ans
              /\ proc'[p].row = proc[p].row /\ proc'[p].seen = proc[p].seen
<1>1. proc[p] \in ProcRecord /\ proc \in [Procs -> ProcRecord]
  BY DEF TypeOK
<1>2. ASSUME NEW r \in Rows, NEW s \in Statuses, Continue(p, r, s)
      PROVE  Others(p) /\ proc'[p] = [at |-> NextStep(p, r, s), row |-> r, seen |-> s, ans |-> "none"]
  BY <1>1, <1>2 DEF Continue, Others
<1>3. ASSUME NEW at, Ask(p, at)
      PROVE  /\ Others(p) /\ proc'[p].at = at /\ proc'[p].ans = "none"
             /\ proc'[p].row = proc[p].row /\ proc'[p].seen = proc[p].seen
  BY <1>1, <1>3 DEF Ask, Others, ProcRecord
<1>4. ASSUME NEW ans, Hears(p, ans)
      PROVE  /\ Others(p) /\ proc'[p].at = proc[p].at /\ proc'[p].ans = ans
             /\ proc'[p].row = proc[p].row /\ proc'[p].seen = proc[p].seen
  BY <1>1, <1>4 DEF Hears, Others, ProcRecord
<1> QED BY <1>2, <1>3, <1>4

\* Every step keeps the types of the row, of the merchant and of the
\* processes.
LEMMA TypeStep ==
  ASSUME TypeOK, [Next]_vars PROVE TypeOK'
<1>0. MaxFaults \in Nat /\ Worths \subseteq {"face", "balance", "amount"} /\ Idle \in ProcRecord
  BY ConstantsAssumption DEF Idle, ProcRecord, Statuses, Answers
<1> DEFINE AtRow == \A q \in Procs : proc'[q].at # "idle" => proc'[q].row \in Rows
<1>1. ASSUME NEW p \in Procs, NEW r \in Rows, InsertRedemption(p, r) PROVE TypeOK'
  <2>1. [at |-> "authorize", row |-> r, seen |-> "authorizing", ans |-> "none"] \in ProcRecord
    BY DEF ProcRecord, Calls, Statuses, Unfinished, Answers
  <2> QED BY <1>1, <2>1 DEF InsertRedemption, TypeOK, Statuses, Unfinished, merchantVars
<1>2. ASSUME NEW p \in Procs, NEW r \in Rows, ClaimDue(p, r) PROVE TypeOK'
  <2>1. proc' \in [Procs -> ProcRecord]
    BY <1>2, ProcMoves DEF ClaimDue, TypeOK
  <2>2. AtRow
    BY <1>2 DEF ClaimDue, Continue, TypeOK
  <2> QED BY <1>2, <2>1, <2>2 DEF ClaimDue, TypeOK, merchantVars
<1>3. ASSUME NEW p \in Procs, SendAuthorize(p) PROVE TypeOK'
  <2>1. PICK answer \in Answers : Hears(p, answer)
    BY <1>3 DEF SendAuthorize, Answers
  <2>2. proc' \in [Procs -> ProcRecord] /\ AtRow
    BY <2>1, ProcMoves, ProcEffects DEF Others, TypeOK
  <2>3. MyRow(p) \in Rows
    BY <1>3 DEF SendAuthorize, At, MyRow, TypeOK
  <2>4. hold' \in [Rows -> Holds] /\ worth' \in [Rows -> {"face", "balance", "amount"}]
    BY <1>0, <1>3, <2>3 DEF SendAuthorize, Authorizes, Declines, Holds, TypeOK
  <2>5. late' \subseteq (Keyed \cup {"authorize"}) \X Rows /\ faults' \in 0..MaxFaults
    BY <1>0, <1>3, <2>3 DEF SendAuthorize, Fault, TypeOK
  <2> QED BY <1>3, <2>2, <2>4, <2>5 DEF SendAuthorize, TypeOK, rowVars
<1>4. ASSUME NEW p \in Procs, NEW call \in Keyed, Send(p, call) PROVE TypeOK'
  <2>1. MyRow(p) \in Rows
    BY <1>4 DEF Send, At, MyRow, TypeOK, Keyed
  <2>2. stored[<<call, MyRow(p)>>] \in {"none", "ok", "error"}
    BY <2>1 DEF TypeOK
  <2>3. PICK answer \in Answers : Hears(p, answer)
    BY <1>4, <2>2 DEF Send, Answers
  <2>4. proc' \in [Procs -> ProcRecord] /\ AtRow
    BY <2>3, ProcMoves, ProcEffects DEF Others, TypeOK
  <2>5. Becomes(call) \in Holds
    BY DEF Becomes, Holds
  <2>6. hold' \in [Rows -> Holds] /\ stored' \in [Keyed \X Rows -> {"none", "ok", "error"}]
    BY <1>4, <2>1, <2>5 DEF Send, Effect, Fails, Keep, TypeOK
  <2>7. late' \subseteq (Keyed \cup {"authorize"}) \X Rows /\ faults' \in 0..MaxFaults
    BY <1>0, <1>4, <2>1 DEF Send, Fault, TypeOK
  <2> QED BY <1>4, <2>4, <2>6, <2>7 DEF Send, TypeOK, rowVars
<1>5. ASSUME NEW p \in Procs, SendLookup(p) PROVE TypeOK'
  <2>1. hold[MyRow(p)] \in Holds
    BY <1>5 DEF SendLookup, At, MyRow, TypeOK
  <2>2. PICK answer \in Answers : Hears(p, answer)
    BY <1>5, <2>1 DEF SendLookup, Answers, Holds
  <2>3. proc' \in [Procs -> ProcRecord] /\ AtRow
    BY <2>2, ProcMoves, ProcEffects DEF Others, TypeOK
  <2> QED BY <1>0, <1>5, <2>3 DEF SendLookup, Fault, TypeOK, rowVars, merchantVars
<1>6. ASSUME NEW p \in Procs, NEW to \in Statuses, Move(p, to), MyRow(p) \in Rows,
             UNCHANGED <<era, merchantVars, faults>>
      PROVE TypeOK'
  <2>1. proc' \in [Procs -> ProcRecord]
    BY <1>6, ProcMoves DEF Move
  <2>2. AtRow
    <3>1. Others(p) /\ proc'[p].row = MyRow(p)
      <4>1. CASE Continue(p, MyRow(p), to)
        <5>1. /\ Others(p)
              /\ proc'[p] = [at |-> NextStep(p, MyRow(p), to), row |-> MyRow(p), seen |-> to, ans |-> "none"]
          BY <1>6, <4>1, ProcEffects
        <5> QED BY <5>1
      <4>2. CASE Ask(p, "release")
        BY <4>2, ProcEffects DEF MyRow
      <4> QED BY <1>6, <4>1, <4>2 DEF Move
    <3> QED BY <1>6, <3>1 DEF Others, TypeOK
  <2> QED BY <1>6, <2>1, <2>2 DEF Move, TypeOK, merchantVars
<1>7. ASSUME NEW p \in Procs, Ask(p, "release") \/ Ask(p, "review") \/ Ask(p, "lookup"),
             MyRow(p) \in Rows, status' \in [Rows -> Statuses], faults' \in 0..MaxFaults,
             grants' \in [Rows -> Nat], holder' \in [Rows -> Procs \cup {NoOne}],
             lock' \in [Rows -> {"free", "held", "stale"}], UNCHANGED <<era, merchantVars>>
      PROVE TypeOK'
  <2>1. proc' \in [Procs -> ProcRecord]
    BY <1>7, ProcMoves
  <2>2. AtRow
    <3>1. Others(p) /\ proc'[p].row = MyRow(p)
      BY <1>7, ProcEffects DEF MyRow
    <3> QED BY <1>7, <3>1 DEF Others, TypeOK
  <2> QED BY <1>7, <2>1, <2>2 DEF TypeOK, merchantVars
<1>8. \A p \in Procs : proc[p].at # "idle" => MyRow(p) \in Rows
  BY DEF TypeOK, MyRow
<1>9. ASSUME NEW p \in Procs, OnAuthorize(p) PROVE TypeOK'
  <2>1. MyRow(p) \in Rows
    BY <1>8, <1>9 DEF OnAuthorize, Answered
  <2>2. \/ \E to \in {"authorized", "voiding", "refused", "failed"} : Move(p, to)
        \/ Ask(p, "release") /\ UNCHANGED rowVars
    BY <1>9 DEF OnAuthorize
  <2> QED BY <1>6, <1>7, <1>9, <2>1, <2>2 DEF OnAuthorize, Statuses, Finals, Unfinished, rowVars, TypeOK
<1>10. ASSUME NEW p \in Procs, BeginCapture(p) PROVE TypeOK'
  <2>1. MyRow(p) \in Rows
    BY <1>8, <1>10 DEF BeginCapture, At
  <2>2. CASE Mine(p)
    <3>1. proc[p] \in ProcRecord
      BY DEF TypeOK
    <3>2. [proc[p] EXCEPT !.at = "capture", !.seen = "capturing"] \in ProcRecord
      BY <3>1 DEF ProcRecord, Calls, Keyed, Statuses, Unfinished
    <3>3. proc' = [proc EXCEPT ![p] = [proc[p] EXCEPT !.at = "capture", !.seen = "capturing"]]
      BY <1>10, <2>2, <3>1 DEF BeginCapture, TypeOK
    <3>4. proc' \in [Procs -> ProcRecord] /\ AtRow
      BY <2>1, <3>1, <3>2, <3>3 DEF TypeOK, MyRow, ProcRecord
    <3>5. status' \in [Rows -> Statuses]
      BY <1>10, <2>1, <2>2 DEF BeginCapture, TypeOK, Statuses, Unfinished
    <3> QED BY <1>10, <3>4, <3>5 DEF BeginCapture, TypeOK, merchantVars
  <2>3. CASE ~Mine(p)
    BY <1>7, <1>10, <2>1, <2>3 DEF BeginCapture, TypeOK, merchantVars
  <2> QED BY <2>2, <2>3
<1>11. ASSUME NEW p \in Procs, NEW call \in Keyed, OnAnswer(p, call) PROVE TypeOK'
  <2>1. MyRow(p) \in Rows
    BY <1>8, <1>11 DEF OnAnswer, Answered, Keyed
  <2>2. Becomes(call) \in Statuses
    BY DEF Becomes, Statuses, Finals, Unfinished
  <2>3. \/ Move(p, Becomes(call))
        \/ (Ask(p, "release") \/ Ask(p, "review") \/ Ask(p, "lookup")) /\ UNCHANGED rowVars
    BY <1>11 DEF OnAnswer, GiveUp
  <2> QED BY <1>6, <1>7, <1>11, <2>1, <2>2, <2>3 DEF OnAnswer, rowVars, TypeOK
<1>12. ASSUME NEW p \in Procs, OnLookup(p) PROVE TypeOK'
  <2>1. MyRow(p) \in Rows
    BY <1>8, <1>12 DEF OnLookup, Answered
  <2>2. \A seen, old, ans : Resolved(seen, old, ans) \in Statuses
    BY DEF Resolved, Statuses, Finals, Unfinished
  <2>3. \/ \E to \in Statuses : Move(p, to)
        \/ (Ask(p, "release") \/ Ask(p, "review") \/ Ask(p, "lookup")) /\ UNCHANGED rowVars
    BY <1>12, <2>2 DEF OnLookup, GiveUp
  <2> QED BY <1>6, <1>7, <1>12, <2>1, <2>3 DEF OnLookup, rowVars, TypeOK
<1>13. ASSUME NEW p \in Procs, GrantRedemption(p) \/ GrantFails(p) \/ Review(p) PROVE TypeOK'
  <2>1. MyRow(p) \in Rows
    BY <1>8, <1>13 DEF GrantRedemption, GrantFails, Review, At
  <2>2. status' \in [Rows -> Statuses]
    BY <1>13, <2>1 DEF GrantRedemption, GrantFails, Review, Escalate, TypeOK, rowVars, Statuses, Finals
  <2>3. faults' \in 0..MaxFaults
    BY <1>0, <1>13 DEF GrantRedemption, GrantFails, Review, Fault, TypeOK
  <2>4. grants' \in [Rows -> Nat] /\ holder' \in [Rows -> Procs \cup {NoOne}]
    BY <1>13, <2>1 DEF GrantRedemption, GrantFails, Review, Escalate, TypeOK, rowVars
  <2>5. lock' \in [Rows -> {"free", "held", "stale"}] /\ UNCHANGED <<era, merchantVars>>
    BY <1>13, <2>1 DEF GrantRedemption, GrantFails, Review, Escalate, TypeOK, rowVars
  <2>6. Ask(p, "release")
    BY <1>13 DEF GrantRedemption, GrantFails, Review, Escalate
  <2> QED BY <1>7, <2>1, <2>2, <2>3, <2>4, <2>5, <2>6
<1>14. ASSUME NEW p \in Procs, Release(p) PROVE TypeOK'
  <2>1. proc' \in [Procs -> ProcRecord] /\ AtRow
    BY <1>0, <1>14 DEF Release, TypeOK, Idle
  <2> QED BY <1>8, <1>14, <2>1 DEF Release, At, TypeOK, merchantVars
<1>15. ASSUME NEW p \in Procs, PassFails(p) \/ Crash(p) PROVE TypeOK'
  <2>1. CASE Crash(p)
    <3>1. proc' \in [Procs -> ProcRecord] /\ AtRow
      BY <1>0, <2>1 DEF Crash, TypeOK, Idle
    <3> QED BY <1>0, <2>1, <3>1 DEF Crash, Fault, TypeOK, rowVars, merchantVars
  <2>2. CASE PassFails(p)
    <3>1. proc' \in [Procs -> ProcRecord]
      BY <2>2, ProcMoves DEF PassFails
    <3>2. MyRow(p) \in Rows
      BY <2>2, <1>8 DEF PassFails, Answered, Calls, Keyed
    <3>3. AtRow
      BY <2>2, <3>2, ProcEffects DEF PassFails, Others, MyRow, TypeOK
    <3> QED BY <1>0, <2>2, <3>1, <3>3 DEF PassFails, Fault, TypeOK, rowVars, merchantVars
  <2> QED BY <1>15, <2>1, <2>2
<1>16. ASSUME NEW r \in Rows, LateAuthorize(r) PROVE TypeOK'
  BY <1>0, <1>16 DEF LateAuthorize, Authorizes, Declines, Holds, TypeOK, rowVars
<1>17. ASSUME NEW r \in Rows, NEW call \in Keyed, LateCall(call, r) PROVE TypeOK'
  <2>1. Becomes(call) \in Holds
    BY DEF Becomes, Holds
  <2>2. hold' \in [Rows -> Holds] /\ stored' \in [Keyed \X Rows -> {"none", "ok", "error"}]
    BY <1>17, <2>1 DEF LateCall, Effect, Fails, Keep, TypeOK
  <2>3. late' \subseteq (Keyed \cup {"authorize"}) \X Rows /\ faults' \in 0..MaxFaults
    BY <1>0, <1>17 DEF LateCall, Fault, TypeOK
  <2> QED BY <1>17, <2>2, <2>3 DEF LateCall, TypeOK, rowVars
<1>18. ASSUME NEW r \in Rows, HoldLapses(r) \/ LeaseLapses(r) \/ GrowsOld(r) PROVE TypeOK'
  <2>1. CASE HoldLapses(r)
    BY <2>1 DEF HoldLapses, Holds, TypeOK, rowVars
  <2>2. CASE LeaseLapses(r)
    BY <1>0, <2>2 DEF LeaseLapses, Fault, TypeOK, merchantVars
  <2>3. CASE GrowsOld(r)
    <3>1. era' \in [Rows -> 0..2]
      BY <2>3 DEF GrowsOld, TypeOK
    <3> QED BY <2>3, <3>1 DEF GrowsOld, TypeOK, rowVars, merchantVars
  <2> QED BY <1>18, <2>1, <2>2, <2>3
<1>19. CASE UNCHANGED vars
  BY <1>19 DEF vars, rowVars, merchantVars, TypeOK
<1> QED
  BY <1>1, <1>2, <1>3, <1>4, <1>5, <1>9, <1>10, <1>11, <1>12, <1>13, <1>14, <1>15, <1>16, <1>17, <1>18, <1>19
  DEF Next, Pass, Step, Merchant, Procs

\* What VoucherRedemption keeps of the row, the merchant and the processes
\* has its type, for every number of attempts, requests, drains and faults.
THEOREM TypeCorrect == Spec => []TypeOK
<1>1. Init => TypeOK
  BY ConstantsAssumption DEF Init, TypeOK, Idle, ProcRecord, Statuses, Answers, Holds
<1>2. TypeOK /\ [Next]_vars => TypeOK'
  BY TypeStep
<1> QED BY <1>1, <1>2, PTL DEF Spec

\* What a process is about to do fits the status it read.
StepFitsStatus ==
  \A p \in Procs :
    LET c == proc[p] IN
    /\ c.at = "idle" => c.row = NoRow
    /\ c.at = "authorize" => c.seen = "authorizing"
    /\ c.at = "begin" => c.seen = "authorized"
    /\ c.at = "capture" => c.seen = "capturing"
    /\ c.at = "void" => c.seen = "voiding"
    /\ c.at = "grant" => c.seen = "captured"
    /\ c.at = "lookup" => c.seen \in Unfinished \ {"captured"}
    /\ c.at = "review" => c.seen = "capturing" /\ era[c.row] = 2

\* Nothing is known of an attempt before its row is there.
NothingBeforeRow ==
  \A r \in Rows : status[r] = "none" =>
    /\ hold[r] = "none"
    /\ \A p \in Procs : MyRow(p) # r
    /\ \A call \in Calls : <<call, r>> \notin late

\* An authorize not yet run is the only one, and the order has no hold.
OneAuthorize ==
  /\ \A r \in Rows : <<"authorize", r>> \in late => hold[r] = "none"
  /\ \A p \in Procs : proc[p].at = "authorize" =>
       /\ proc[p].ans = "none" => hold[MyRow(p)] = "none" /\ <<"authorize", MyRow(p)>> \notin late
       /\ \A q \in Procs : proc[q].at = "authorize" /\ MyRow(q) = MyRow(p) => q = p

\* Every status past the first ones says that there was a hold.
SomeHold == {"authorized", "capturing", "captured", "voiding", "voided", "expired"}
HoldWasTaken ==
  /\ \A r \in Rows : status[r] \in SomeHold => hold[r] # "none"
  /\ \A r \in Rows, call \in Keyed : <<call, r>> \in late => hold[r] # "none"
  /\ \A p \in Procs : proc[p].at # "idle" /\ proc[p].seen \in SomeHold => hold[MyRow(p)] # "none"

\* What the merchant says, and what it keeps to say again, stays true.
AnswersStayTrue ==
  /\ \A call \in Keyed, r \in Rows : stored[<<call, r>>] = "ok" => hold[r] = Becomes(call)
  /\ \A p \in Procs :
       LET c == proc[p] IN
       /\ c.at \in Keyed /\ c.ans = "ok" => hold[c.row] = Becomes(c.at)
       /\ c.at = "lookup" /\ c.ans \in {"captured", "voided", "expired"} => hold[c.row] = c.ans
       /\ c.at = "lookup" /\ c.ans \in {"held", "mismatch"} => hold[c.row] # "none"
       /\ c.at = "authorize" /\ c.ans \in {"ok", "mismatch"} => hold[c.row] # "none"

\* A capture is sent, or still runs.
CaptureUnderway(r) ==
  <<"capture", r>> \in late \/ \E p \in Procs : MyRow(p) = r /\ proc[p].at = "capture"

NoCapture == {"none", "authorizing", "authorized", "refused", "failed", "abandoned"}

\* A capture that can still take the voucher belongs to an open attempt.
CapturesAreOpen ==
  \A r \in Rows : CaptureUnderway(r) =>
    /\ status[r] \notin NoCapture
    /\ hold[r] = "held" => status[r] \in Unfinished

\* Where a person is asked after days, the hold is long over.
OldHoldIsOver ==
  \A r \in Rows : era[r] = 2 /\ (status[r] = "capturing" \/ \E p \in Procs : MyRow(p) = r /\ proc[p].at = "begin")
    => hold[r] # "held"

\* Statuses say what was taken.
StatusTellsTaken ==
  \A r \in Rows :
    /\ status[r] \in {"captured", "granted"} => hold[r] = "captured"
    /\ hold[r] = "captured" => status[r] \notin NoCapture \cup {"voided", "expired"}
    /\ grants[r] = IF status[r] = "granted" THEN 1 ELSE 0

IInv ==
  /\ TypeOK /\ StepFitsStatus /\ NothingBeforeRow /\ OneAuthorize /\ HoldWasTaken
  /\ AnswersStayTrue /\ CapturesAreOpen /\ OldHoldIsOver /\ StatusTellsTaken

\* A process that only turns elsewhere - lets go, looks up, asks a person -
\* and changes neither the row's status nor the merchant.
Elsewhere(p) ==
  /\ Others(p)
  /\ \/ proc'[p].at = "idle" /\ proc'[p].row = NoRow
     \/ /\ proc'[p].row = MyRow(p) /\ proc'[p].seen = proc[p].seen /\ proc'[p].ans = "none"
        /\ proc[p].at # "idle"
        /\ \/ proc'[p].at = "release"
           \/ proc'[p].at = "lookup" /\ proc[p].seen \in Unfinished \ {"captured"}
           \/ proc'[p].at = "review" /\ proc[p].seen = "capturing" /\ era[MyRow(p)] = 2

LEMMA ElsewhereKeeps ==
  ASSUME IInv, TypeOK', NEW p \in Procs, Elsewhere(p),
         UNCHANGED <<status, grants, era, hold, stored, late>>
  PROVE  IInv'
<1> USE DEF MyRow
<1>0. p \in Procs /\ \A q \in Procs : q = p \/ proc'[q] = proc[q]
  BY DEF Elsewhere, Others
<1>1. StepFitsStatus'
  BY <1>0 DEF IInv, StepFitsStatus, Elsewhere
<1>2. NothingBeforeRow'
  BY <1>0, ConstantsAssumption DEF IInv, NothingBeforeRow, Elsewhere
<1>3. OneAuthorize'
  BY <1>0 DEF IInv, OneAuthorize, Elsewhere
<1>4. HoldWasTaken'
  BY <1>0 DEF IInv, HoldWasTaken, Elsewhere
<1>5. AnswersStayTrue'
  BY <1>0 DEF IInv, AnswersStayTrue, Elsewhere, Keyed
<1>6. CapturesAreOpen'
  BY <1>0 DEF IInv, CapturesAreOpen, CaptureUnderway, Elsewhere
<1>7. OldHoldIsOver'
  BY <1>0 DEF IInv, OldHoldIsOver, Elsewhere
<1>8. StatusTellsTaken'
  BY DEF IInv, StatusTellsTaken
<1> QED BY <1>1, <1>2, <1>3, <1>4, <1>5, <1>6, <1>7, <1>8 DEF IInv

\* moveRedemption by the one who holds the row, when what it heard fits.
LEMMA MoveKeeps ==
  ASSUME IInv, TypeOK', NEW p \in Procs, NEW r \in Rows, r = MyRow(p),
         NEW to \in Statuses \ {"none", "capturing", "granted"},
         Mine(p), proc[p].seen \in Unfinished,
         to \in SomeHold => hold[r] # "none",
         to = "captured" => hold[r] = "captured",
         to \in {"refused", "failed", "abandoned", "authorized"} => status[r] = "authorizing",
         to \in {"voided", "expired"} => hold[r] = to,
         to \in Unfinished \cup NoCapture \cup {"voided", "expired"}, to # "authorizing",
         status' = [status EXCEPT ![r] = to],
         Continue(p, r, to),
         UNCHANGED <<grants, era, hold, stored, late>>
  PROVE  IInv'
<1>0. TypeOK
  BY DEF IInv
<1>1. /\ \A q \in Procs : q = p \/ proc'[q] = proc[q]
      /\ proc'[p] = [at |-> NextStep(p, r, to), row |-> r, seen |-> to, ans |-> "none"]
  BY <1>0, ProcEffects DEF Others
<1>2. /\ \A x \in Rows : x # r => status'[x] = status[x]
      /\ status'[r] = to /\ status[r] = proc[p].seen
  BY <1>0 DEF TypeOK, Mine, MyRow
<1>3. /\ proc'[p].at \in {"lookup", "begin", "void", "grant", "release"}
      /\ proc'[p].at = "lookup" => to = "authorized"
      /\ proc'[p].at = "begin" => to = "authorized" /\ era[r] = 0
      /\ proc'[p].at = "void" => to = "voiding"
      /\ proc'[p].at = "grant" => to = "captured"
      /\ proc'[p].row = r /\ proc'[p].seen = to /\ proc'[p].ans = "none"
  <2>1. era[r] \in 0..2
    BY <1>0 DEF TypeOK
  <2> QED BY <1>1, <2>1 DEF NextStep, Unfinished
<1> USE DEF MyRow
<1>5. StepFitsStatus'
  BY <1>1, <1>3 DEF IInv, StepFitsStatus, Unfinished
<1>6. NothingBeforeRow'
  BY <1>1, <1>2, <1>3 DEF IInv, NothingBeforeRow, Unfinished
<1>7. OneAuthorize'
  BY <1>1, <1>3 DEF IInv, OneAuthorize
<1>8. HoldWasTaken'
  BY <1>1, <1>2, <1>3 DEF IInv, HoldWasTaken
<1>9. AnswersStayTrue'
  BY <1>1, <1>3 DEF IInv, AnswersStayTrue, Keyed
<1>10. CapturesAreOpen'
  <2>1. \A x \in Rows : CaptureUnderway(x)' => CaptureUnderway(x)
    BY <1>1, <1>3 DEF CaptureUnderway
  <2>2. CaptureUnderway(r)' => to \notin NoCapture /\ (hold[r] = "held" => to \in Unfinished)
    BY <2>1, <1>2 DEF IInv, CapturesAreOpen, CaptureUnderway, NoCapture, Unfinished
  <2>3. \A x \in Rows : x # r /\ CaptureUnderway(x)' =>
           status'[x] \notin NoCapture /\ (hold'[x] = "held" => status'[x] \in Unfinished)
    BY <2>1, <1>2 DEF IInv, CapturesAreOpen
  <2> QED BY <2>2, <2>3, <1>2 DEF CapturesAreOpen, CaptureUnderway
<1>11. OldHoldIsOver'
  BY <1>1, <1>2, <1>3 DEF IInv, OldHoldIsOver
<1>12. StatusTellsTaken'
  BY <1>2 DEF IInv, StatusTellsTaken, NoCapture, Unfinished
<1> QED BY <1>5, <1>6, <1>7, <1>8, <1>9, <1>10, <1>11, <1>12 DEF IInv

\* A hold that is captured, voided or over stays what it is.
LEMMA HoldEnds ==
  ASSUME IInv, NEW r \in Rows, NEW over \in {"captured", "voided", "expired"},
         hold[r] = "held", hold' = [hold EXCEPT ![r] = over],
         over = "captured" => CaptureUnderway(r)
  PROVE  /\ \A x \in Rows : hold[x] # "held" => hold'[x] = hold[x]
         /\ \A x \in Rows : hold[x] = "none" <=> hold'[x] = "none"
         /\ \A x \in Rows : hold'[x] = "held" => hold[x] = "held"
         /\ \A x \in Rows : hold'[x] = "captured" /\ hold[x] # "captured" =>
              hold[x] = "held" /\ CaptureUnderway(x)
         /\ hold'[r] = over
BY DEF IInv, TypeOK

\* A capture or a void, sent now or still running, that the merchant carries
\* out or not and keeps the answer of.
LEMMA CallKeeps ==
  ASSUME IInv, TypeOK', NEW call \in Keyed, NEW r \in Rows, NEW answer \in {"ok", "error"},
         hold[r] # "none", status[r] # "none",
         call = "capture" => CaptureUnderway(r),
         late' \subseteq late \cup {<<call, r>>},
         hold' = hold \/ (hold[r] = "held" /\ hold' = [hold EXCEPT ![r] = Becomes(call)]),
         \/ stored' = stored
         \/ stored' = [stored EXCEPT ![<<call, r>>] = answer] /\ (answer = "ok" => hold'[r] = Becomes(call)),
         \/ proc' = proc
         \/ \E p \in Procs : /\ At(p, call) /\ MyRow(p) = r
                             /\ \E a \in {"ok", "error", "network"} :
                                  Hears(p, a) /\ (a = "ok" => hold'[r] = Becomes(call)),
         UNCHANGED <<status, grants, era>>
  PROVE  IInv'
<1>0. TypeOK
  BY DEF IInv
<1>1. /\ \A x \in Rows : hold[x] # "held" => hold'[x] = hold[x]
      /\ \A x \in Rows : hold[x] = "none" <=> hold'[x] = "none"
      /\ \A x \in Rows : hold'[x] = "held" => hold[x] = "held"
      /\ \A x \in Rows : hold'[x] = "captured" /\ hold[x] # "captured" =>
              hold[x] = "held" /\ CaptureUnderway(x)
  <2>1. CASE hold' = hold
    BY <2>1
  <2>2. CASE hold[r] = "held" /\ hold' = [hold EXCEPT ![r] = Becomes(call)]
    <3>1. Becomes(call) \in {"captured", "voided"} /\ (Becomes(call) = "captured" => call = "capture")
      BY DEF Becomes, Keyed
    <3> QED BY <2>2, <3>1, HoldEnds
  <2> QED BY <2>1, <2>2
<1> DEFINE OnlyHears == \A q \in Procs :
        /\ proc'[q].at = proc[q].at /\ proc'[q].row = proc[q].row /\ proc'[q].seen = proc[q].seen
        /\ \/ proc'[q].ans = proc[q].ans
           \/ proc[q].at = call /\ proc[q].row = r /\ (proc'[q].ans = "ok" => hold'[r] = Becomes(call))
<1>2. OnlyHears
  <2>1. CASE proc' = proc
    BY <2>1
  <2>2. ASSUME NEW p \in Procs, At(p, call), MyRow(p) = r, NEW a \in {"ok", "error", "network"},
               Hears(p, a), a = "ok" => hold'[r] = Becomes(call)
        PROVE  OnlyHears
    BY <1>0, <2>2, ProcEffects DEF Others, At, MyRow
  <2> QED BY <2>1, <2>2
<1>3. call \in {"capture", "void"} /\ \A x \in Rows : <<"authorize", x>> \in late' => <<"authorize", x>> \in late
  BY DEF Keyed
<1> USE DEF MyRow
<1>4. StepFitsStatus'
  BY <1>2 DEF IInv, StepFitsStatus
<1>5. NothingBeforeRow'
  BY <1>1, <1>2 DEF IInv, NothingBeforeRow
<1>6. OneAuthorize'
  BY <1>0, <1>1, <1>2, <1>3 DEF IInv, OneAuthorize, TypeOK
<1>7. HoldWasTaken'
  BY <1>0, <1>1, <1>2, <1>3 DEF IInv, HoldWasTaken, TypeOK
<1>8. AnswersStayTrue'
  <2>1. \A c \in Keyed, x \in Rows : stored'[<<c, x>>] = "ok" => hold'[x] = Becomes(c)
    <3> SUFFICES ASSUME NEW c \in Keyed, NEW x \in Rows, stored'[<<c, x>>] = "ok" PROVE hold'[x] = Becomes(c)
      OBVIOUS
    <3>1. CASE stored[<<c, x>>] = "ok"
      BY <1>1, <3>1 DEF IInv, AnswersStayTrue, Becomes
    <3>2. CASE stored[<<c, x>>] # "ok"
      <4>1. stored \in [Keyed \X Rows -> {"none", "ok", "error"}]
        BY <1>0 DEF TypeOK
      <4>2. c = call /\ x = r /\ answer = "ok"
        BY <3>2, <4>1
      <4> QED BY <3>2, <4>2
    <3> QED BY <3>1, <3>2
  <2>2. \A p \in Procs : proc[p].at # "idle" => proc[p].row \in Rows
    BY <1>0 DEF TypeOK
  <2>3. ASSUME NEW p \in Procs, proc'[p].at \in Keyed, proc'[p].ans = "ok"
        PROVE  hold'[proc'[p].row] = Becomes(proc'[p].at)
    <3>1. proc[p].row \in Rows /\ proc'[p].row = proc[p].row /\ proc'[p].at = proc[p].at
      BY <1>2, <2>2, <2>3 DEF Keyed
    <3>2. CASE proc'[p].ans # proc[p].ans
      BY <1>2, <2>3, <3>2
    <3>3. CASE proc'[p].ans = proc[p].ans
      BY <1>1, <1>2, <2>3, <3>1, <3>3 DEF IInv, AnswersStayTrue, Becomes, Keyed
    <3> QED BY <3>2, <3>3
  <2>4. \A p \in Procs : proc'[p].at \in {"lookup", "authorize"} =>
           proc'[p].ans = proc[p].ans /\ proc[p].row \in Rows
    BY <1>2, <1>3, <2>2
  <2> QED BY <1>1, <1>2, <2>1, <2>3, <2>4 DEF IInv, AnswersStayTrue
<1>9. \A x \in Rows : (<<"capture", x>> \in late' \/ \E p \in Procs : proc'[p].row = x /\ proc'[p].at = "capture")
        => CaptureUnderway(x)
  BY <1>2, <1>3 DEF CaptureUnderway
<1>10. CapturesAreOpen'
  BY <1>1, <1>9 DEF IInv, CapturesAreOpen, CaptureUnderway
<1>11. OldHoldIsOver'
  BY <1>1, <1>2 DEF IInv, OldHoldIsOver
<1>12. StatusTellsTaken'
  BY <1>1 DEF IInv, StatusTellsTaken, CapturesAreOpen, Unfinished
<1> QED BY <1>4, <1>5, <1>6, <1>7, <1>8, <1>10, <1>11, <1>12 DEF IInv

\* The one authorize takes effect, answered in time or not.
LEMMA AuthorizeKeeps ==
  ASSUME IInv, TypeOK', NEW r \in Rows, hold[r] = "none", hold' = [hold EXCEPT ![r] = "held"],
         late' \subseteq late, <<"authorize", r>> \notin late',
         \/ proc' = proc /\ <<"authorize", r>> \in late
         \/ \E p \in Procs : /\ At(p, "authorize") /\ MyRow(p) = r
                             /\ \E a \in {"ok", "mismatch", "network"} : Hears(p, a),
         UNCHANGED <<status, grants, era, stored>>
  PROVE  IInv'
<1>0. TypeOK
  BY DEF IInv
<1>1. hold'[r] = "held" /\ \A x \in Rows : x # r => hold'[x] = hold[x]
  BY <1>0 DEF TypeOK
<1> DEFINE OnlyHears ==
  /\ \A q \in Procs :
       /\ proc'[q].at = proc[q].at /\ proc'[q].row = proc[q].row /\ proc'[q].seen = proc[q].seen
       /\ proc'[q].ans = proc[q].ans \/ (proc[q].at = "authorize" /\ proc[q].row = r /\ proc'[q].ans # "none")
  /\ \A q \in Procs : proc[q].at = "authorize" /\ proc[q].row = r => proc'[q].ans # "none"
<1>2. OnlyHears
  <2>1. CASE proc' = proc /\ <<"authorize", r>> \in late
    BY <2>1 DEF IInv, OneAuthorize, MyRow
  <2>2. ASSUME NEW p \in Procs, At(p, "authorize"), MyRow(p) = r,
               NEW a \in {"ok", "mismatch", "network"}, Hears(p, a)
        PROVE  OnlyHears
    <3>1. \A q \in Procs : proc[q].at = "authorize" /\ proc[q].row = r => q = p
      BY <2>2 DEF IInv, OneAuthorize, MyRow, At
    <3> QED BY <1>0, <2>2, <3>1, ProcEffects DEF Others, At, MyRow
  <2> QED BY <2>1, <2>2
<1>3. \A q \in Procs : proc[q].at # "idle" => proc[q].row \in Rows
  BY <1>0 DEF TypeOK
<1> USE DEF MyRow
<1>4. StepFitsStatus'
  BY <1>2 DEF IInv, StepFitsStatus
<1>5. NothingBeforeRow'
  <2>1. status[r] # "none"
    BY <1>0 DEF IInv, NothingBeforeRow, At, Calls
  <2> QED BY <1>1, <1>2, <2>1 DEF IInv, NothingBeforeRow
<1>6. OneAuthorize'
  BY <1>1, <1>2, <1>3 DEF IInv, OneAuthorize
<1>7. HoldWasTaken'
  BY <1>0, <1>1, <1>2, <1>3 DEF IInv, HoldWasTaken, TypeOK
<1>8. AnswersStayTrue'
  BY <1>1, <1>2, <1>3 DEF IInv, AnswersStayTrue, Becomes, Keyed
<1>9. \A x \in Rows : (<<"capture", x>> \in late' \/ \E p \in Procs : proc'[p].row = x /\ proc'[p].at = "capture")
        => CaptureUnderway(x)
  BY <1>2 DEF CaptureUnderway
<1>10. ~CaptureUnderway(r)
  BY DEF IInv, CaptureUnderway, StepFitsStatus, HoldWasTaken, SomeHold, Keyed
<1>11. CapturesAreOpen'
  BY <1>1, <1>9, <1>10 DEF IInv, CapturesAreOpen, CaptureUnderway
<1>12. OldHoldIsOver'
  BY <1>1, <1>2 DEF IInv, OldHoldIsOver, StepFitsStatus, HoldWasTaken, SomeHold
<1>13. StatusTellsTaken'
  BY <1>1 DEF IInv, StatusTellsTaken
<1> QED BY <1>4, <1>5, <1>6, <1>7, <1>8, <1>11, <1>12, <1>13 DEF IInv

\* Time: a hold lapses, a lease runs out, a row grows old.
LEMMA TimeKeeps ==
  ASSUME IInv, TypeOK', NEW r \in Rows, HoldLapses(r) \/ LeaseLapses(r) \/ GrowsOld(r)
  PROVE  IInv'
<1>0. TypeOK
  BY DEF IInv
<1> USE DEF MyRow
<1>1. CASE HoldLapses(r)
  <2>1. /\ \A x \in Rows : hold[x] # "held" => hold'[x] = hold[x]
        /\ \A x \in Rows : hold[x] = "none" <=> hold'[x] = "none"
        /\ \A x \in Rows : hold'[x] \in {"held", "captured"} => hold[x] = hold'[x]
    BY <1>0, <1>1 DEF HoldLapses, TypeOK
  <2>2. UNCHANGED <<status, grants, era, stored, late, proc>>
    BY <1>1 DEF HoldLapses, rowVars
  <2>3. \A q \in Procs : proc[q].at # "idle" => proc[q].row \in Rows
    BY <1>0 DEF TypeOK
  <2>4. AnswersStayTrue'
    BY <2>1, <2>2, <2>3 DEF IInv, AnswersStayTrue, Becomes, Keyed
  <2>5. OneAuthorize' /\ HoldWasTaken' /\ NothingBeforeRow' /\ StepFitsStatus'
    BY <2>1, <2>2, <2>3 DEF IInv, OneAuthorize, HoldWasTaken, NothingBeforeRow, StepFitsStatus
  <2>6. CapturesAreOpen' /\ OldHoldIsOver' /\ StatusTellsTaken'
    BY <2>1, <2>2 DEF IInv, CapturesAreOpen, CaptureUnderway, OldHoldIsOver, StatusTellsTaken
  <2> QED BY <2>4, <2>5, <2>6 DEF IInv
<1>2. CASE LeaseLapses(r)
  BY <1>2 DEF LeaseLapses, merchantVars, IInv, StepFitsStatus, NothingBeforeRow, OneAuthorize, HoldWasTaken,
              AnswersStayTrue, CapturesAreOpen, CaptureUnderway, OldHoldIsOver, StatusTellsTaken
<1>3. CASE GrowsOld(r)
  <2>1. /\ \A x \in Rows : era'[x] = era[x] \/ era'[x] # 2 \/ hold[x] # "held"
        /\ \A x \in Rows : era[x] = 2 => era'[x] = 2
    BY <1>0, <1>3 DEF GrowsOld, TypeOK
  <2>2. UNCHANGED <<status, grants, hold, stored, late, proc>>
    BY <1>3 DEF GrowsOld, rowVars, merchantVars
  <2>3. StepFitsStatus'
    BY <1>0, <2>1, <2>2 DEF IInv, StepFitsStatus, TypeOK
  <2>4. OldHoldIsOver'
    BY <2>1, <2>2 DEF IInv, OldHoldIsOver
  <2> QED BY <2>2, <2>3, <2>4 DEF IInv, NothingBeforeRow, OneAuthorize, HoldWasTaken,
              AnswersStayTrue, CapturesAreOpen, CaptureUnderway, StatusTellsTaken
<1> QED BY <1>1, <1>2, <1>3

\* A row is inserted, claimed, or set to 'capturing' before the capture.
LEMMA TakeUpKeeps ==
  ASSUME IInv, TypeOK', NEW p \in Procs, NEW r \in Rows,
         \/ InsertRedemption(p, r)
         \/ ClaimDue(p, r)
         \/ BeginCapture(p) /\ Mine(p) /\ r = MyRow(p)
  PROVE  IInv'
<1>0. TypeOK
  BY DEF IInv
<1> USE DEF MyRow
<1> DEFINE Rest == \A q \in Procs : q = p \/ proc'[q] = proc[q]
<1>1. CASE InsertRedemption(p, r)
  <2>1. /\ Rest /\ proc'[p] = [at |-> "authorize", row |-> r, seen |-> "authorizing", ans |-> "none"]
        /\ \A x \in Rows : x # r => status'[x] = status[x]
        /\ status[r] = "none" /\ status'[r] = "authorizing"
        /\ UNCHANGED <<grants, era, hold, stored, late>>
    BY <1>0, <1>1 DEF InsertRedemption, TypeOK, merchantVars
  <2>2. hold[r] = "none" /\ (\A q \in Procs : proc[q].row # r) /\ \A call \in Calls : <<call, r>> \notin late
    BY <2>1 DEF IInv, NothingBeforeRow
  <2>3. StepFitsStatus' /\ NothingBeforeRow'
    BY <2>1 DEF IInv, StepFitsStatus, NothingBeforeRow
  <2>4. OneAuthorize'
    BY <2>1, <2>2 DEF IInv, OneAuthorize, Calls
  <2>5. HoldWasTaken' /\ AnswersStayTrue'
    BY <2>1 DEF IInv, HoldWasTaken, AnswersStayTrue, SomeHold, Keyed
  <2>6. CapturesAreOpen'
    BY <2>1, <2>2 DEF IInv, CapturesAreOpen, CaptureUnderway, Calls, Keyed
  <2>7. OldHoldIsOver' /\ StatusTellsTaken'
    BY <2>1, <2>2 DEF IInv, OldHoldIsOver, StatusTellsTaken
  <2> QED BY <2>3, <2>4, <2>5, <2>6, <2>7 DEF IInv
<1>2. CASE ClaimDue(p, r)
  <2>1. /\ Rest /\ proc'[p] = [at |-> NextStep(p, r, status[r]), row |-> r, seen |-> status[r], ans |-> "none"]
        /\ status[r] \in Unfinished
        /\ UNCHANGED <<status, grants, era, hold, stored, late>>
    BY <1>0, <1>2, ProcEffects DEF ClaimDue, TypeOK, Others, merchantVars
  <2>2. /\ proc'[p].row = r /\ proc'[p].seen = status[r] /\ proc'[p].ans = "none"
        /\ proc'[p].at = "lookup" => status[r] \in Unfinished \ {"captured"}
        /\ proc'[p].at = "begin" => status[r] = "authorized" /\ era[r] # 2
        /\ proc'[p].at = "capture" => status[r] = "capturing"
        /\ proc'[p].at = "void" => status[r] = "voiding"
        /\ proc'[p].at = "grant" => status[r] = "captured"
        /\ proc'[p].at \notin {"idle", "authorize", "review"}
    <3>1. era[r] \in 0..2
      BY <1>0 DEF TypeOK
    <3> QED BY <2>1, <3>1 DEF NextStep, Unfinished
  <2>3. StepFitsStatus' /\ NothingBeforeRow' /\ OneAuthorize'
    BY <2>1, <2>2 DEF IInv, StepFitsStatus, NothingBeforeRow, OneAuthorize, Unfinished
  <2>4. HoldWasTaken' /\ AnswersStayTrue'
    BY <2>1, <2>2 DEF IInv, HoldWasTaken, AnswersStayTrue, Keyed
  <2>5. CapturesAreOpen'
    BY <2>1, <2>2 DEF IInv, CapturesAreOpen, CaptureUnderway, NoCapture, Unfinished
  <2>6. OldHoldIsOver' /\ StatusTellsTaken'
    BY <2>1, <2>2 DEF IInv, OldHoldIsOver, StatusTellsTaken
  <2> QED BY <2>3, <2>4, <2>5, <2>6 DEF IInv
<1>3. CASE BeginCapture(p) /\ Mine(p) /\ r = MyRow(p)
  <2>1. /\ Rest
        /\ proc'[p].at = "capture" /\ proc'[p].seen = "capturing" /\ proc'[p].row = r /\ proc'[p].ans = "none"
        /\ proc[p].at = "begin" /\ proc[p].row = r /\ proc[p].seen = status[r]
        /\ \A x \in Rows : x # r => status'[x] = status[x]
        /\ status'[r] = "capturing"
        /\ UNCHANGED <<grants, era, hold, stored, late>>
    <3>1. proc[p] \in ProcRecord
      BY <1>0 DEF TypeOK
    <3> QED BY <1>0, <1>3, <3>1 DEF BeginCapture, Mine, At, TypeOK, ProcRecord, merchantVars
  <2>2. status[r] = "authorized" /\ hold[r] # "none"
    BY <2>1 DEF IInv, StepFitsStatus, HoldWasTaken, SomeHold
  <2>3. StepFitsStatus' /\ NothingBeforeRow' /\ OneAuthorize'
    BY <2>1, <2>2 DEF IInv, StepFitsStatus, NothingBeforeRow, OneAuthorize
  <2>4. HoldWasTaken' /\ AnswersStayTrue'
    BY <2>1, <2>2 DEF IInv, HoldWasTaken, AnswersStayTrue, Keyed
  <2>5. CapturesAreOpen'
    BY <2>1, <2>2 DEF IInv, CapturesAreOpen, CaptureUnderway, NoCapture, Unfinished
  <2>6. OldHoldIsOver'
    BY <2>1, <2>2 DEF IInv, OldHoldIsOver
  <2>7. StatusTellsTaken'
    BY <2>1, <2>2 DEF IInv, StatusTellsTaken, NoCapture
  <2> QED BY <2>3, <2>4, <2>5, <2>6, <2>7 DEF IInv
<1> QED BY <1>1, <1>2, <1>3

\* The row ends with its credits, or goes to a person.
LEMMA EndKeeps ==
  ASSUME IInv, TypeOK', NEW p \in Procs, NEW r \in Rows, r = MyRow(p),
         Ask(p, "release"), proc[p].at # "idle",
         UNCHANGED <<era, hold, stored, late>>,
         \/ /\ status[r] = "captured" /\ status' = [status EXCEPT ![r] = "granted"]
            /\ grants' = [grants EXCEPT ![r] = @ + 1]
         \/ /\ status[r] \in {"captured", "capturing"} /\ hold[r] # "held"
            /\ status' = [status EXCEPT ![r] = "needs_review"] /\ UNCHANGED grants
  PROVE  IInv'
<1>0. TypeOK
  BY DEF IInv
<1> USE DEF MyRow
<1>1. /\ \A q \in Procs : q = p \/ proc'[q] = proc[q]
      /\ proc'[p].at = "release" /\ proc'[p].ans = "none"
      /\ proc'[p].row = r /\ proc'[p].seen = proc[p].seen
  BY <1>0, ProcEffects DEF Others
<1>2. /\ \A x \in Rows : x # r => status'[x] = status[x] /\ grants'[x] = grants[x]
      /\ status[r] \in {"captured", "capturing"} /\ hold[r] # "held"
      /\ status'[r] \in {"granted", "needs_review"}
      /\ status'[r] = "granted" => status[r] = "captured"
      /\ grants'[r] = IF status'[r] = "granted" THEN 1 ELSE 0
  BY <1>0 DEF IInv, StatusTellsTaken, TypeOK
<1>3. StepFitsStatus' /\ NothingBeforeRow' /\ OneAuthorize'
  BY <1>1, <1>2 DEF IInv, StepFitsStatus, NothingBeforeRow, OneAuthorize
<1>4. HoldWasTaken' /\ AnswersStayTrue'
  BY <1>1, <1>2 DEF IInv, HoldWasTaken, AnswersStayTrue, SomeHold, Keyed
<1>5. CapturesAreOpen'
  BY <1>1, <1>2 DEF IInv, CapturesAreOpen, CaptureUnderway, NoCapture
<1>6. OldHoldIsOver'
  BY <1>1, <1>2 DEF IInv, OldHoldIsOver
<1>7. StatusTellsTaken'
  BY <1>2 DEF IInv, StatusTellsTaken, NoCapture
<1> QED BY <1>3, <1>4, <1>5, <1>6, <1>7 DEF IInv

\* Letting go, looking up and asking a person are turns elsewhere.
LEMMA AskIsElsewhere ==
  ASSUME TypeOK, NEW p \in Procs, proc[p].at # "idle"
  PROVE  /\ Ask(p, "release") => Elsewhere(p)
         /\ Ask(p, "lookup") /\ proc[p].seen \in Unfinished \ {"captured"} => Elsewhere(p)
         /\ GiveUp(p) => Elsewhere(p)
<1>1. Ask(p, "release") => Elsewhere(p)
  BY ProcEffects DEF Elsewhere, MyRow
<1>2. Ask(p, "lookup") /\ proc[p].seen \in Unfinished \ {"captured"} => Elsewhere(p)
  BY ProcEffects DEF Elsewhere, MyRow
<1>3. Ask(p, "review") /\ proc[p].seen = "capturing" /\ era[MyRow(p)] = 2 => Elsewhere(p)
  BY ProcEffects DEF Elsewhere, MyRow
<1> QED BY <1>1, <1>2, <1>3 DEF GiveUp

\* moveRedemption, whether or not the row is still held.
LEMMA MoveOrStop ==
  ASSUME IInv, TypeOK', NEW p \in Procs, NEW r \in Rows, r = MyRow(p), proc[p].at # "idle",
         NEW to \in Statuses \ {"none", "capturing", "granted"},
         proc[p].seen \in Unfinished,
         to \in SomeHold => hold[r] # "none",
         to = "captured" => hold[r] = "captured",
         to \in {"refused", "failed", "abandoned", "authorized"} => proc[p].seen = "authorizing",
         to \in {"voided", "expired"} => hold[r] = to,
         to \in Unfinished \cup NoCapture \cup {"voided", "expired"}, to # "authorizing",
         Move(p, to), UNCHANGED <<era, hold, stored, late>>
  PROVE  IInv'
<1>0. TypeOK
  BY DEF IInv
<1>1. CASE Mine(p)
  <2>1. status' = [status EXCEPT ![r] = to] /\ Continue(p, r, to) /\ UNCHANGED grants
    BY <1>1 DEF Move
  <2>2. status[r] = proc[p].seen
    BY <1>1 DEF Mine
  <2> QED BY <1>1, <2>1, <2>2, MoveKeeps
<1>2. CASE ~Mine(p)
  BY <1>0, <1>2, AskIsElsewhere, ElsewhereKeeps DEF Move
<1> QED BY <1>1, <1>2

\* What a process makes of an answer, or of the lack of one.
LEMMA AnswerKeeps ==
  ASSUME IInv, TypeOK', NEW p \in Procs,
         OnAuthorize(p) \/ OnLookup(p) \/ \E call \in Keyed : OnAnswer(p, call)
  PROVE  IInv'
<1>0. TypeOK
  BY DEF IInv
<1>1. PICK r \in Rows : r = MyRow(p)
  BY <1>0 DEF OnAuthorize, OnLookup, OnAnswer, Answered, Keyed, TypeOK, MyRow
<1>2. proc[p].at # "idle" /\ UNCHANGED <<era, hold, stored, late>>
  BY DEF OnAuthorize, OnLookup, OnAnswer, Answered, Keyed, merchantVars
<1>3. ASSUME Elsewhere(p), UNCHANGED rowVars PROVE IInv'
  BY <1>2, <1>3, ElsewhereKeeps DEF rowVars
<1>4. CASE OnAuthorize(p)
  <2>1. /\ proc[p].at = "authorize" /\ proc[p].seen = "authorizing"
        /\ proc[p].ans \in {"ok", "mismatch"} => hold[r] # "none"
    BY <1>1, <1>4 DEF OnAuthorize, Answered, IInv, StepFitsStatus, AnswersStayTrue, MyRow
  <2>2. \/ \E to \in {"authorized", "voiding"} : Move(p, to) /\ proc[p].ans \in {"ok", "mismatch"}
        \/ \E to \in {"refused", "failed"} : Move(p, to)
        \/ Ask(p, "release") /\ UNCHANGED rowVars
    BY <1>4 DEF OnAuthorize
  <2>3. ASSUME NEW to \in {"authorized", "voiding", "refused", "failed"}, Move(p, to),
               to \in {"authorized", "voiding"} => proc[p].ans \in {"ok", "mismatch"}
        PROVE  IInv'
    <3>1. to \in Statuses \ {"none", "capturing", "granted"} /\ proc[p].seen \in Unfinished
      BY <2>1 DEF Statuses, Finals, Unfinished
    <3>2. /\ to \in SomeHold => hold[r] # "none"
          /\ to \in Unfinished \cup NoCapture \cup {"voided", "expired"}
      BY <2>1, <2>3 DEF SomeHold, Unfinished, NoCapture
    <3> QED BY <1>1, <1>2, <2>1, <2>3, <3>1, <3>2, MoveOrStop
  <2> QED BY <1>0, <1>2, <1>3, <2>2, <2>3, AskIsElsewhere
<1>5. ASSUME NEW call \in Keyed, OnAnswer(p, call) PROVE IInv'
  <2>1. /\ proc[p].at = call /\ proc[p].seen \in {"capturing", "voiding"}
        /\ proc[p].ans = "ok" => hold[r] = Becomes(call)
    BY <1>1, <1>5 DEF OnAnswer, Answered, IInv, StepFitsStatus, AnswersStayTrue, MyRow, Keyed
  <2>2. \/ Move(p, Becomes(call)) /\ proc[p].ans = "ok"
        \/ (Ask(p, "lookup") \/ GiveUp(p)) /\ UNCHANGED rowVars
    BY <1>5 DEF OnAnswer
  <2>3. CASE Move(p, Becomes(call)) /\ proc[p].ans = "ok"
    <3>1. PICK to \in {"captured", "voided"} : to = Becomes(call)
      BY DEF Becomes
    <3>2. to \in Statuses \ {"none", "capturing", "granted"} /\ proc[p].seen \in Unfinished
      BY <2>1 DEF Statuses, Finals, Unfinished
    <3>3. to \in Unfinished \cup NoCapture \cup {"voided", "expired"} /\ hold[r] = to /\ Move(p, to)
      BY <2>1, <2>3, <3>1 DEF Unfinished, NoCapture
    <3> QED BY <1>1, <1>2, <2>1, <3>2, <3>3, MoveOrStop
  <2>4. CASE (Ask(p, "lookup") \/ GiveUp(p)) /\ UNCHANGED rowVars
    <3>1. proc[p].seen \in Unfinished \ {"captured"}
      BY <2>1 DEF Unfinished
    <3> QED BY <1>0, <1>2, <1>3, <2>4, <3>1, AskIsElsewhere
  <2> QED BY <2>2, <2>3, <2>4
<1>6. CASE OnLookup(p)
  <2> DEFINE to == Resolved(proc[p].seen, era[MyRow(p)] >= 1, proc[p].ans)
  <2>1. /\ proc[p].at = "lookup" /\ proc[p].seen \in Unfinished \ {"captured"}
        /\ proc[p].ans \in {"captured", "voided", "expired"} => hold[r] = proc[p].ans
        /\ proc[p].ans \in {"held", "mismatch"} => hold[r] # "none"
    BY <1>1, <1>6 DEF OnLookup, Answered, IInv, StepFitsStatus, AnswersStayTrue, MyRow
  <2>2. /\ to \in {"captured", "voided", "expired", "abandoned", "authorized", "voiding", "none"}
        /\ to \in {"captured", "voided", "expired"} => proc[p].ans = to
        /\ to \in {"abandoned", "authorized"} => proc[p].seen = "authorizing"
        /\ to \in {"authorized", "voiding"} => proc[p].ans \in {"held", "mismatch"}
    BY DEF Resolved
  <2>3. CASE to # "none"
    <3>1. Move(p, to)
      BY <1>6, <2>3 DEF OnLookup
    <3>2. PICK s \in {"captured", "voided", "expired", "abandoned", "authorized", "voiding"} : s = to
      BY <2>2, <2>3
    <3> HIDE DEF to
    <3>3. s \in Statuses \ {"none", "capturing", "granted"} /\ proc[p].seen \in Unfinished /\ Move(p, s)
      BY <2>1, <3>1, <3>2 DEF Statuses, Finals, Unfinished
    <3>4. /\ s \in SomeHold => hold[r] # "none"
          /\ s = "captured" => hold[r] = "captured"
          /\ s \in {"refused", "failed", "abandoned", "authorized"} => proc[p].seen = "authorizing"
          /\ s \in {"voided", "expired"} => hold[r] = s
      BY <2>1, <2>2, <3>2 DEF SomeHold
    <3>5. s \in Unfinished \cup NoCapture \cup {"voided", "expired"} /\ s # "authorizing"
      BY DEF Unfinished, NoCapture
    <3> QED BY <1>1, <1>2, <3>3, <3>4, <3>5, MoveOrStop
  <2>4. CASE to = "none"
    <3>1. GiveUp(p) /\ UNCHANGED rowVars
      BY <1>6, <2>4 DEF OnLookup
    <3> QED BY <1>0, <1>2, <1>3, <3>1, AskIsElsewhere
  <2> QED BY <2>3, <2>4
<1> QED BY <1>4, <1>5, <1>6

\* The merchant's answer to a process that asks.
LEMMA SendKeeps ==
  ASSUME IInv, TypeOK', NEW p \in Procs,
         SendAuthorize(p) \/ SendLookup(p) \/ \E call \in Keyed : Send(p, call)
  PROVE  IInv'
<1>0. TypeOK
  BY DEF IInv
<1>1. PICK r \in Rows : r = MyRow(p)
  BY <1>0 DEF SendAuthorize, SendLookup, Send, At, Keyed, TypeOK, MyRow
<1>2. status[r] # "none"
  BY <1>1 DEF IInv, NothingBeforeRow
<1>3. CASE SendAuthorize(p)
  <2>1. hold[r] = "none" /\ <<"authorize", r>> \notin late /\ At(p, "authorize")
    BY <1>1, <1>3 DEF SendAuthorize, At, IInv, OneAuthorize, MyRow
  <2>2. UNCHANGED <<status, grants, era, stored>>
    BY <1>3 DEF SendAuthorize, rowVars
  <2>3. CASE \E v \in Worths : Authorizes(r, v)
    <3>1. hold' = [hold EXCEPT ![r] = "held"]
      BY <2>3 DEF Authorizes
    <3>2. hold' # hold
      BY <1>0, <2>1, <3>1 DEF TypeOK
    <3>3. late' = late /\ \E a \in {"ok", "mismatch", "network"} : Hears(p, a)
      BY <1>1, <1>3, <3>2 DEF SendAuthorize, Declines
    <3> QED BY <1>1, <2>1, <2>2, <3>1, <3>3, AuthorizeKeeps
  <2>4. CASE Declines
    <3>1. /\ late' \in {late, late \cup {<<"authorize", r>>}}
          /\ \E a \in {"refused", "failed", "network"} : Hears(p, a)
      <4>1. CASE \E v \in Worths : Authorizes(r, v)
        BY <1>0, <2>1, <2>4, <4>1 DEF Authorizes, Declines, TypeOK
      <4>2. CASE ~\E v \in Worths : Authorizes(r, v)
        BY <1>1, <1>3, <4>2 DEF SendAuthorize
      <4> QED BY <4>1, <4>2
    <3>2. /\ \A q \in Procs : q = p \/ proc'[q] = proc[q]
          /\ proc'[p].at = "authorize" /\ proc'[p].row = r /\ proc'[p].seen = proc[p].seen
          /\ proc'[p].ans \in {"refused", "failed", "network"}
      BY <1>0, <1>1, <2>1, <3>1, ProcEffects DEF Others, At, MyRow
    <3>3. proc[p].at = "authorize" /\ proc[p].row = r /\ proc[p].ans = "none" /\ UNCHANGED hold
      BY <1>1, <2>1, <2>4 DEF At, MyRow, Declines
    <3> USE DEF MyRow
    <3>4. StepFitsStatus' /\ NothingBeforeRow'
      BY <1>2, <2>2, <3>1, <3>2, <3>3 DEF IInv, StepFitsStatus, NothingBeforeRow
    <3>5. OneAuthorize'
      BY <2>1, <2>2, <3>1, <3>2, <3>3 DEF IInv, OneAuthorize
    <3>6. HoldWasTaken' /\ AnswersStayTrue'
      BY <2>2, <3>1, <3>2, <3>3 DEF IInv, HoldWasTaken, AnswersStayTrue, Keyed
    <3>7. CapturesAreOpen' /\ OldHoldIsOver' /\ StatusTellsTaken'
      BY <2>2, <3>1, <3>2, <3>3 DEF IInv, CapturesAreOpen, CaptureUnderway, OldHoldIsOver, StatusTellsTaken
    <3> QED BY <3>4, <3>5, <3>6, <3>7 DEF IInv
  <2> QED BY <1>1, <1>3, <2>3, <2>4 DEF SendAuthorize
<1>4. CASE SendLookup(p)
  <2>1. proc[p].at = "lookup" /\ proc[p].row = r /\ UNCHANGED <<status, grants, era, hold, stored, late>>
    BY <1>1, <1>4 DEF SendLookup, At, MyRow, rowVars, merchantVars
  <2>2. PICK a \in Answers : /\ Hears(p, a)
                             /\ a \in {"captured", "voided", "expired"} => hold[r] = a
                             /\ a \in {"held", "mismatch"} => hold[r] # "none"
    <3>1. hold[r] \in Holds
      BY <1>0 DEF TypeOK
    <3> QED BY <1>1, <1>4, <3>1 DEF SendLookup, Answers, Holds
  <2>3. /\ \A q \in Procs : q = p \/ proc'[q] = proc[q]
        /\ proc'[p].at = "lookup" /\ proc'[p].row = r /\ proc'[p].seen = proc[p].seen /\ proc'[p].ans = a
    BY <1>0, <2>1, <2>2, ProcEffects DEF Others
  <2> USE DEF MyRow
  <2>4. StepFitsStatus' /\ NothingBeforeRow' /\ OneAuthorize'
    BY <2>1, <2>3 DEF IInv, StepFitsStatus, NothingBeforeRow, OneAuthorize
  <2>5. HoldWasTaken' /\ AnswersStayTrue'
    BY <2>1, <2>2, <2>3 DEF IInv, HoldWasTaken, AnswersStayTrue, Keyed
  <2>6. CapturesAreOpen' /\ OldHoldIsOver' /\ StatusTellsTaken'
    BY <2>1, <2>3 DEF IInv, CapturesAreOpen, CaptureUnderway, OldHoldIsOver, StatusTellsTaken
  <2> QED BY <2>4, <2>5, <2>6 DEF IInv
<1>5. ASSUME NEW call \in Keyed, Send(p, call) PROVE IInv'
  <2>1. /\ proc[p].at = call /\ proc[p].row = r /\ At(p, call)
        /\ UNCHANGED <<status, grants, era>>
    BY <1>1, <1>5 DEF Send, At, MyRow, rowVars
  <2>2. hold[r] # "none" /\ (call = "capture" => CaptureUnderway(r))
    BY <2>1 DEF IInv, StepFitsStatus, HoldWasTaken, SomeHold, CaptureUnderway, Keyed, MyRow
  <2>3. late' \subseteq late \cup {<<call, r>>}
    BY <1>1, <1>5 DEF Send
  <2>4. CASE stored[<<call, r>>] # "none" /\ Hears(p, stored[<<call, r>>]) /\ UNCHANGED <<hold, stored>>
    <3>1. stored[<<call, r>>] \in {"ok", "error"}
      BY <1>0, <2>4 DEF TypeOK
    <3>2. stored[<<call, r>>] = "ok" => hold'[r] = Becomes(call)
      BY <2>4 DEF IInv, AnswersStayTrue
    <3> QED BY <1>1, <1>2, <2>1, <2>2, <2>3, <2>4, <3>1, <3>2, CallKeeps
  <2>5. CASE \E answer \in {"ok", "error"} :
               /\ Keep(call, r, answer)
               /\ Effect(call, r, answer) \/ Fails(call, r, answer)
               /\ \E a \in {answer, "network"} : Hears(p, a)
    <3>1. PICK answer \in {"ok", "error"} :
               /\ Keep(call, r, answer)
               /\ Effect(call, r, answer) \/ Fails(call, r, answer)
               /\ \E a \in {answer, "network"} : Hears(p, a)
      BY <2>5
    <3>2. /\ hold' = hold \/ (hold[r] = "held" /\ hold' = [hold EXCEPT ![r] = Becomes(call)])
          /\ answer = "ok" => hold'[r] = Becomes(call)
      BY <1>0, <3>1 DEF Effect, Fails, TypeOK
    <3>3. stored' = [stored EXCEPT ![<<call, r>>] = answer]
      BY <3>1 DEF Keep
    <3>4. \E a \in {"ok", "error", "network"} : Hears(p, a) /\ (a = "ok" => hold'[r] = Becomes(call))
      BY <3>1, <3>2
    <3> QED BY <1>1, <1>2, <2>1, <2>2, <2>3, <3>2, <3>3, <3>4, CallKeeps
  <2>6. CASE Hears(p, "network") /\ UNCHANGED <<hold, stored>>
    <3>1. "error" \in {"ok", "error"}
      OBVIOUS
    <3>2. \E a \in {"ok", "error", "network"} : Hears(p, a) /\ (a = "ok" => hold'[r] = Becomes(call))
      BY <2>6
    <3> QED BY <1>1, <1>2, <2>1, <2>2, <2>3, <2>6, <3>1, <3>2, CallKeeps
  <2> QED BY <1>1, <1>5, <2>4, <2>5, <2>6 DEF Send
<1> QED BY <1>3, <1>4, <1>5

LEMMA StepKeeps ==
  ASSUME IInv, [Next]_vars PROVE IInv'
<1>0. TypeOK /\ TypeOK'
  BY TypeStep DEF IInv
<1>1. ASSUME NEW p \in Procs, NEW r \in Rows, InsertRedemption(p, r) \/ ClaimDue(p, r) PROVE IInv'
  BY <1>0, <1>1, TakeUpKeeps
<1>2. ASSUME NEW p \in Procs, BeginCapture(p) PROVE IInv'
  <2>1. MyRow(p) \in Rows /\ proc[p].at # "idle" /\ UNCHANGED <<grants, era, hold, stored, late>>
    BY <1>0, <1>2 DEF BeginCapture, At, TypeOK, MyRow, merchantVars
  <2>2. CASE ~Mine(p)
    BY <1>0, <1>2, <2>1, <2>2, AskIsElsewhere, ElsewhereKeeps DEF BeginCapture
  <2>3. CASE Mine(p)
    <3>1. PICK r \in Rows : r = MyRow(p)
      BY <2>1
    <3> QED BY <1>0, <1>2, <2>3, <3>1, TakeUpKeeps
  <2> QED BY <2>2, <2>3
<1>3. ASSUME NEW p \in Procs, GrantRedemption(p) \/ GrantFails(p) \/ Review(p) PROVE IInv'
  <2>1. /\ proc[p].at \in {"grant", "review"} /\ Ask(p, "release") /\ UNCHANGED <<era, hold, stored, late>>
    BY <1>3 DEF GrantRedemption, GrantFails, Review, Escalate, At, merchantVars
  <2>2. PICK r \in Rows : r = MyRow(p)
    BY <1>0, <2>1 DEF TypeOK, MyRow
  <2>3. CASE UNCHANGED <<status, grants>>
    BY <1>0, <2>1, <2>3, AskIsElsewhere, ElsewhereKeeps
  <2>4. CASE GrantRedemption(p) /\ status[r] = "captured"
    <3>1. status' = [status EXCEPT ![r] = "granted"] /\ grants' = [grants EXCEPT ![r] = @ + 1]
      BY <2>2, <2>4 DEF GrantRedemption
    <3> QED BY <1>0, <2>1, <2>2, <2>4, <3>1, EndKeeps
  <2>5. CASE (GrantFails(p) \/ Review(p)) /\ Mine(p) /\ Escalate(p)
    <3>1. status' = [status EXCEPT ![r] = "needs_review"] /\ UNCHANGED grants
      BY <2>2, <2>5 DEF Escalate
    <3>2. status[r] = proc[p].seen /\ proc[p].row = r
      BY <2>2, <2>5 DEF Mine, MyRow
    <3>3. status[r] \in {"captured", "capturing"} /\ hold[r] # "held"
      <4>1. CASE proc[p].at = "review"
        BY <3>2, <4>1 DEF IInv, StepFitsStatus, OldHoldIsOver
      <4>2. CASE proc[p].at = "grant"
        BY <3>2, <4>2 DEF IInv, StepFitsStatus, StatusTellsTaken
      <4> QED BY <2>1, <4>1, <4>2
    <3> QED BY <1>0, <2>1, <2>2, <3>1, <3>3, EndKeeps
  <2> QED
    BY <1>3, <2>2, <2>3, <2>4, <2>5 DEF GrantRedemption, GrantFails, Review, Escalate, rowVars
<1>4. ASSUME NEW p \in Procs, Release(p) \/ PassFails(p) \/ Crash(p) PROVE IInv'
  <2>1. proc[p].at # "idle" /\ UNCHANGED <<status, grants, era, hold, stored, late>>
    BY <1>4 DEF Release, PassFails, Crash, At, Answered, Calls, Keyed, rowVars, merchantVars
  <2>2. CASE proc' = [proc EXCEPT ![p] = Idle]
    <3>1. Elsewhere(p)
      BY <1>0, <2>2 DEF Elsewhere, Others, Idle, TypeOK
    <3> QED BY <1>0, <2>1, <3>1, ElsewhereKeeps
  <2>3. CASE Ask(p, "release")
    BY <1>0, <2>1, <2>3, AskIsElsewhere, ElsewhereKeeps
  <2> QED BY <1>4, <2>2, <2>3 DEF Release, PassFails, Crash
<1>5. ASSUME NEW r \in Rows, LateAuthorize(r) PROVE IInv'
  <2>1. /\ <<"authorize", r>> \in late /\ hold[r] = "none" /\ late' \subseteq late
        /\ <<"authorize", r>> \notin late' /\ UNCHANGED <<status, grants, era, stored, proc>>
    BY <1>5 DEF LateAuthorize, IInv, OneAuthorize, rowVars
  <2>2. CASE hold' = [hold EXCEPT ![r] = "held"]
    <3>1. UNCHANGED <<status, grants, era, stored>> /\ proc' = proc /\ <<"authorize", r>> \in late
      BY <2>1
    <3> QED BY <1>0, <2>1, <2>2, <3>1, AuthorizeKeeps
  <2>3. CASE UNCHANGED hold
    <3>1. StepFitsStatus' /\ NothingBeforeRow' /\ OneAuthorize'
      BY <2>1, <2>3 DEF IInv, StepFitsStatus, NothingBeforeRow, OneAuthorize, MyRow
    <3>2. HoldWasTaken' /\ AnswersStayTrue'
      BY <2>1, <2>3 DEF IInv, HoldWasTaken, AnswersStayTrue, MyRow
    <3>3. CapturesAreOpen' /\ OldHoldIsOver' /\ StatusTellsTaken'
      BY <2>1, <2>3 DEF IInv, CapturesAreOpen, CaptureUnderway, OldHoldIsOver, StatusTellsTaken, MyRow
    <3> QED BY <1>0, <3>1, <3>2, <3>3 DEF IInv
  <2> QED BY <1>5, <2>2, <2>3 DEF LateAuthorize, Authorizes, Declines
<1>6. ASSUME NEW r \in Rows, NEW call \in Keyed, LateCall(call, r) PROVE IInv'
  <2>1. /\ <<call, r>> \in late /\ late' \subseteq late \cup {<<call, r>>}
        /\ UNCHANGED <<status, grants, era, proc>>
    BY <1>6 DEF LateCall, rowVars
  <2>2. hold[r] # "none" /\ status[r] # "none" /\ (call = "capture" => CaptureUnderway(r))
    BY <2>1 DEF IInv, HoldWasTaken, NothingBeforeRow, CaptureUnderway, Calls
  <2>3. CASE UNCHANGED <<hold, stored>>
    <3>1. "error" \in {"ok", "error"}
      OBVIOUS
    <3> QED BY <1>0, <2>1, <2>2, <2>3, <3>1, CallKeeps
  <2>4. ASSUME NEW answer \in {"ok", "error"}, Keep(call, r, answer),
               Effect(call, r, answer) \/ Fails(call, r, answer)
        PROVE  IInv'
    <3>1. /\ hold' = hold \/ (hold[r] = "held" /\ hold' = [hold EXCEPT ![r] = Becomes(call)])
          /\ answer = "ok" => hold'[r] = Becomes(call)
      BY <1>0, <2>4 DEF Effect, Fails, TypeOK
    <3>2. stored' = [stored EXCEPT ![<<call, r>>] = answer]
      BY <2>4 DEF Keep
    <3> QED BY <1>0, <2>1, <2>2, <3>1, <3>2, CallKeeps
  <2> QED BY <1>6, <2>3, <2>4 DEF LateCall
<1>7. ASSUME NEW r \in Rows, HoldLapses(r) \/ LeaseLapses(r) \/ GrowsOld(r) PROVE IInv'
  BY <1>0, <1>7, TimeKeeps
<1>8. CASE UNCHANGED vars
  BY <1>8 DEF vars, rowVars, merchantVars, IInv, TypeOK, StepFitsStatus, NothingBeforeRow, OneAuthorize,
     HoldWasTaken, AnswersStayTrue, CapturesAreOpen, CaptureUnderway, OldHoldIsOver, StatusTellsTaken, MyRow
<1> QED
  BY <1>0, <1>1, <1>2, <1>3, <1>4, <1>5, <1>6, <1>7, <1>8, AnswerKeeps, SendKeeps
  DEF Next, Pass, Step, Merchant, Procs

\* What the refinement rests on holds in every reachable state.
THEOREM AlwaysIInv == Spec => []IInv
<1>1. Init => IInv
  <2> SUFFICES ASSUME Init PROVE IInv
    OBVIOUS
  <2>1. TypeOK
    BY ConstantsAssumption DEF Init, TypeOK, Idle, ProcRecord, Statuses, Answers, Holds
  <2> QED BY <2>1, ConstantsAssumption DEF Init, Idle, IInv, StepFitsStatus, NothingBeforeRow, OneAuthorize,
     HoldWasTaken, SomeHold, AnswersStayTrue, CapturesAreOpen, CaptureUnderway, OldHoldIsOver,
     StatusTellsTaken, Calls, Keyed, MyRow
<1>2. IInv /\ [Next]_vars => IInv'
  BY StepKeeps
<1> QED BY <1>1, <1>2, PTL DEF Spec

\* What a step can do to the attempts: nothing, or one of these to one row.
Opens(r) == status[r] = "none" /\ status' = [status EXCEPT ![r] = "authorizing"] /\ UNCHANGED <<hold, grants>>
Closes(r) ==
  /\ status[r] \in Unfinished /\ hold[r] # "captured"
  /\ \E to \in Finals \ {"granted"} : status' = [status EXCEPT ![r] = to]
  /\ UNCHANGED <<hold, grants>>
Advances(r) ==
  /\ status[r] \in Unfinished
  /\ \E to \in Unfinished : status' = [status EXCEPT ![r] = to]
  /\ UNCHANGED <<hold, grants>>
Credits(r) ==
  /\ status[r] = "captured"
  /\ status' = [status EXCEPT ![r] = "granted"]
  /\ grants' = [grants EXCEPT ![r] = @ + 1]
  /\ UNCHANGED hold
AsksPerson(r) ==
  status[r] \in Unfinished /\ status' = [status EXCEPT ![r] = "needs_review"] /\ UNCHANGED <<hold, grants>>
Takes(r) ==
  hold[r] = "held" /\ CaptureUnderway(r) /\ hold' = [hold EXCEPT ![r] = "captured"] /\ UNCHANGED <<status, grants>>
Nothing == UNCHANGED <<status, grants, Taken>>

RowStep == Nothing \/ \E r \in Rows :
  Opens(r) \/ Closes(r) \/ Advances(r) \/ Credits(r) \/ AsksPerson(r) \/ Takes(r)

\* A row that is moved, when what was heard fits, advances or closes.
LEMMA MoveIsRowStep ==
  ASSUME IInv, NEW p \in Procs, NEW r \in Rows, r = MyRow(p), NEW to \in Unfinished \cup Finals,
         to # "granted", proc[p].seen \in Unfinished,
         to \in {"refused", "failed", "abandoned"} => proc[p].seen = "authorizing",
         to \in {"voided", "expired"} => hold[r] = to,
         Move(p, to), UNCHANGED hold
  PROVE  RowStep
<1>1. CASE Mine(p)
  <2>1. status' = [status EXCEPT ![r] = to] /\ UNCHANGED <<hold, grants>> /\ status[r] \in Unfinished
    BY <1>1 DEF Move, Mine
  <2>2. CASE to \in Unfinished
    BY <2>1, <2>2 DEF RowStep, Advances
  <2>3. CASE to \in Finals
    <3>1. status[r] = proc[p].seen
      BY <1>1 DEF Mine
    <3>2. hold[r] # "captured"
      BY <2>3, <3>1 DEF IInv, StatusTellsTaken, NoCapture, Finals
    <3> QED BY <2>1, <2>3, <3>2 DEF RowStep, Closes
  <2> QED BY <2>2, <2>3
<1>2. CASE ~Mine(p)
  BY <1>2 DEF Move, RowStep, Nothing, Taken
<1> QED BY <1>1, <1>2

\* A call that is carried out takes the voucher or changes nothing here.
LEMMA CallIsRowStep ==
  ASSUME IInv, NEW call \in Keyed, NEW r \in Rows, call = "capture" => CaptureUnderway(r),
         hold' = hold \/ (hold[r] = "held" /\ hold' = [hold EXCEPT ![r] = Becomes(call)]),
         UNCHANGED <<status, grants>>
  PROVE  RowStep
<1>1. CASE hold' = hold
  BY <1>1 DEF RowStep, Nothing, Taken
<1>2. CASE hold[r] = "held" /\ hold' = [hold EXCEPT ![r] = Becomes(call)]
  <2>1. CASE call = "capture"
    BY <1>2, <2>1 DEF RowStep, Takes, Becomes
  <2>2. CASE call = "void"
    <3>1. \A x \in Rows : hold'[x] = "captured" <=> hold[x] = "captured"
      BY <1>2, <2>2 DEF IInv, TypeOK, Becomes
    <3> QED BY <3>1 DEF RowStep, Nothing, Taken
  <2> QED BY <2>1, <2>2 DEF Keyed
<1> QED BY <1>1, <1>2

LEMMA AnswerIsRowStep ==
  ASSUME IInv, NEW p \in Procs,
         OnAuthorize(p) \/ OnLookup(p) \/ \E call \in Keyed : OnAnswer(p, call)
  PROVE  RowStep
<1>1. PICK r \in Rows : r = MyRow(p)
  BY DEF IInv, OnAuthorize, OnLookup, OnAnswer, Answered, Keyed, TypeOK, MyRow
<1>2. UNCHANGED hold
  BY DEF OnAuthorize, OnLookup, OnAnswer, merchantVars
<1>3. ASSUME UNCHANGED rowVars PROVE RowStep
  BY <1>2, <1>3 DEF rowVars, RowStep, Nothing, Taken
<1>4. CASE OnAuthorize(p)
  <2>1. proc[p].seen = "authorizing"
    BY <1>4 DEF OnAuthorize, Answered, IInv, StepFitsStatus
  <2>2. UNCHANGED rowVars \/ \E to \in {"authorized", "voiding", "refused", "failed"} : Move(p, to)
    BY <1>4 DEF OnAuthorize
  <2>3. ASSUME NEW to \in {"authorized", "voiding", "refused", "failed"}, Move(p, to) PROVE RowStep
    <3>1. to \in Unfinished \cup Finals /\ proc[p].seen \in Unfinished
      BY <2>1 DEF Unfinished, Finals
    <3> QED BY <1>1, <1>2, <2>1, <2>3, <3>1, MoveIsRowStep
  <2> QED BY <1>3, <2>2, <2>3
<1>5. ASSUME NEW call \in Keyed, OnAnswer(p, call) PROVE RowStep
  <2>1. /\ proc[p].seen \in {"capturing", "voiding"}
        /\ proc[p].ans = "ok" => hold[r] = Becomes(call)
    BY <1>1, <1>5 DEF OnAnswer, Answered, IInv, StepFitsStatus, AnswersStayTrue, MyRow, Keyed
  <2>2. UNCHANGED rowVars \/ (Move(p, Becomes(call)) /\ proc[p].ans = "ok")
    BY <1>5 DEF OnAnswer
  <2>3. CASE Move(p, Becomes(call)) /\ proc[p].ans = "ok"
    <3>1. PICK to \in {"captured", "voided"} : to = Becomes(call)
      BY DEF Becomes
    <3>2. to \in Unfinished \cup Finals /\ proc[p].seen \in Unfinished /\ hold[r] = to /\ Move(p, to)
      BY <2>1, <2>3, <3>1 DEF Unfinished, Finals
    <3> QED BY <1>1, <1>2, <3>2, MoveIsRowStep
  <2> QED BY <1>3, <2>2, <2>3
<1>6. CASE OnLookup(p)
  <2> DEFINE to == Resolved(proc[p].seen, era[MyRow(p)] >= 1, proc[p].ans)
  <2>1. /\ proc[p].seen \in Unfinished
        /\ proc[p].ans \in {"captured", "voided", "expired"} => hold[r] = proc[p].ans
    BY <1>1, <1>6 DEF OnLookup, Answered, IInv, StepFitsStatus, AnswersStayTrue, MyRow
  <2>2. /\ to \in {"captured", "voided", "expired", "abandoned", "authorized", "voiding", "none"}
        /\ to \in {"captured", "voided", "expired"} => proc[p].ans = to
        /\ to = "abandoned" => proc[p].seen = "authorizing"
    BY DEF Resolved
  <2>3. CASE to # "none"
    <3>1. Move(p, to)
      BY <1>6, <2>3 DEF OnLookup
    <3>2. PICK s \in {"captured", "voided", "expired", "abandoned", "authorized", "voiding"} : s = to
      BY <2>2, <2>3
    <3> HIDE DEF to
    <3>3. s \in Unfinished \cup Finals /\ Move(p, s) /\ (s \in {"voided", "expired"} => hold[r] = s)
      BY <2>1, <2>2, <3>1, <3>2 DEF Finals, Unfinished
    <3>4. s \in {"refused", "failed", "abandoned"} => proc[p].seen = "authorizing"
      BY <2>2, <3>2
    <3> QED BY <1>1, <1>2, <2>1, <3>2, <3>3, <3>4, MoveIsRowStep
  <2>4. CASE to = "none"
    BY <1>3, <1>6, <2>4 DEF OnLookup
  <2> QED BY <2>3, <2>4
<1> QED BY <1>4, <1>5, <1>6

LEMMA SendIsRowStep ==
  ASSUME IInv, NEW p \in Procs,
         SendAuthorize(p) \/ SendLookup(p) \/ \E call \in Keyed : Send(p, call)
  PROVE  RowStep
<1>1. PICK r \in Rows : r = MyRow(p)
  BY DEF IInv, SendAuthorize, SendLookup, Send, At, Keyed, TypeOK, MyRow
<1>2. CASE SendAuthorize(p)
  <2>1. hold[r] = "none"
    BY <1>1, <1>2 DEF SendAuthorize, At, IInv, OneAuthorize, MyRow
  <2>2. hold' \in {hold, [hold EXCEPT ![r] = "held"]} /\ UNCHANGED <<status, grants>>
    BY <1>1, <1>2 DEF SendAuthorize, Authorizes, Declines, rowVars
  <2>3. \A x \in Rows : hold'[x] = "captured" <=> hold[x] = "captured"
    BY <2>1, <2>2 DEF IInv, TypeOK
  <2> QED BY <2>2, <2>3 DEF RowStep, Nothing, Taken
<1>3. CASE SendLookup(p)
  BY <1>3 DEF SendLookup, rowVars, merchantVars, RowStep, Nothing, Taken
<1>4. ASSUME NEW call \in Keyed, Send(p, call) PROVE RowStep
  <2>1. call = "capture" => CaptureUnderway(r)
    BY <1>1, <1>4 DEF Send, At, CaptureUnderway
  <2>2. UNCHANGED <<status, grants>>
    BY <1>4 DEF Send, rowVars
  <2>3. hold' = hold \/ (hold[r] = "held" /\ hold' = [hold EXCEPT ![r] = Becomes(call)])
    <3>1. ASSUME NEW a \in {"ok", "error"}, Effect(call, r, a) \/ Fails(call, r, a)
          PROVE  hold' = hold \/ (hold[r] = "held" /\ hold' = [hold EXCEPT ![r] = Becomes(call)])
      BY <3>1 DEF Effect, Fails
    <3> QED BY <1>1, <1>4, <3>1 DEF Send
  <2> QED BY <2>1, <2>2, <2>3, CallIsRowStep
<1> QED BY <1>2, <1>3, <1>4

\* Every step of the detailed specification is one of the row steps.
LEMMA StepIsRowStep ==
  ASSUME IInv, [Next]_vars PROVE RowStep
<1>0. TypeOK
  BY DEF IInv
<1>1. ASSUME NEW p \in Procs, NEW r \in Rows, InsertRedemption(p, r) \/ ClaimDue(p, r) PROVE RowStep
  BY <1>1 DEF InsertRedemption, ClaimDue, merchantVars, RowStep, Opens, Nothing, Taken
<1>2. ASSUME NEW p \in Procs, BeginCapture(p) PROVE RowStep
  <2>1. PICK r \in Rows : r = MyRow(p)
    BY <1>0, <1>2 DEF BeginCapture, At, TypeOK, MyRow
  <2>2. Mine(p) => status[r] = "authorized"
    BY <1>2, <2>1 DEF Mine, BeginCapture, At, IInv, StepFitsStatus
  <2> QED BY <1>2, <2>1, <2>2 DEF BeginCapture, merchantVars, RowStep, Advances, Nothing, Taken, Unfinished
<1>3. ASSUME NEW p \in Procs, GrantRedemption(p) \/ GrantFails(p) \/ Review(p) PROVE RowStep
  <2>1. PICK r \in Rows : r = MyRow(p)
    BY <1>0, <1>3 DEF GrantRedemption, GrantFails, Review, At, TypeOK, MyRow
  <2>2. Mine(p) => status[r] \in Unfinished
    BY <1>3, <2>1 DEF Mine, GrantRedemption, GrantFails, Review, At, IInv, StepFitsStatus, Unfinished
  <2>3. CASE GrantRedemption(p)
    BY <2>1, <2>3 DEF GrantRedemption, rowVars, merchantVars, RowStep, Credits, Nothing, Taken
  <2>4. CASE Escalate(p)
    BY <2>1, <2>2, <2>4 DEF Escalate, merchantVars, RowStep, AsksPerson, Nothing, Taken
  <2>5. CASE UNCHANGED <<rowVars, era, merchantVars>>
    BY <2>5 DEF rowVars, merchantVars, RowStep, Nothing, Taken
  <2> QED BY <1>3, <2>3, <2>4, <2>5 DEF GrantFails, Review
<1>4. ASSUME NEW p \in Procs, Release(p) \/ PassFails(p) \/ Crash(p) PROVE RowStep
  BY <1>4 DEF Release, PassFails, Crash, rowVars, merchantVars, RowStep, Nothing, Taken
<1>5. ASSUME NEW r \in Rows, LateAuthorize(r) PROVE RowStep
  <2>1. hold[r] = "none"
    BY <1>5 DEF LateAuthorize, IInv, OneAuthorize
  <2>2. hold' \in {hold, [hold EXCEPT ![r] = "held"]} /\ UNCHANGED <<status, grants>>
    BY <1>5 DEF LateAuthorize, Authorizes, Declines, rowVars
  <2>3. \A x \in Rows : hold'[x] = "captured" <=> hold[x] = "captured"
    BY <1>0, <2>1, <2>2 DEF TypeOK
  <2> QED BY <2>2, <2>3 DEF RowStep, Nothing, Taken
<1>6. ASSUME NEW r \in Rows, NEW call \in Keyed, LateCall(call, r) PROVE RowStep
  <2>1. (call = "capture" => CaptureUnderway(r)) /\ UNCHANGED <<status, grants>>
    BY <1>6 DEF LateCall, CaptureUnderway, rowVars
  <2>2. hold' = hold \/ (hold[r] = "held" /\ hold' = [hold EXCEPT ![r] = Becomes(call)])
    BY <1>6 DEF LateCall, Effect, Fails
  <2> QED BY <2>1, <2>2, CallIsRowStep
<1>7. ASSUME NEW r \in Rows, HoldLapses(r) \/ LeaseLapses(r) \/ GrowsOld(r) PROVE RowStep
  <2>1. \A x \in Rows : hold'[x] = "captured" <=> hold[x] = "captured"
    BY <1>0, <1>7 DEF HoldLapses, LeaseLapses, GrowsOld, TypeOK, merchantVars
  <2> QED BY <1>7, <2>1 DEF HoldLapses, LeaseLapses, GrowsOld, rowVars, RowStep, Nothing, Taken
<1>8. CASE UNCHANGED vars
  BY <1>8 DEF vars, rowVars, merchantVars, RowStep, Nothing, Taken
<1> QED
  BY <1>1, <1>2, <1>3, <1>4, <1>5, <1>6, <1>7, <1>8, AnswerIsRowStep, SendIsRowStep
  DEF Next, Pass, Step, Merchant, Procs

\* A row that is set to another status is said to have its outcome.
LEMMA SaidOfRow ==
  ASSUME TypeOK, NEW r \in Rows, NEW to \in Statuses, status' = [status EXCEPT ![r] = to]
  PROVE  Attempt' = [Attempt EXCEPT ![r] = Outcome(to)]
BY DEF TypeOK, Attempt

\* A captured voucher is credited once or brought to a person, and an attempt
\* that ended without credits took nothing and never will: the moves of the
\* row and the answers of the merchant implement VoucherPromise.
THEOREM PromiseKept == Spec => KeepsVoucherPromise
<1>1. Init => Promise!Init
  <2> SUFFICES ASSUME Init PROVE Promise!Init
    OBVIOUS
  <2>1. Outcome("none") = "none"
    BY DEF Outcome, Unfinished
  <2>2. Attempt = [r \in Rows |-> "none"]
    BY <2>1 DEF Init, Attempt
  <2>3. Taken = {}
    BY DEF Init, Taken
  <2> QED BY <2>2, <2>3 DEF Init, Promise!Init
<1>2. IInv /\ [Next]_vars => [Promise!Next]_(Promise!promiseVars)
  <2> SUFFICES ASSUME IInv, [Next]_vars PROVE [Promise!Next]_(Promise!promiseVars)
    OBVIOUS
  <2> USE DEF Promise!Next, Promise!promiseVars
  <2>0. TypeOK
    BY DEF IInv
  <2>1. CASE Nothing
    BY <2>1 DEF Nothing, Attempt
  <2>2. ASSUME NEW r \in Rows, Opens(r) PROVE Promise!Open(r)
    <3>1. Attempt' = [Attempt EXCEPT ![r] = "open"] /\ Attempt[r] = "none"
      BY <2>0, <2>2, SaidOfRow DEF Opens, Statuses, Unfinished, Outcome, Attempt
    <3> QED BY <2>2, <3>1 DEF Opens, Promise!Open, Promise!Now, Taken
  <2>3. ASSUME NEW r \in Rows, Closes(r) PROVE Promise!Close(r)
    <3>1. Attempt' = [Attempt EXCEPT ![r] = "closed"] /\ Attempt[r] = "open"
      BY <2>0, <2>3, SaidOfRow DEF Closes, Statuses, Unfinished, Finals, Outcome, Attempt
    <3> QED BY <2>3, <3>1 DEF Closes, Promise!Close, Promise!Now, Taken
  <2>4. ASSUME NEW r \in Rows, Advances(r) PROVE UNCHANGED <<Attempt, Taken, grants>>
    <3>1. Attempt' = [Attempt EXCEPT ![r] = "open"] /\ Attempt[r] = "open"
      BY <2>0, <2>4, SaidOfRow DEF Advances, Statuses, Unfinished, Outcome, Attempt
    <3>2. Attempt' = Attempt
      BY <3>1 DEF Attempt
    <3> QED BY <2>4, <3>2 DEF Advances, Taken
  <2>5. ASSUME NEW r \in Rows, Credits(r) PROVE Promise!Credit(r)
    <3>1. Attempt' = [Attempt EXCEPT ![r] = "credited"] /\ Attempt[r] = "open"
      BY <2>0, <2>5, SaidOfRow DEF Credits, Statuses, Finals, Unfinished, Outcome, Attempt
    <3>2. r \in Taken /\ grants[r] = 0
      BY <2>5 DEF Credits, IInv, StatusTellsTaken, Taken
    <3> QED BY <2>0, <2>5, <3>1, <3>2 DEF Credits, Promise!Credit, Promise!Now, Taken, TypeOK
  <2>6. ASSUME NEW r \in Rows, AsksPerson(r) PROVE Promise!Escalate(r)
    <3>1. Attempt' = [Attempt EXCEPT ![r] = "review"] /\ Attempt[r] = "open"
      BY <2>0, <2>6, SaidOfRow DEF AsksPerson, Statuses, Unfinished, Outcome, Attempt
    <3> QED BY <2>6, <3>1 DEF AsksPerson, Promise!Escalate, Promise!Now, Taken
  <2>7. ASSUME NEW r \in Rows, Takes(r) PROVE Promise!Take(r)
    <3>1. Attempt[r] = "open" /\ Attempt' = Attempt
      BY <2>7 DEF Takes, IInv, CapturesAreOpen, Outcome, Attempt, Unfinished
    <3>2. Taken' = Taken \cup {r}
      BY <2>0, <2>7 DEF Takes, Taken, TypeOK
    <3> QED BY <2>7, <3>1, <3>2 DEF Takes, Promise!Take
  <2> QED BY <2>1, <2>2, <2>3, <2>4, <2>5, <2>6, <2>7, StepIsRowStep DEF RowStep
<1> QED BY <1>1, <1>2, AlwaysIInv, PTL DEF Spec, KeepsVoucherPromise, Promise!Spec

\* A move the machine has, or one of the two that pass through a status.
Edge(s, t) ==
  \/ s = t \/ s = "none" \/ t \in Allowed[s]
  \/ s = "authorizing" /\ t = "voiding"
  \/ s = "authorized" /\ t = "voided"
Followed == \A r \in Rows : Edge(status[r], status'[r])

LEMMA KeptIsFollowed ==
  ASSUME UNCHANGED status PROVE Followed
BY DEF Followed, Edge

LEMMA MoveIsFollowed ==
  ASSUME TypeOK, NEW r \in Rows, NEW to, status' = [status EXCEPT ![r] = to], Edge(status[r], to)
  PROVE  Followed
BY DEF Followed, Edge, TypeOK

\* moveRedemption writes over the status it read, and no other.
LEMMA FencedIsFollowed ==
  ASSUME TypeOK, NEW p \in Procs, MyRow(p) \in Rows, NEW to, Move(p, to), Edge(proc[p].seen, to)
  PROVE  Followed
<1>1. CASE Mine(p)
  BY <1>1, MoveIsFollowed DEF Move, Mine
<1>2. CASE ~Mine(p)
  BY <1>2, KeptIsFollowed DEF Move
<1> QED BY <1>1, <1>2

LEMMA StepIsFollowed ==
  ASSUME TypeOK, StepFitsStatus, [Next]_vars PROVE Followed
<1>0. \A p \in Procs : proc[p].at # "idle" => MyRow(p) \in Rows
  BY DEF TypeOK, MyRow
<1>1. ASSUME NEW p \in Procs, NEW r \in Rows, InsertRedemption(p, r) \/ ClaimDue(p, r) PROVE Followed
  BY <1>1, MoveIsFollowed, KeptIsFollowed DEF InsertRedemption, ClaimDue, Edge
<1>2. ASSUME NEW p \in Procs, OnAuthorize(p) PROVE Followed
  <2>1. MyRow(p) \in Rows /\ proc[p].seen = "authorizing"
    BY <1>0, <1>2 DEF OnAuthorize, Answered, StepFitsStatus
  <2>2. UNCHANGED status \/ \E to \in {"authorized", "voiding", "refused", "failed"} : Move(p, to)
    BY <1>2 DEF OnAuthorize, rowVars
  <2>3. \A to \in {"authorized", "voiding", "refused", "failed"} : Edge("authorizing", to)
    BY DEF Edge, Allowed, Statuses, Unfinished
  <2> QED BY <2>1, <2>2, <2>3, KeptIsFollowed, FencedIsFollowed
<1>3. ASSUME NEW p \in Procs, NEW call \in Keyed, OnAnswer(p, call) PROVE Followed
  <2>1. MyRow(p) \in Rows /\ (call = "capture" => proc[p].seen = "capturing") /\ (call = "void" => proc[p].seen = "voiding")
    BY <1>0, <1>3 DEF OnAnswer, Answered, StepFitsStatus, Keyed
  <2>2. UNCHANGED status \/ Move(p, Becomes(call))
    BY <1>3 DEF OnAnswer, rowVars
  <2>3. Edge(proc[p].seen, Becomes(call))
    BY <2>1 DEF Edge, Allowed, Statuses, Unfinished, Becomes, Keyed
  <2> QED BY <2>1, <2>2, <2>3, KeptIsFollowed, FencedIsFollowed
<1>4. ASSUME NEW p \in Procs, OnLookup(p) PROVE Followed
  <2> DEFINE to == Resolved(proc[p].seen, era[MyRow(p)] >= 1, proc[p].ans)
  <2>1. MyRow(p) \in Rows /\ proc[p].seen \in {"authorizing", "authorized", "capturing", "voiding"}
    BY <1>0, <1>4 DEF OnLookup, Answered, StepFitsStatus, Unfinished
  <2>2. UNCHANGED status \/ (to # "none" /\ Move(p, to))
    BY <1>4 DEF OnLookup, rowVars
  <2>3. to \in {"none", "captured", "voided", "expired"}
        \/ (to = "abandoned" /\ proc[p].seen = "authorizing")
        \/ (to = "authorized" /\ proc[p].seen = "authorizing")
        \/ (to = "voiding" /\ proc[p].seen \in {"authorizing", "capturing"})
    BY DEF Resolved
  <2>4. to # "none" => Edge(proc[p].seen, to)
    <3> HIDE DEF to
    <3> QED BY <2>1, <2>3 DEF Edge, Allowed, Statuses, Unfinished
  <2> QED BY <2>1, <2>2, <2>4, KeptIsFollowed, FencedIsFollowed
<1>5. ASSUME NEW p \in Procs, BeginCapture(p) PROVE Followed
  <2>1. MyRow(p) \in Rows /\ proc[p].seen = "authorized"
    BY <1>0, <1>5 DEF BeginCapture, At, StepFitsStatus
  <2>2. Edge("authorized", "capturing")
    BY DEF Edge, Allowed, Statuses, Unfinished
  <2> QED BY <1>5, <2>1, <2>2, KeptIsFollowed, MoveIsFollowed DEF BeginCapture, Mine
<1>6. ASSUME NEW p \in Procs, GrantRedemption(p) PROVE Followed
  <2>1. Edge("captured", "granted") /\ MyRow(p) \in Rows
    BY <1>0, <1>6 DEF Edge, Allowed, Statuses, Unfinished, GrantRedemption, At
  <2> QED BY <1>6, <2>1, KeptIsFollowed, MoveIsFollowed DEF GrantRedemption, rowVars
<1>7. ASSUME NEW p \in Procs, GrantFails(p) \/ Review(p) PROVE Followed
  <2>1. MyRow(p) \in Rows /\ proc[p].seen \in {"captured", "capturing"}
    BY <1>0, <1>7 DEF GrantFails, Review, At, StepFitsStatus
  <2>2. Edge(proc[p].seen, "needs_review")
    BY <2>1 DEF Edge, Allowed, Statuses, Unfinished
  <2> QED BY <1>7, <2>1, <2>2, KeptIsFollowed, MoveIsFollowed DEF GrantFails, Review, Escalate, Mine, rowVars
<1>8. ASSUME NEW p \in Procs,
             \/ SendAuthorize(p) \/ SendLookup(p) \/ \E call \in Keyed : Send(p, call)
             \/ Release(p) \/ PassFails(p) \/ Crash(p)
      PROVE Followed
  BY <1>8, KeptIsFollowed DEF SendAuthorize, SendLookup, Send, Release, PassFails, Crash, rowVars
<1>9. ASSUME NEW r \in Rows, Merchant(r) \/ LeaseLapses(r) \/ GrowsOld(r) PROVE Followed
  BY <1>9, KeptIsFollowed DEF Merchant, LateAuthorize, LateCall, HoldLapses, LeaseLapses, GrowsOld, rowVars
<1>10. CASE UNCHANGED vars
  BY <1>10, KeptIsFollowed DEF vars, rowVars
<1> QED BY <1>1, <1>2, <1>3, <1>4, <1>5, <1>6, <1>7, <1>8, <1>9, <1>10 DEF Next, Pass, Step, Procs

\* What redeem.service.ts makes of late, stale or repeated answers never runs
\* into the guard trigger: each write is fenced by the status it read.
THEOREM MachineFollowed == Spec => FollowsMachine
<1>1. IInv /\ [Next]_vars => [Followed]_vars
  BY StepIsFollowed DEF IInv
<1>2. Followed <=> (\A r \in Rows :
       LET s == status[r] t == status'[r] IN
       \/ s = t \/ s = "none" \/ t \in Allowed[s]
       \/ s = "authorizing" /\ t = "voiding"
       \/ s = "authorized" /\ t = "voided")
  BY DEF Followed, Edge
<1> QED BY <1>1, <1>2, AlwaysIInv, PTL DEF Spec, FollowsMachine

\* While nothing failed, only the one that inserted a row deals with it until
\* it has heard the answer to its authorize; no lookup stands in for it.
Told == {"none", "ok", "mismatch", "refused", "failed"}
AuthorizedByOne ==
  faults = 0 =>
    /\ \A p \in Procs : proc[p].at = "authorize" => proc[p].ans \in Told
    /\ \A p \in Procs : proc[p].at = "lookup" => proc[p].seen # "authorizing"
    /\ \A r \in Rows : status[r] = "authorizing" =>
         /\ lock[r] = "held"
         /\ \E p \in Procs : holder[r] = p /\ MyRow(p) = r /\ proc[p].at = "authorize"

LEMMA StepKeepsOrCounts ==
  ASSUME [Next]_vars PROVE faults' \in {faults, faults + 1}
<1>1. ASSUME NEW p \in Procs, Pass(p) \/ PassFails(p) \/ Crash(p) PROVE faults' \in {faults, faults + 1}
  BY <1>1 DEF Pass, Step, SendAuthorize, SendLookup, Send, OnAnswer, OnAuthorize, BeginCapture, OnLookup,
     GrantRedemption, GrantFails, Review, Release, ClaimDue, PassFails, Crash, Fault
<1>2. ASSUME NEW r \in Rows, Merchant(r) \/ LeaseLapses(r) \/ GrowsOld(r) PROVE faults' \in {faults, faults + 1}
  BY <1>2 DEF Merchant, LateAuthorize, LateCall, HoldLapses, LeaseLapses, GrowsOld, Fault
<1> QED BY <1>1, <1>2 DEF Next, InsertRedemption, vars, Procs

\* The parts of AuthorizedByOne.
Heard(p) == proc[p].at = "authorize" => proc[p].ans \in Told
Looks(p) == proc[p].at = "lookup" => proc[p].seen # "authorizing"
Kept(r) ==
  status[r] = "authorizing" =>
    /\ lock[r] = "held"
    /\ \E p \in Procs : holder[r] = p /\ MyRow(p) = r /\ proc[p].at = "authorize"

\* A step of one that is not authorizing, or has just moved its row.
LEMMA OneStays ==
  ASSUME TypeOK, AuthorizedByOne, faults = 0, NEW p \in Procs, Others(p), Heard(p)', Looks(p)',
         \A r \in Rows : status'[r] = "authorizing" =>
           /\ status[r] = "authorizing" /\ lock'[r] = lock[r] /\ holder'[r] = holder[r]
           /\ ~(MyRow(p) = r /\ proc[p].at = "authorize" /\ proc'[p] # proc[p])
  PROVE  AuthorizedByOne'
<1>1. \A q \in Procs : Heard(q)' /\ Looks(q)'
  BY DEF AuthorizedByOne, Heard, Looks, Others
<1>2. \A r \in Rows : Kept(r)'
  BY DEF AuthorizedByOne, Kept, MyRow, Others
<1> QED BY <1>1, <1>2 DEF AuthorizedByOne, Heard, Looks, Kept

LEMMA StepKeepsOne ==
  ASSUME IInv, AuthorizedByOne, [Next]_vars PROVE AuthorizedByOne'
<1> SUFFICES ASSUME faults' = 0 PROVE AuthorizedByOne'
  BY DEF AuthorizedByOne
<1>0. /\ TypeOK /\ \A p \in Procs : proc[p].at # "idle" => MyRow(p) \in Rows
      /\ faults = 0 /\ ~Fault
  BY StepKeepsOrCounts, ConstantsAssumption DEF IInv, TypeOK, MyRow, Fault
<1>1. \A r \in Rows : status[r] = "authorizing" => Kept(r) /\ lock[r] = "held"
  BY <1>0 DEF AuthorizedByOne, Kept
<1>2. ASSUME NEW p \in Procs, NEW r \in Rows, InsertRedemption(p, r) PROVE AuthorizedByOne'
  <2>1. /\ Others(p) /\ Heard(p)' /\ Looks(p)' /\ proc[p].at = "idle"
        /\ proc'[p].at = "authorize" /\ proc'[p].row = r
        /\ lock'[r] = "held" /\ holder'[r] = p
        /\ \A x \in Rows \ {r} : status'[x] = status[x] /\ lock'[x] = lock[x] /\ holder'[x] = holder[x]
    BY <1>0, <1>2 DEF InsertRedemption, Others, Heard, Looks, Told, TypeOK
  <2>2. \A q \in Procs : Heard(q)' /\ Looks(q)'
    BY <1>0, <2>1 DEF AuthorizedByOne, Heard, Looks, Others
  <2>3. \A x \in Rows : Kept(x)'
    BY <1>1, <2>1 DEF Kept, MyRow, Others
  <2> QED BY <2>2, <2>3 DEF AuthorizedByOne, Heard, Looks, Kept
<1>3. ASSUME NEW p \in Procs, NEW r \in Rows, ClaimDue(p, r) PROVE AuthorizedByOne'
  <2>1. status[r] # "authorizing" /\ status[r] \in Statuses /\ proc[p].at = "idle"
    BY <1>0, <1>1, <1>3 DEF ClaimDue, TypeOK
  <2>2. /\ Others(p) /\ proc'[p].seen = status[r] /\ proc'[p].at = NextStep(p, r, status[r])
        /\ UNCHANGED status
        /\ \A x \in Rows \ {r} : lock'[x] = lock[x] /\ holder'[x] = holder[x]
    <3>1. Others(p) /\ proc'[p] = [at |-> NextStep(p, r, status[r]), row |-> r, seen |-> status[r], ans |-> "none"]
      BY <1>0, <1>3, <2>1, ProcEffects DEF ClaimDue
    <3> QED BY <1>0, <1>3, <3>1 DEF ClaimDue, TypeOK
  <2>3. Heard(p)' /\ Looks(p)'
    BY <2>1, <2>2 DEF Heard, Looks, NextStep
  <2> QED BY <1>0, <2>1, <2>2, <2>3, OneStays
<1>4. ASSUME NEW p \in Procs, NEW a, Hears(p, a), UNCHANGED rowVars, proc[p].at = "authorize" => a \in Told
      PROVE  AuthorizedByOne'
  <2>1. /\ \A q \in Procs : /\ proc'[q].at = proc[q].at /\ proc'[q].row = proc[q].row
                            /\ proc'[q].seen = proc[q].seen
        /\ \A q \in Procs : q # p => proc'[q].ans = proc[q].ans
        /\ proc'[p].ans = a
    BY <1>0, <1>4, ProcEffects DEF Others
  <2> QED BY <1>0, <1>4, <2>1 DEF AuthorizedByOne, MyRow, rowVars
<1>5. ASSUME NEW p \in Procs, SendAuthorize(p) PROVE AuthorizedByOne'
  <2>1. UNCHANGED rowVars /\ proc[p].at = "authorize" /\ \E a \in Told : Hears(p, a)
    BY <1>0, <1>5 DEF SendAuthorize, At, Told
  <2> QED BY <1>4, <2>1
<1>6. ASSUME NEW p \in Procs, SendLookup(p) \/ \E call \in Keyed : Send(p, call) PROVE AuthorizedByOne'
  <2>1. proc[p].at # "authorize" /\ UNCHANGED rowVars /\ \E a : Hears(p, a)
    BY <1>6 DEF SendLookup, Send, At, Keyed
  <2> QED BY <1>4, <2>1
<1>7. ASSUME NEW p \in Procs, NEW to \in Statuses, to # "authorizing", Move(p, to), proc[p].at # "idle"
      PROVE  AuthorizedByOne'
  <2>1. PICK r \in Rows : r = MyRow(p)
    BY <1>0, <1>7
  <2>2. CASE Mine(p)
    <3>1. /\ Others(p) /\ proc'[p].seen = to /\ proc'[p].at = NextStep(p, r, to)
          /\ status' = [status EXCEPT ![r] = to] /\ UNCHANGED <<lock, holder>>
      <4>1. /\ Continue(p, r, to)
            /\ status' = [status EXCEPT ![r] = to] /\ UNCHANGED <<lock, holder>>
        BY <1>7, <2>1, <2>2 DEF Move
      <4>2. Others(p) /\ proc'[p] = [at |-> NextStep(p, r, to), row |-> r, seen |-> to, ans |-> "none"]
        BY <1>0, <4>1, ProcEffects
      <4> QED BY <4>1, <4>2
    <3>2. Heard(p)' /\ Looks(p)'
      BY <1>7, <3>1 DEF Heard, Looks, NextStep
    <3>3. \A x \in Rows : status'[x] = "authorizing" => x # r /\ status[x] = "authorizing"
      BY <1>0, <1>7, <3>1 DEF TypeOK
    <3> QED BY <1>0, <2>1, <3>1, <3>2, <3>3, OneStays
  <2>3. CASE ~Mine(p)
    <3>1. /\ Others(p) /\ proc'[p].at = "release" /\ UNCHANGED <<status, lock, holder>>
      BY <1>0, <1>7, <2>3, ProcEffects DEF Move
    <3>2. Heard(p)' /\ Looks(p)'
      BY <3>1 DEF Heard, Looks
    <3>3. ASSUME status[r] = "authorizing", proc[p].at = "authorize" PROVE FALSE
      <4>1. PICK q \in Procs : holder[r] = q /\ MyRow(q) = r /\ proc[q].at = "authorize"
        BY <1>1, <3>3 DEF Kept
      <4>2. q = p
        BY <2>1, <3>3, <4>1 DEF IInv, OneAuthorize
      <4>3. proc[p].seen = "authorizing"
        BY <3>3 DEF IInv, StepFitsStatus
      <4> QED BY <2>1, <2>3, <3>3, <4>1, <4>2, <4>3 DEF Mine
    <3> QED BY <1>0, <2>1, <3>1, <3>2, <3>3, OneStays
  <2> QED BY <2>2, <2>3
<1>8. ASSUME NEW p \in Procs, proc[p].at # "authorize",
             Ask(p, "release") \/ Ask(p, "review") \/ (Ask(p, "lookup") /\ proc[p].seen # "authorizing"),
             \A r \in Rows : status'[r] = "authorizing" =>
               status[r] = "authorizing" /\ lock'[r] = lock[r] /\ holder'[r] = holder[r]
      PROVE  AuthorizedByOne'
  <2>1. Others(p) /\ Heard(p)' /\ Looks(p)'
    BY <1>0, <1>8, ProcEffects DEF Heard, Looks
  <2> QED BY <1>0, <1>8, <2>1, OneStays
<1>9. ASSUME NEW p \in Procs, OnAuthorize(p) PROVE AuthorizedByOne'
  <2>1. proc[p].at = "authorize" /\ proc[p].ans \in Told \ {"none"}
    BY <1>0, <1>9 DEF OnAuthorize, Answered, AuthorizedByOne
  <2>2. \E to \in {"authorized", "voiding", "refused", "failed"} : Move(p, to)
    BY <1>9, <2>1 DEF OnAuthorize, Told
  <2> QED BY <1>7, <2>1, <2>2 DEF Statuses, Finals, Unfinished
<1>10. ASSUME NEW p \in Procs, OnLookup(p) PROVE AuthorizedByOne'
  <2> DEFINE to == Resolved(proc[p].seen, era[MyRow(p)] >= 1, proc[p].ans)
  <2>1. /\ to = "none" \/ to \in Statuses \ {"authorizing"}
        /\ proc[p].at = "lookup"
        /\ IF to # "none" THEN Move(p, to) ELSE GiveUp(p) /\ UNCHANGED rowVars
    BY <1>10 DEF OnLookup, Answered, Resolved, Statuses, Finals, Unfinished
  <2> HIDE DEF to
  <2>2. CASE to # "none"
    BY <1>7, <2>1, <2>2
  <2>3. CASE to = "none"
    BY <1>8, <2>1, <2>3 DEF GiveUp, rowVars
  <2> QED BY <2>2, <2>3
<1>11. ASSUME NEW p \in Procs, NEW call \in Keyed, OnAnswer(p, call) PROVE AuthorizedByOne'
  <2>1. /\ proc[p].at = call /\ call \notin {"idle", "authorize"} /\ proc[p].seen # "authorizing"
        /\ Becomes(call) \in Statuses \ {"authorizing"}
    BY <1>11 DEF OnAnswer, Answered, Becomes, Keyed, Statuses, Finals, Unfinished, IInv, StepFitsStatus
  <2>2. \/ Move(p, Becomes(call))
        \/ UNCHANGED rowVars /\ (Ask(p, "lookup") \/ GiveUp(p))
    BY <1>11 DEF OnAnswer
  <2> QED BY <1>7, <1>8, <2>1, <2>2 DEF GiveUp, rowVars
<1>12. ASSUME NEW p \in Procs, BeginCapture(p) PROVE AuthorizedByOne'
  <2>1. proc[p].at = "begin" /\ UNCHANGED <<lock, holder>> /\ MyRow(p) \in Rows
    BY <1>0, <1>12 DEF BeginCapture, At
  <2>2. CASE Mine(p)
    <3>1. Others(p) /\ proc'[p].at = "capture"
      BY <1>0, <1>12, <2>2 DEF BeginCapture, Others, TypeOK, ProcRecord
    <3>2. \A r \in Rows : status'[r] = "authorizing" => status[r] = "authorizing"
      BY <1>0, <1>12, <2>1, <2>2 DEF BeginCapture, TypeOK
    <3> QED BY <1>0, <2>1, <3>1, <3>2, OneStays DEF Heard, Looks
  <2>3. CASE ~Mine(p)
    BY <1>8, <1>12, <2>1, <2>3 DEF BeginCapture
  <2> QED BY <2>2, <2>3
<1>13. ASSUME NEW p \in Procs, GrantRedemption(p) \/ Review(p) PROVE AuthorizedByOne'
  <2>1. /\ proc[p].at \in {"grant", "review"} /\ Ask(p, "release") /\ MyRow(p) \in Rows
        /\ \/ UNCHANGED rowVars
           \/ status[MyRow(p)] = "captured"
              /\ \E s \in {"free"}, h \in {NoOne} : /\ status' = [status EXCEPT ![MyRow(p)] = "granted"]
                                                    /\ lock' = [lock EXCEPT ![MyRow(p)] = s]
                                                    /\ holder' = [holder EXCEPT ![MyRow(p)] = h]
           \/ status' = [status EXCEPT ![MyRow(p)] = "needs_review"] /\ UNCHANGED <<lock, holder>>
           \/ UNCHANGED <<status, lock, holder>>
    BY <1>0, <1>13 DEF GrantRedemption, Review, Escalate, At, rowVars
  <2>2. \A r \in Rows : status'[r] = "authorizing" =>
          status[r] = "authorizing" /\ lock'[r] = lock[r] /\ holder'[r] = holder[r]
    BY <1>0, <2>1 DEF TypeOK, rowVars
  <2> QED BY <1>8, <2>1, <2>2
<1>14. ASSUME NEW p \in Procs, Release(p) PROVE AuthorizedByOne'
  <2>1. /\ proc[p].at = "release" /\ MyRow(p) \in Rows /\ UNCHANGED status
        /\ Others(p) /\ proc'[p].at = "idle"
    BY <1>0, <1>14 DEF Release, At, Others, Idle, TypeOK
  <2>2. \A r \in Rows : status[r] = "authorizing" => holder[r] # p
    BY <1>1, <2>1, ConstantsAssumption DEF Kept, IInv, OneAuthorize
  <2>3. \A r \in Rows : status[r] = "authorizing" => lock'[r] = lock[r] /\ holder'[r] = holder[r]
    BY <1>0, <1>14, <2>1, <2>2 DEF Release, TypeOK
  <2> QED BY <1>0, <2>1, <2>3, OneStays DEF Heard, Looks
<1>15. ASSUME NEW p \in Procs, PassFails(p) \/ Crash(p) \/ GrantFails(p) PROVE FALSE
  BY <1>0, <1>15 DEF PassFails, Crash, GrantFails
<1>16. ASSUME NEW r \in Rows, Merchant(r) \/ GrowsOld(r) PROVE AuthorizedByOne'
  <2>1. UNCHANGED <<rowVars, proc>>
    BY <1>16 DEF Merchant, LateAuthorize, LateCall, HoldLapses, GrowsOld
  <2> QED BY <1>0, <2>1 DEF AuthorizedByOne, MyRow, rowVars
<1>17. ASSUME NEW r \in Rows, LeaseLapses(r) PROVE AuthorizedByOne'
  <2>1. status[r] # "authorizing" /\ UNCHANGED <<status, holder, proc>>
    BY <1>0, <1>1, <1>17 DEF LeaseLapses, Kept
  <2>2. \A x \in Rows \ {r} : lock'[x] = lock[x]
    BY <1>0, <1>17 DEF LeaseLapses, TypeOK
  <2> QED BY <1>0, <2>1, <2>2 DEF AuthorizedByOne, MyRow
<1>18. CASE UNCHANGED vars
  BY <1>0, <1>18 DEF vars, rowVars, AuthorizedByOne, MyRow
<1> QED
  BY <1>2, <1>3, <1>5, <1>6, <1>9, <1>10, <1>11, <1>12, <1>13, <1>14, <1>15, <1>16, <1>17, <1>18
  DEF Next, Pass, Step, Procs

\* A voucher that is not to be taken is never on the way to a capture: no one
\* has read it authorized, and no one is about to say that it is.  The amount of
\* a hold is in every answer, a value above the face only in authorize's.
Wrong(r) == worth[r] = "amount" \/ (faults = 0 /\ worth[r] # "face")
NotMeant(p) ==
  /\ proc[p].seen \notin {"authorized", "capturing"}
  /\ ~(proc[p].at = "authorize" /\ proc[p].ans = "ok")
  /\ ~(proc[p].at = "lookup" /\ proc[p].seen = "authorizing" /\ proc[p].ans = "held")
WrongIsReleased ==
  \A r \in Rows : Wrong(r) =>
    /\ hold[r] \notin {"none", "captured"}
    /\ status[r] \notin {"authorized", "capturing"}
    /\ <<"capture", r>> \notin late
    /\ \A p \in Procs : MyRow(p) = r => NotMeant(p)

NoneTurnsWrong == \A r \in Rows : Wrong(r)' => Wrong(r)

LEMMA WrongIsOfTheHold ==
  ASSUME TypeOK, [Next]_vars
  PROVE  /\ faults' = 0 => faults = 0
         /\ UNCHANGED worth => NoneTurnsWrong
<1>1. faults' \in {faults, faults + 1} /\ faults \in Nat
  BY StepKeepsOrCounts, ConstantsAssumption DEF TypeOK
<1> QED BY <1>1 DEF NoneTurnsWrong, Wrong

\* A process that turns elsewhere, takes the row up or hears an answer.
LEMMA TurnsKeepReleased ==
  ASSUME TypeOK, WrongIsReleased, NEW p \in Procs, UNCHANGED <<hold, late>>, NoneTurnsWrong,
         \/ Elsewhere(p) /\ UNCHANGED status
         \/ \E r \in Rows, to \in Statuses :
              /\ status' \in {status, [status EXCEPT ![r] = to]} /\ Continue(p, r, to)
              /\ Wrong(r) => to \notin {"authorized", "capturing"}
  PROVE  WrongIsReleased'
<1> USE DEF MyRow, NotMeant
<1>1. CASE Elsewhere(p) /\ UNCHANGED status
  BY <1>1, ConstantsAssumption DEF NoneTurnsWrong, WrongIsReleased, Elsewhere, Others
<1>2. ASSUME NEW r \in Rows, NEW to \in Statuses, Continue(p, r, to),
             status' \in {status, [status EXCEPT ![r] = to]},
             Wrong(r) => to \notin {"authorized", "capturing"}
      PROVE  WrongIsReleased'
  <2>1. /\ \A q \in Procs : q = p \/ proc'[q] = proc[q]
        /\ proc'[p] = [at |-> NextStep(p, r, to), row |-> r, seen |-> to, ans |-> "none"]
    BY <1>2, ProcEffects DEF Others
  <2>2. proc'[p].row = r /\ proc'[p].seen = to /\ proc'[p].ans = "none"
    BY <2>1
  <2>3. \A x \in Rows : status'[x] = status[x] \/ (x = r /\ status'[x] = to)
    BY <1>2 DEF TypeOK
  <2> QED BY <1>2, <2>1, <2>2, <2>3 DEF NoneTurnsWrong, WrongIsReleased
<1> QED BY <1>1, <1>2

\* moveRedemption, where it is not the voucher's other amount that was missed.
LEMMA MoveKeepsReleased ==
  ASSUME TypeOK, WrongIsReleased, NEW p \in Procs, NEW r \in Rows, r = MyRow(p), proc[p].at # "idle",
         NEW to \in Statuses, Move(p, to), UNCHANGED <<hold, late>>, NoneTurnsWrong,
         Wrong(r) => to \notin {"authorized", "capturing"}
  PROVE  WrongIsReleased'
<1>1. CASE Mine(p)
  <2>1. Continue(p, r, to) /\ status' = [status EXCEPT ![r] = to]
    BY <1>1 DEF Move
  <2> QED BY <2>1, TurnsKeepReleased
<1>2. CASE ~Mine(p)
  BY <1>2, AskIsElsewhere, TurnsKeepReleased DEF Move
<1> QED BY <1>1, <1>2

\* What is heard and what the merchant did, of a hold that was there.
LEMMA HearsKeepsReleased ==
  ASSUME TypeOK, WrongIsReleased, NEW p \in Procs, NEW r \in Rows, r = MyRow(p),
         NEW a, Hears(p, a), UNCHANGED status, NoneTurnsWrong,
         Wrong(r) =>
           /\ proc[p].at # "capture"
           /\ ~(proc[p].at = "authorize" /\ a = "ok")
           /\ ~(proc[p].at = "lookup" /\ proc[p].seen = "authorizing" /\ a = "held"),
         \A x \in Rows : Wrong(x) => hold'[x] \notin {"none", "captured"},
         late' \in {late, late \cup {<<proc[p].at, r>>}}
  PROVE  WrongIsReleased'
<1> USE DEF MyRow, NotMeant
<1>1. /\ \A q \in Procs : q = p \/ proc'[q] = proc[q]
      /\ proc'[p].at = proc[p].at /\ proc'[p].row = r /\ proc'[p].seen = proc[p].seen /\ proc'[p].ans = a
  BY ProcEffects DEF Others
<1>2. \A x \in Rows : Wrong(x) => <<"capture", x>> \notin late'
  BY DEF NoneTurnsWrong, WrongIsReleased
<1> QED BY <1>1, <1>2 DEF NoneTurnsWrong, WrongIsReleased

\* A hold that begins: nothing has been made of it yet.
LEMMA BeginsReleased ==
  ASSUME IInv, WrongIsReleased, NEW r \in Rows, NEW v, hold[r] = "none",
         hold' = [hold EXCEPT ![r] = "held"], worth' = [worth EXCEPT ![r] = v],
         late' \subseteq late, UNCHANGED status, faults' = 0 => faults = 0,
         \/ UNCHANGED proc
         \/ \E p \in Procs, a \in Answers :
              proc[p].at = "authorize" /\ MyRow(p) = r /\ Hears(p, a) /\ (a = "ok" => v = "face")
  PROVE  WrongIsReleased'
<1> USE DEF MyRow
<1>0. TypeOK
  BY DEF IInv
<1>1. /\ \A x \in Rows \ {r} : worth'[x] = worth[x] /\ hold'[x] = hold[x]
      /\ worth'[r] = v /\ hold'[r] = "held"
      /\ \A x \in Rows \ {r} : Wrong(x)' => Wrong(x)
  BY <1>0 DEF TypeOK, Wrong
<1>2. status[r] \notin {"authorized", "capturing"} /\ <<"capture", r>> \notin late
  BY DEF IInv, HoldWasTaken, SomeHold, Keyed
<1>3. ASSUME NEW p \in Procs, proc[p].row = r PROVE NotMeant(p)
  <2>1. proc[p].at # "idle"
    BY <1>3, ConstantsAssumption DEF IInv, StepFitsStatus
  <2>2. proc[p].seen \notin {"authorized", "capturing"}
    BY <1>3, <2>1 DEF IInv, HoldWasTaken, SomeHold
  <2>3. /\ proc[p].at = "authorize" => proc[p].ans # "ok"
        /\ proc[p].at = "lookup" => proc[p].ans # "held"
    BY <1>3 DEF IInv, AnswersStayTrue
  <2> QED BY <2>2, <2>3 DEF NotMeant
<1>4. ASSUME NEW x \in Rows, Wrong(x)', NEW q \in Procs, proc'[q].row = x
      PROVE  NotMeant(q)'
  <2>1. CASE UNCHANGED proc
    <3>1. NotMeant(q)
      <4>1. CASE x = r
        BY <1>3, <1>4, <2>1, <4>1
      <4>2. CASE x # r
        BY <1>1, <1>4, <2>1, <4>2 DEF WrongIsReleased
      <4> QED BY <4>1, <4>2
    <3> QED BY <2>1, <3>1 DEF NotMeant
  <2>2. ASSUME NEW p \in Procs, NEW a \in Answers,
               proc[p].at = "authorize", proc[p].row = r, Hears(p, a), a = "ok" => v = "face"
        PROVE  NotMeant(q)'
    <3>1. /\ q = p \/ proc'[q] = proc[q]
          /\ proc'[p].at = "authorize" /\ proc'[p].row = r /\ proc'[p].seen = proc[p].seen /\ proc'[p].ans = a
      BY <1>0, <2>2, ProcEffects DEF Others
    <3>2. CASE q = p
      <4>0. x = r /\ v # "face"
        BY <1>1, <1>4, <3>1, <3>2 DEF Wrong
      <4>1. NotMeant(p)
        BY <1>3, <2>2
      <4>2. a # "ok"
        BY <2>2, <4>0
      <4> QED BY <3>1, <3>2, <4>1, <4>2 DEF NotMeant
    <3>3. CASE q # p
      <4>1. NotMeant(q)
        <5>1. CASE x = r
          BY <1>3, <1>4, <3>1, <3>3, <5>1
        <5>2. CASE x # r
          <6>1. Wrong(x) /\ proc[q].row = x
            BY <1>1, <1>4, <3>1, <3>3, <5>2
          <6> QED BY <6>1 DEF WrongIsReleased
        <5> QED BY <5>1, <5>2
      <4> QED BY <3>1, <3>3, <4>1 DEF NotMeant
    <3> QED BY <3>2, <3>3
  <2> QED BY <2>1, <2>2
<1> QED BY <1>1, <1>2, <1>4 DEF WrongIsReleased

LEMMA StepKeepsReleased ==
  ASSUME IInv, AuthorizedByOne, WrongIsReleased, [Next]_vars PROVE WrongIsReleased'
<1>0. TypeOK /\ \A p \in Procs : proc[p].at # "idle" => MyRow(p) \in Rows
  BY DEF IInv, TypeOK, MyRow
<1>1. \A p \in Procs, r \in Rows : MyRow(p) = r /\ Wrong(r) => NotMeant(p)
  BY DEF WrongIsReleased
<1>W. /\ faults' = 0 => faults = 0
      /\ UNCHANGED worth => NoneTurnsWrong
  BY <1>0, WrongIsOfTheHold
<1>2. ASSUME NEW p \in Procs, NEW r \in Rows, InsertRedemption(p, r) PROVE WrongIsReleased'
  <2>1. ~Wrong(r)
    BY <1>2 DEF InsertRedemption, IInv, NothingBeforeRow, WrongIsReleased
  <2>2. /\ \A x \in Rows \ {r} : status'[x] = status[x]
        /\ \A q \in Procs \ {p} : proc'[q] = proc[q]
        /\ proc'[p].row = r /\ UNCHANGED <<hold, worth, late>>
    BY <1>0, <1>2 DEF InsertRedemption, TypeOK, merchantVars
  <2> QED BY <1>W, <2>1, <2>2 DEF NoneTurnsWrong, WrongIsReleased, MyRow, NotMeant
<1>3. ASSUME NEW p \in Procs, NEW r \in Rows, ClaimDue(p, r) PROVE WrongIsReleased'
  <2>1. /\ UNCHANGED <<status, hold, worth, late>> /\ Continue(p, r, status[r]) /\ status[r] \in Statuses
        /\ Wrong(r) => status[r] \notin {"authorized", "capturing"}
    BY <1>0, <1>3 DEF ClaimDue, merchantVars, TypeOK, WrongIsReleased
  <2> QED BY <1>W, <1>0, <2>1, TurnsKeepReleased
<1>4. ASSUME NEW p \in Procs, SendAuthorize(p) PROVE WrongIsReleased'
  <2>1. PICK r \in Rows : r = MyRow(p)
    BY <1>0, <1>4 DEF SendAuthorize, At
  <2>2. proc[p].at = "authorize" /\ hold[r] = "none" /\ UNCHANGED status
    BY <1>4, <2>1 DEF SendAuthorize, At, IInv, OneAuthorize, MyRow, rowVars
  <2>3. ASSUME NEW v \in Worths, Authorizes(r, v), UNCHANGED late,
               Hears(p, IF v = "face" THEN "ok" ELSE "mismatch") \/ Hears(p, "network")
        PROVE  WrongIsReleased'
    <3>1. \E a \in Answers : Hears(p, a) /\ (a = "ok" => v = "face")
      BY <2>3 DEF Answers
    <3> QED BY <1>W, <2>1, <2>2, <2>3, <3>1, BeginsReleased DEF Authorizes
  <2>4. ASSUME Declines, NEW a \in {"refused", "failed", "network"}, Hears(p, a),
               late' \in {late, late \cup {<<"authorize", r>>}}
        PROVE  WrongIsReleased'
    BY <1>W, <1>0, <2>1, <2>2, <2>4, HearsKeepsReleased DEF Declines, WrongIsReleased
  <2> QED BY <1>4, <2>1, <2>3, <2>4 DEF SendAuthorize
<1>5. ASSUME NEW p \in Procs, NEW call \in Keyed, Send(p, call) PROVE WrongIsReleased'
  <2>1. PICK r \in Rows : r = MyRow(p)
    BY <1>0, <1>5 DEF Send, At, Keyed
  <2>2. /\ proc[p].at = call /\ UNCHANGED <<status, worth>> /\ call \notin {"authorize", "lookup"}
        /\ late' \in {late, late \cup {<<call, r>>}} /\ \E a : Hears(p, a)
    BY <1>5, <2>1 DEF Send, At, rowVars, Keyed
  <2>3. Wrong(r) => call = "void"
    BY <1>1, <2>1, <2>2 DEF NotMeant, IInv, StepFitsStatus, Keyed
  <2>4. \A x \in Rows : Wrong(x) => hold'[x] \notin {"none", "captured"}
    <3>1. hold' = hold \/ (hold[r] = "held" /\ hold' = [hold EXCEPT ![r] = Becomes(call)])
      BY <1>5, <2>1 DEF Send, Effect, Fails
    <3> QED BY <1>0, <2>3, <3>1 DEF WrongIsReleased, Becomes, TypeOK
  <2> QED BY <1>W, <1>0, <2>1, <2>2, <2>3, <2>4, HearsKeepsReleased
<1>6. ASSUME NEW p \in Procs, SendLookup(p) PROVE WrongIsReleased'
  <2>1. PICK r \in Rows : r = MyRow(p)
    BY <1>0, <1>6 DEF SendLookup, At
  <2>2. PICK a : Hears(p, a) /\ (Wrong(r) /\ proc[p].seen = "authorizing" => a # "held")
    BY <1>6, <2>1 DEF SendLookup, At, Wrong, AuthorizedByOne
  <2>3. proc[p].at = "lookup" /\ UNCHANGED <<status, hold, worth, late>>
    BY <1>6 DEF SendLookup, At, rowVars, merchantVars
  <2> QED BY <1>W, <1>0, <2>1, <2>2, <2>3, HearsKeepsReleased DEF WrongIsReleased
<1>7. ASSUME NEW p \in Procs, OnAuthorize(p) \/ OnLookup(p) \/ \E call \in Keyed : OnAnswer(p, call)
      PROVE  WrongIsReleased'
  <2>1. PICK r \in Rows : r = MyRow(p)
    BY <1>0, <1>7 DEF OnAuthorize, OnLookup, OnAnswer, Answered, Keyed
  <2>2. proc[p].at # "idle" /\ UNCHANGED <<hold, worth, late>>
    BY <1>7 DEF OnAuthorize, OnLookup, OnAnswer, Answered, merchantVars, Keyed
  <2>3. CASE UNCHANGED status /\ (Ask(p, "release") \/ GiveUp(p))
    BY <1>W, <1>0, <2>2, <2>3, AskIsElsewhere, TurnsKeepReleased
  <2>4. CASE UNCHANGED status /\ Ask(p, "lookup") /\ \E call \in Keyed : OnAnswer(p, call)
    <3>1. proc[p].seen \in Unfinished \ {"captured"}
      BY <2>4 DEF OnAnswer, Answered, IInv, StepFitsStatus, Keyed, Unfinished
    <3> QED BY <1>W, <1>0, <2>2, <2>4, <3>1, AskIsElsewhere, TurnsKeepReleased
  <2>5. ASSUME NEW to \in Statuses, Move(p, to), to # "capturing",
               to = "authorized" => \/ proc[p].at = "authorize" /\ proc[p].ans = "ok"
                                    \/ /\ proc[p].at = "lookup" /\ proc[p].ans = "held"
                                       /\ proc[p].seen = "authorizing"
        PROVE  WrongIsReleased'
    <3>1. Wrong(r) => to \notin {"authorized", "capturing"}
      BY <1>1, <2>1, <2>5 DEF NotMeant
    <3> QED BY <1>W, <1>0, <2>1, <2>2, <2>5, <3>1, MoveKeepsReleased
  <2>6. CASE OnAuthorize(p)
    BY <2>3, <2>5, <2>6 DEF OnAuthorize, Answered, rowVars, Statuses, Unfinished, Finals
  <2>7. CASE OnLookup(p)
    <3> DEFINE to == Resolved(proc[p].seen, era[MyRow(p)] >= 1, proc[p].ans)
    <3>1. /\ to \in {"captured", "voided", "expired", "abandoned", "authorized", "voiding", "none"}
          /\ to = "authorized" => proc[p].ans = "held" /\ proc[p].seen = "authorizing"
      BY DEF Resolved
    <3>2. IF to # "none" THEN Move(p, to) ELSE GiveUp(p) /\ UNCHANGED status
      BY <2>7 DEF OnLookup, rowVars
    <3>3. proc[p].at = "lookup"
      BY <2>7 DEF OnLookup, Answered
    <3> HIDE DEF to
    <3> QED BY <2>3, <2>5, <3>1, <3>2, <3>3 DEF Statuses, Unfinished, Finals
  <2>8. ASSUME NEW call \in Keyed, OnAnswer(p, call) PROVE WrongIsReleased'
    <3>1. Becomes(call) \in Statuses \ {"capturing", "authorized"}
      BY DEF Becomes, Statuses, Unfinished, Finals
    <3>2. \/ Move(p, Becomes(call))
          \/ UNCHANGED status /\ (Ask(p, "lookup") \/ GiveUp(p))
      BY <2>8 DEF OnAnswer, rowVars
    <3> QED BY <2>3, <2>4, <2>5, <2>8, <3>1, <3>2
  <2> QED BY <1>7, <2>6, <2>7, <2>8
<1>8. ASSUME NEW p \in Procs, BeginCapture(p) PROVE WrongIsReleased'
  <2>1. PICK r \in Rows : r = MyRow(p)
    BY <1>0, <1>8 DEF BeginCapture, At
  <2>2. UNCHANGED <<hold, worth, late>> /\ proc[p].at = "begin" /\ ~Wrong(r)
    BY <1>1, <1>8, <2>1 DEF BeginCapture, At, merchantVars, IInv, StepFitsStatus, NotMeant
  <2>3. CASE Mine(p)
    <3>1. /\ \A x \in Rows \ {r} : status'[x] = status[x]
          /\ \A q \in Procs \ {p} : proc'[q] = proc[q]
          /\ proc'[p].row = r
      BY <1>0, <1>8, <2>1, <2>3 DEF BeginCapture, TypeOK, MyRow, ProcRecord
    <3> QED BY <1>W, <2>2, <3>1 DEF NoneTurnsWrong, WrongIsReleased, MyRow, NotMeant
  <2>4. CASE ~Mine(p)
    BY <1>W, <1>0, <1>8, <2>2, <2>4, AskIsElsewhere, TurnsKeepReleased DEF BeginCapture
  <2> QED BY <2>3, <2>4
<1>9. ASSUME NEW p \in Procs, GrantRedemption(p) \/ GrantFails(p) \/ Review(p) PROVE WrongIsReleased'
  <2>1. PICK r \in Rows : r = MyRow(p)
    BY <1>0, <1>9 DEF GrantRedemption, GrantFails, Review, At
  <2>2. /\ proc[p].at # "idle" /\ UNCHANGED <<hold, worth, late>> /\ Ask(p, "release")
        /\ \E to \in {"granted", "needs_review"} : status' \in {status, [status EXCEPT ![r] = to]}
    BY <1>9, <2>1 DEF GrantRedemption, GrantFails, Review, Escalate, At, rowVars, merchantVars
  <2>3. Elsewhere(p)
    BY <1>0, <2>2, AskIsElsewhere
  <2>4. \A x \in Rows : status'[x] \in {status[x], "granted", "needs_review"}
    BY <1>0, <2>2 DEF TypeOK
  <2> QED BY <1>W, <2>2, <2>3, <2>4, ConstantsAssumption DEF NoneTurnsWrong, WrongIsReleased, NotMeant, MyRow, Elsewhere, Others
<1>10. ASSUME NEW p \in Procs, Release(p) \/ PassFails(p) \/ Crash(p) PROVE WrongIsReleased'
  <2>1. proc[p].at # "idle" /\ UNCHANGED <<status, hold, worth, late>>
    BY <1>10 DEF Release, PassFails, Crash, At, Answered, Calls, Keyed, rowVars, merchantVars
  <2>2. Elsewhere(p)
    <3>1. proc' = [proc EXCEPT ![p] = Idle] => Elsewhere(p)
      BY <1>0 DEF Elsewhere, Others, Idle, TypeOK
    <3> QED BY <1>0, <1>10, <2>1, <3>1, AskIsElsewhere DEF Release, PassFails, Crash
  <2> QED BY <1>W, <1>0, <2>1, <2>2, TurnsKeepReleased
<1>11. ASSUME NEW r \in Rows, LateAuthorize(r) PROVE WrongIsReleased'
  <2>1. hold[r] = "none" /\ late' \subseteq late /\ UNCHANGED <<status, proc>>
    BY <1>11 DEF LateAuthorize, IInv, OneAuthorize, rowVars
  <2>2. CASE Declines
    BY <1>W, <2>1, <2>2 DEF Declines, NoneTurnsWrong, WrongIsReleased, NotMeant, MyRow
  <2>3. ASSUME NEW v \in Worths, Authorizes(r, v) PROVE WrongIsReleased'
    BY <1>W, <2>1, <2>3, BeginsReleased DEF Authorizes
  <2> QED BY <1>11, <2>2, <2>3 DEF LateAuthorize
<1>12. ASSUME NEW r \in Rows, NEW call \in Keyed, LateCall(call, r) PROVE WrongIsReleased'
  <2>1. /\ UNCHANGED <<status, worth, proc>> /\ late' \subseteq late
        /\ Wrong(r) => call = "void"
    BY <1>12 DEF LateCall, rowVars, WrongIsReleased, Keyed
  <2>2. hold' = hold \/ (hold[r] = "held" /\ hold' = [hold EXCEPT ![r] = Becomes(call)])
    BY <1>12 DEF LateCall, Effect, Fails
  <2>3. \A x \in Rows : Wrong(x) => hold'[x] \notin {"none", "captured"}
    BY <1>0, <2>1, <2>2 DEF WrongIsReleased, Becomes, TypeOK
  <2> QED BY <1>W, <2>1, <2>3 DEF NoneTurnsWrong, WrongIsReleased, NotMeant, MyRow
<1>13. ASSUME NEW r \in Rows, HoldLapses(r) \/ LeaseLapses(r) \/ GrowsOld(r) PROVE WrongIsReleased'
  <2>1. /\ UNCHANGED <<status, worth, late, proc>>
        /\ \A x \in Rows : hold'[x] \in {hold[x], "expired"}
    BY <1>0, <1>13 DEF HoldLapses, LeaseLapses, GrowsOld, rowVars, merchantVars, TypeOK
  <2> QED BY <1>W, <2>1 DEF NoneTurnsWrong, WrongIsReleased, NotMeant, MyRow
<1>14. CASE UNCHANGED vars
  BY <1>W, <1>14 DEF vars, rowVars, merchantVars, NoneTurnsWrong, WrongIsReleased, NotMeant, MyRow
<1> QED
  BY <1>2, <1>3, <1>4, <1>5, <1>6, <1>7, <1>8, <1>9, <1>10, <1>11, <1>12, <1>13, <1>14
  DEF Next, Pass, Step, Merchant, Procs

LEMMA AlwaysReleased == Spec => [](AuthorizedByOne /\ WrongIsReleased)
<1>1. Init => AuthorizedByOne /\ WrongIsReleased
  BY DEF Init, AuthorizedByOne, WrongIsReleased, Wrong, Idle
<1>2. IInv /\ AuthorizedByOne /\ WrongIsReleased /\ [Next]_vars => AuthorizedByOne' /\ WrongIsReleased'
  BY StepKeepsOne, StepKeepsReleased
<1> QED BY <1>1, <1>2, AlwaysIInv, PTL DEF Spec

\* A hold whose amount is not the voucher's face value is never captured, also
\* when its answer was lost and only a lookup told: such an attempt is never
\* read as authorized, so no capture of it is ever begun.
THEOREM AmountCorrect == Spec => []WrongAmountNotTaken
<1>1. WrongIsReleased => WrongAmountNotTaken
  BY DEF WrongIsReleased, WrongAmountNotTaken, Wrong
<1> QED BY <1>1, AlwaysReleased, PTL

\* Nor is a voucher worth more than its face, as long as nothing has failed.
\* OtherValueNotTaken is false of the code; this is what its counterexample
\* needs: only a lookup that stands in for a lost answer takes such a voucher.
THEOREM OtherValueCorrect == Spec => []OtherValueNeedsFault
<1>1. WrongIsReleased => OtherValueNeedsFault
  BY DEF WrongIsReleased, OtherValueNeedsFault, OtherValueNotTaken, Wrong
<1> QED BY <1>1, AlwaysReleased, PTL

=============================================================================
