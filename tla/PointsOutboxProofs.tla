------------------------ MODULE PointsOutboxProofs ------------------------
(***************************************************************************)
(* Proofs about PointsOutbox, for every set of users, requests, captures   *)
(* and drains.                                                             *)
(***************************************************************************)
EXTENDS PointsOutbox, TLAPS

(* A link row that is over here.                                           *)
Ended == {"revoked", "broken"}

(* A row that is or was to be sent.                                        *)
Queued(c) == status[c] \notin {"none", "skipped"}

(* A YourTal link id is made once, by the request it is named after; a row *)
(* that is over, or that an unlink is about to mark, names a link that     *)
(* YourTal has ended.                                                      *)
LinkInv ==
  /\ \A r \in Requests : req[r] \in {"idle", "exchanging"} =>
       r \notin ytLive /\ \A q \in Requests : issued[q] # r
  /\ \A r \in Requests : req[r] # "over" => link[r] = "none"
  /\ \A r \in Requests : (link[r] # "none" \/ req[r] \in {"inserting", "raced", "revoking"}) => issued[r] \in Requests
  /\ \A r \in Requests : link[r] \in Ended => issued[r] \notin ytLive
  /\ \A u \in Users : unlink[u].pc # "idle" => unlink[u].row \in Requests /\ link[unlink[u].row] # "none"
  /\ \A u \in Users : unlink[u].pc = "marking" => issued[unlink[u].row] \notin ytLive

(* What a row says and the answer YourTal keeps under its key agree, and a *)
(* cancelled row's link is over.                                           *)
RowInv ==
  /\ \A c \in Captures : scan[c] # "done" => status[c] = "none"
  /\ \A c \in Captures : scan[c] = "linked" \/ Queued(c) => via[c] \in Requests /\ link[via[c]] # "none"
  /\ \A c \in Captures : c \in late \/ answer[c] # "none" => Queued(c)
  /\ \A c \in Captures : answer[c] = "link_broken" => issued[via[c]] \notin ytLive
  /\ \A c \in Captures : status[c] \in LedgerAnswers => answer[c] = status[c]
  /\ \A c \in Captures : status[c] = "cancelled" => link[via[c]] \in Ended
  /\ \A c \in Captures : c \in paid <=> answer[c] = "sent"
  /\ \A c \in Captures : answer[c] = "duplicate" => \E o \in paid \ {c} : Ref[o] = Ref[c]

(* What a drain heard of its report is what YourTal answered.              *)
Honest(d) ==
  /\ \A c \in Batch(d) : Queued(c)
  /\ drain[d].pc \in Underway => drain[d].at \in Batch(d)
  /\ drain[d].pc = "finishing" => drain[d].outcome # "none"
  /\ drain[d].pc = "finishing" /\ drain[d].outcome \in LedgerAnswers => answer[drain[d].at] = drain[d].outcome
  /\ drain[d].pc = "finishing" /\ drain[d].outcome = "cancelled" => link[via[drain[d].at]] \in Ended
  /\ drain[d].pc \in {"marking", "cancelling"} => answer[drain[d].at] = "link_broken"
  /\ drain[d].pc = "cancelling" => link[via[drain[d].at]] \in Ended

DrainInv == \A d \in Drainers : Honest(d)

IInv == TypeOK /\ LinkInv /\ RowInv /\ DrainInv

---------------------------------------------------------------------------
(* Types.                                                                  *)

LEMMA InitType == Init => TypeOK
BY ConstantsAssumption DEF Init, TypeOK, Resting, Between, Names, DrainRecord, Underway, Outcomes, LedgerAnswers

(* The steps of requests to link and unlink.                               *)
LEMMA LinkTypes ==
  ASSUME TypeOK, (\E r \in Requests : LinkStep(r)) \/ (\E u \in Users : UnlinkStep(u))
  PROVE  TypeOK'
<1> USE ConstantsAssumption DEF TypeOK, linkVars, scanVars, rowVars, ytVars, LiveRows, Goes, Exchanged, UnlinkOver
<1>1. ASSUME NEW r \in Requests, BeginLink(r) PROVE TypeOK'
  BY <1>1 DEF BeginLink
<1>2. ASSUME NEW r \in Requests, ExchangeLinkCode(r) PROVE TypeOK'
  BY <1>2 DEF ExchangeLinkCode
<1>3. ASSUME NEW r \in Requests, ExchangeFails(r) PROVE TypeOK'
  BY <1>3 DEF ExchangeFails
<1>4. ASSUME NEW r \in Requests, InsertLink(r) PROVE TypeOK'
  BY <1>4 DEF InsertLink
<1>5. ASSUME NEW r \in Requests, LostRace(r) PROVE TypeOK'
  BY <1>5 DEF LostRace
<1>6. ASSUME NEW r \in Requests, RevokeOrphan(r) PROVE TypeOK'
  BY <1>6 DEF RevokeOrphan
<1>7. ASSUME NEW r \in Requests, LinkDies(r) PROVE TypeOK'
  BY <1>7 DEF LinkDies
<1>8. ASSUME NEW r \in Requests, RevokeFromYourtal(r) PROVE TypeOK'
  BY <1>8 DEF RevokeFromYourtal
<1>9. ASSUME NEW u \in Users, BeginUnlink(u) PROVE TypeOK'
  BY <1>9 DEF BeginUnlink
<1>10. ASSUME NEW u \in Users, RevokeLinkAtYourtal(u) PROVE TypeOK'
  <2> DEFINE place == [pc : {"idle", "revoking", "marking"}, row : Requests \cup {NoLink}]
  <2>1. unlink' \in [Users -> place]
    <3>1. unlink[u].row \in Requests \cup {NoLink}
      OBVIOUS
    <3>2. PICK p \in place : unlink' = [unlink EXCEPT ![u] = p]
      <4>1. [pc |-> "marking", row |-> unlink[u].row] \in place /\ [pc |-> "idle", row |-> NoLink] \in place
        BY <3>1
      <4> HIDE DEF place
      <4> QED BY <1>10, <4>1 DEF RevokeLinkAtYourtal
    <3> HIDE DEF place
    <3>3. unlink \in [Users -> place]
      BY DEF place
    <3> QED BY <3>2, <3>3
  <2>2. ytLive' \subseteq Requests
    BY <1>10 DEF RevokeLinkAtYourtal
  <2> QED BY <1>10, <2>1, <2>2 DEF RevokeLinkAtYourtal
<1>11. ASSUME NEW u \in Users, MarkLinkRevoked(u) PROVE TypeOK'
  BY <1>11 DEF MarkLinkRevoked
<1>12. QED BY <1>1, <1>2, <1>3, <1>4, <1>5, <1>6, <1>7, <1>8, <1>9, <1>10, <1>11 DEF LinkStep, UnlinkStep

(* The steps of scans and of time.                                         *)
LEMMA ScanTypes ==
  ASSUME TypeOK, NEW c \in Captures, ScanStep(c)
  PROVE  TypeOK'
<1> USE ConstantsAssumption DEF TypeOK, linkVars, scanVars, rowVars, ytVars, LiveRows, Outcomes, LedgerAnswers
<1>1. ASSUME SaveExtraction(c) PROVE TypeOK'
  BY <1>1 DEF SaveExtraction
<1>2. ASSUME LiveLink(c) PROVE TypeOK'
  BY <1>2 DEF LiveLink
<1>3. ASSUME NotQueued(c) PROVE TypeOK'
  BY <1>3 DEF NotQueued
<1>4. ASSUME NEW paidScan \in BOOLEAN, QueueReceiptReport(c, paidScan) PROVE TypeOK'
  BY <1>4 DEF QueueReceiptReport
<1>5. ASSUME LateArrives(c) PROVE TypeOK'
  <2>1. PICK verdict \in Judged(c) : Records(c, verdict)
    BY <1>5 DEF LateArrives
  <2>2. verdict \in LedgerAnswers \cup {"none"}
    BY <2>1 DEF Judged
  <2>3. paid' \subseteq Captures /\ answer' \in [Captures -> {"none"} \cup LedgerAnswers]
    BY <2>1, <2>2 DEF Records
  <2> QED BY <1>5, <2>3 DEF LateArrives
<1>6. ASSUME AbandonedLockAges(c) PROVE TypeOK'
  BY <1>6 DEF AbandonedLockAges, LockAges
<1>7. ASSUME HeldLockAges(c) PROVE TypeOK'
  BY <1>7 DEF HeldLockAges, LockAges
<1>8. QED BY <1>1, <1>2, <1>3, <1>4, <1>5, <1>6, <1>7 DEF ScanStep

(* What a step does to a drain and leaves of the others.                   *)
LEMMA DrainEffects ==
  ASSUME TypeOK, NEW d \in Drainers
  PROVE  /\ \A pc \in Underway, c \in Captures, outcome \in {"none", "retry"} \cup Outcomes, pause \in BOOLEAN :
              At(d, pc, c, outcome, pause) =>
                /\ drain' \in [Drainers -> DrainRecord]
                /\ drain'[d].pc = pc /\ drain'[d].at = c /\ drain'[d].outcome = outcome
                /\ drain'[d].batch = drain[d].batch
                /\ \A e \in Drainers \ {d} : drain'[e] = drain[e]
         /\ \A pc \in {"idle", "next", "releasing"}, batch \in [Captures -> Nat] :
              drain' = [drain EXCEPT ![d] = Between(pc, batch)] =>
                /\ drain' \in [Drainers -> DrainRecord]
                /\ drain'[d].pc = pc /\ drain'[d].batch = batch
                /\ \A e \in Drainers \ {d} : drain'[e] = drain[e]
<1> DEFINE outcomes == {"none", "retry"} \cup Outcomes
           pcs == {"idle", "next", "releasing"} \cup Underway
           record == [pc : pcs, batch : [Captures -> Nat], at : Captures \cup {NoCapture},
                      outcome : outcomes, pause : BOOLEAN]
<1>1. drain \in [Drainers -> record] /\ drain[d] \in record /\ drain[d].batch \in [Captures -> Nat]
  BY DEF TypeOK, DrainRecord
<1>2. ASSUME NEW pc \in Underway, NEW c \in Captures, NEW outcome \in outcomes, NEW pause \in BOOLEAN,
             At(d, pc, c, outcome, pause)
      PROVE  /\ drain' \in [Drainers -> record]
             /\ drain'[d].pc = pc /\ drain'[d].at = c /\ drain'[d].outcome = outcome
             /\ drain'[d].batch = drain[d].batch
             /\ \A e \in Drainers \ {d} : drain'[e] = drain[e]
  <2> DEFINE new == [pc |-> pc, batch |-> drain[d].batch, at |-> c, outcome |-> outcome, pause |-> pause]
  <2>1. new \in record
    BY <1>1
  <2>2. drain' = [drain EXCEPT ![d] = new]
    BY <1>2 DEF At
  <2>3. new.pc = pc /\ new.at = c /\ new.outcome = outcome /\ new.batch = drain[d].batch
    OBVIOUS
  <2> HIDE DEF new, record
  <2> QED BY <1>1, <2>1, <2>2, <2>3
<1>3. ASSUME NEW pc \in {"idle", "next", "releasing"}, NEW batch \in [Captures -> Nat],
             drain' = [drain EXCEPT ![d] = Between(pc, batch)]
      PROVE  /\ drain' \in [Drainers -> record]
             /\ drain'[d].pc = pc /\ drain'[d].batch = batch
             /\ \A e \in Drainers \ {d} : drain'[e] = drain[e]
  <2> DEFINE new == Between(pc, batch)
  <2>1. new \in record
    BY DEF Between
  <2>3. new.pc = pc /\ new.batch = batch
    BY DEF Between
  <2> HIDE DEF new, record
  <2> QED BY <1>1, <1>3, <2>1, <2>3 DEF new
<1>4. QED BY <1>2, <1>3 DEF DrainRecord

LEMMA AfterEffect ==
  ASSUME TypeOK, NEW d \in Drainers, drain[d].pc \in Underway, NEW pc \in {"next", "releasing"},
         drain' = [drain EXCEPT ![d] = After(d, pc)]
  PROVE  /\ drain' \in [Drainers -> DrainRecord]
         /\ drain'[d].pc \notin Underway
         /\ \A c \in Captures : drain'[d].batch[c] > 0 => drain[d].batch[c] > 0
         /\ \A e \in Drainers \ {d} : drain'[e] = drain[e]
<1> DEFINE without == [drain[d].batch EXCEPT ![drain[d].at] = 0]
           nothing == [c \in Captures |-> 0]
<1>1. drain[d].batch \in [Captures -> Nat] /\ drain[d].at \in Captures
  BY DEF TypeOK, DrainRecord
<1>2. without \in [Captures -> Nat] /\ nothing \in [Captures -> Nat]
  BY <1>1
<1>3. \A c \in Captures : (without[c] > 0 => drain[d].batch[c] > 0) /\ ~(nothing[c] > 0)
  BY <1>1
<1>4. After(d, pc) = Between("idle", nothing) \/ After(d, pc) = Between(pc, without)
  BY DEF After, Resting
<1>5. CASE After(d, pc) = Between("idle", nothing)
  <2> HIDE DEF nothing
  <2>1. drain' = [drain EXCEPT ![d] = Between("idle", nothing)]
    BY <1>5
  <2> QED BY <2>1, <1>2, <1>3, DrainEffects DEF Underway
<1>6. CASE After(d, pc) = Between(pc, without)
  <2> HIDE DEF without
  <2>1. drain' = [drain EXCEPT ![d] = Between(pc, without)]
    BY <1>6
  <2> QED BY <2>1, <1>2, <1>3, DrainEffects DEF Underway
<1>7. QED BY <1>4, <1>5, <1>6

(* The steps of a drain.                                                   *)
LEMMA DrainTypes ==
  ASSUME TypeOK, NEW d \in Drainers, Drain(d) \/ Crash(d)
  PROVE  TypeOK'
<1> DEFINE outcomes == {"none", "retry"} \cup Outcomes
           DrainOK == /\ drain' \in [Drainers -> DrainRecord]
                      /\ \A e \in Drainers : drain'[e].pc \in Underway => drain'[e].at \in Captures
           RestOK == /\ UNCHANGED <<linkVars, scanVars, via, ytLive>>
                     /\ status' \in [Captures -> {"none", "skipped", "pending"} \cup Outcomes]
                     /\ lock' \in [Captures -> {"none", "fresh", "stale"}]
                     /\ lockedBy' \in [Captures -> Names \cup {NoName}]
                     /\ \A c \in Captures : lock'[c] = "none" <=> lockedBy'[c] = NoName
                     /\ attempts' \in [Captures -> Nat]
                     /\ missed' \subseteq Requests \cup {NoLink} /\ faults' \in 0 .. MaxFaults
                     /\ paid' \subseteq Captures /\ late' \subseteq Captures
                     /\ answer' \in [Captures -> {"none"} \cup LedgerAnswers]
<1>0. drain[d] \in DrainRecord /\ WorkerName[d] \in Names /\ NoName \notin Names
      /\ \A e \in Drainers : drain[e].pc \in Underway => drain[e].at \in Captures
  BY ConstantsAssumption DEF TypeOK, Names
<1>a. ASSUME NEW pc \in Underway, NEW c \in Captures, NEW outcome \in outcomes, NEW pause \in BOOLEAN,
             At(d, pc, c, outcome, pause)
      PROVE  DrainOK
  BY <1>a, <1>0, DrainEffects
<1>b. ASSUME NEW pc \in {"idle", "next", "releasing"}, NEW batch \in [Captures -> Nat],
             drain' = [drain EXCEPT ![d] = Between(pc, batch)]
      PROVE  DrainOK
  BY <1>b, <1>0, DrainEffects DEF Underway
<1>c. ASSUME NEW pc \in {"next", "releasing"}, drain[d].pc \in Underway,
             drain' = [drain EXCEPT ![d] = After(d, pc)]
      PROVE  DrainOK
  BY <1>c, <1>0, AfterEffect
<1>d. ASSUME NEW c \in Captures, NEW verdict \in Judged(c), Records(c, verdict)
      PROVE  /\ paid' \subseteq Captures /\ answer' \in [Captures -> {"none"} \cup LedgerAnswers]
             /\ verdict \in outcomes
  BY <1>d DEF TypeOK, Judged, Records, LedgerAnswers, Outcomes
<1>e. ASSUME NEW c \in Captures, Free(c) PROVE
        /\ lock' \in [Captures -> {"none", "fresh", "stale"}]
        /\ lockedBy' \in [Captures -> Names \cup {NoName}]
        /\ \A o \in Captures : lock'[o] = "none" <=> lockedBy'[o] = NoName
  BY <1>e DEF TypeOK, Free
<1>f. DrainOK /\ RestOK => TypeOK'
  BY DEF TypeOK, linkVars, scanVars
<1> HIDE DEF DrainOK, outcomes
<1> DEFINE batched(due) == [c \in Captures |-> IF c \in due THEN attempts[c] + 1 ELSE 0]
<1>1. ASSUME ClaimDueReports(d) PROVE TypeOK'
  <2>1. PICK due \in SUBSET Captures :
          /\ lock' = [c \in Captures |-> IF c \in due THEN "fresh" ELSE lock[c]]
          /\ lockedBy' = [c \in Captures |-> IF c \in due THEN WorkerName[d] ELSE lockedBy[c]]
          /\ attempts' = [c \in Captures |-> IF c \in due THEN attempts[c] + 1 ELSE attempts[c]]
          /\ drain' = [drain EXCEPT ![d] = Between("next", batched(due))]
    BY <1>1 DEF ClaimDueReports
  <2>2. batched(due) \in [Captures -> Nat]
    BY DEF TypeOK
  <2> HIDE DEF batched
  <2>3. DrainOK
    BY <2>1, <2>2, <1>b
  <2>4. RestOK
    BY <1>1, <2>1, <1>0 DEF ClaimDueReports, TypeOK, linkVars, scanVars, ytVars
  <2> QED BY <2>3, <2>4, <1>f
<1>2. ASSUME Answered(d) PROVE TypeOK'
  <2>1. drain[d].at \in Captures
    BY <1>2, <1>0 DEF Answered, Underway
  <2>2. PICK verdict \in Judged(drain[d].at) : Records(drain[d].at, verdict) /\ Heard(d, verdict, FALSE)
    BY <1>2 DEF Answered
  <2>3. DrainOK
    BY <2>1, <2>2, <1>d, <1>a DEF Heard, Underway
  <2>4. RestOK
    BY <1>2, <2>1, <2>2, <1>d DEF Answered, TypeOK, linkVars, scanVars, rowVars
  <2> QED BY <2>3, <2>4, <1>f
<1>3. ASSUME NotServed(d) PROVE TypeOK'
  <2>1. drain[d].at \in Captures
    BY <1>3, <1>0 DEF NotServed, Underway
  <2>2. "retry" \in outcomes /\ "failed" \in outcomes
    BY DEF outcomes, Outcomes
  <2>3. DrainOK
    BY <1>3, <2>1, <2>2, <1>a DEF NotServed, Heard, Underway
  <2>4. RestOK
    BY <1>3 DEF NotServed, TypeOK, linkVars, scanVars, rowVars, ytVars
  <2> QED BY <2>3, <2>4, <1>f
<1>4. ASSUME TimesOut(d) PROVE TypeOK'
  <2>1. drain[d].at \in Captures
    BY <1>4, <1>0 DEF TimesOut, Underway
  <2>2. "retry" \in outcomes
    BY DEF outcomes
  <2>3. DrainOK
    BY <1>4, <2>1, <2>2, <1>a DEF TimesOut, Heard, Underway
  <2>4. paid' \subseteq Captures /\ answer' \in [Captures -> {"none"} \cup LedgerAnswers] /\ late' \subseteq Captures
    BY <1>4, <2>1, <1>d DEF TimesOut, TypeOK
  <2>5. RestOK
    BY <1>4, <2>4 DEF TimesOut, TypeOK, linkVars, scanVars, rowVars
  <2> QED BY <2>3, <2>5, <1>f
<1>5. ASSUME FinishReport(d) PROVE TypeOK'
  <2> DEFINE c == drain[d].at
  <2>1. c \in Captures /\ drain[d].pc \in Underway
    BY <1>5, <1>0 DEF FinishReport, Underway
  <2>2. Final(d) \in outcomes /\ "link_broken" \in outcomes
    BY <1>0 DEF Final, GivenUp, outcomes, Outcomes, LedgerAnswers, DrainRecord
  <2>3. DrainOK
    <3>1. CASE At(d, "marking", c, "link_broken", FALSE)
      BY <3>1, <2>1, <2>2, <1>a DEF Underway
    <3>2. CASE drain' = [drain EXCEPT ![d] = After(d, "next")]
      BY <3>2, <2>1, <1>c
    <3> QED BY <1>5, <3>1, <3>2 DEF FinishReport
  <2>4. /\ lock' \in [Captures -> {"none", "fresh", "stale"}]
        /\ lockedBy' \in [Captures -> Names \cup {NoName}]
        /\ \A o \in Captures : lock'[o] = "none" <=> lockedBy'[o] = NoName
    BY <1>5, <2>1, <1>e DEF FinishReport, TypeOK
  <2>5. status' \in [Captures -> {"none", "skipped", "pending"} \cup Outcomes]
    <3>1. CASE status' = status
      BY <3>1 DEF TypeOK
    <3>2. CASE status' = [status EXCEPT ![c] = Final(d)] /\ Fenced(d, c)
      <4>1. Final(d) # "none" => Final(d) \in Outcomes
        BY <2>2, <1>5 DEF outcomes, FinishReport
      <4>2. Final(d) \in {"none"} \cup Outcomes
        BY <4>1
      <4> HIDE DEF c
      <4> QED BY <3>2, <2>1, <4>2 DEF TypeOK
    <3> QED BY <1>5, <3>1, <3>2 DEF FinishReport
  <2>6. RestOK
    BY <1>5, <2>4, <2>5 DEF FinishReport, TypeOK, linkVars, scanVars, ytVars
  <2> QED BY <2>3, <2>6, <1>f
<1>6. ASSUME RescheduleReport(d) PROVE TypeOK'
  <2> DEFINE c == drain[d].at
  <2>1. c \in Captures /\ drain[d].pc \in Underway
    BY <1>6, <1>0 DEF RescheduleReport, Underway
  <2>2. DrainOK
    BY <1>6, <2>1, <1>c DEF RescheduleReport
  <2>3. /\ lock' \in [Captures -> {"none", "fresh", "stale"}]
        /\ lockedBy' \in [Captures -> Names \cup {NoName}]
        /\ \A o \in Captures : lock'[o] = "none" <=> lockedBy'[o] = NoName
    BY <1>6, <2>1, <1>e DEF RescheduleReport, TypeOK
  <2>4. RestOK
    BY <1>6, <2>3 DEF RescheduleReport, TypeOK, linkVars, scanVars, ytVars
  <2> QED BY <2>2, <2>4, <1>f
<1> DEFINE nothing == [c \in Captures |-> 0]
<1>7. nothing \in [Captures -> Nat] /\ Resting = Between("idle", nothing)
  BY DEF Resting
<1> HIDE DEF nothing
<1>8. ASSUME ReleaseUnattempted(d) PROVE TypeOK'
  <2>1. DrainOK
    BY <1>8, <1>7, <1>b DEF ReleaseUnattempted
  <2>2. RestOK
    BY <1>8, <1>0 DEF ReleaseUnattempted, TypeOK, linkVars, scanVars, ytVars
  <2> QED BY <2>1, <2>2, <1>f
<1>9. ASSUME MarkLinkBroken(d) PROVE TypeOK'
  <2>1. drain[d].at \in Captures /\ "link_broken" \in outcomes
    BY <1>9, <1>0 DEF MarkLinkBroken, Underway, outcomes, Outcomes, LedgerAnswers
  <2>2. DrainOK
    BY <1>9, <2>1, <1>a DEF MarkLinkBroken, Underway
  <2>3. link' \in [Requests -> {"none", "live", "revoked", "broken"}]
    BY <1>9 DEF MarkLinkBroken, TypeOK
  <2> QED BY <1>9, <2>2, <2>3 DEF MarkLinkBroken, TypeOK, DrainOK, scanVars, rowVars, ytVars
<1>10. ASSUME CancelPendingForLink(d) PROVE TypeOK'
  <2>1. DrainOK
    BY <1>10, <1>c DEF CancelPendingForLink, Underway
  <2>2. RestOK
    BY <1>10 DEF CancelPendingForLink, TypeOK, linkVars, scanVars, ytVars, Outcomes
  <2> QED BY <2>1, <2>2, <1>f
<1>11. ASSUME Crash(d) PROVE TypeOK'
  <2>1. DrainOK
    BY <1>11, <1>7, <1>b DEF Crash
  <2>2. RestOK
    BY <1>11, <1>0, ConstantsAssumption DEF Crash, TypeOK, linkVars, scanVars, rowVars, ytVars, Underway
  <2> QED BY <2>1, <2>2, <1>f
<1>12. ASSUME NEW c \in Captures, IsLinkLive(d, c) PROVE TypeOK'
  <2>1. "none" \in outcomes /\ "cancelled" \in outcomes
    BY DEF outcomes, Outcomes
  <2>2. DrainOK
    BY <1>12, <2>1, <1>a DEF IsLinkLive, Underway
  <2>3. RestOK
    BY <1>12 DEF IsLinkLive, TypeOK, linkVars, scanVars, rowVars, ytVars
  <2> QED BY <2>2, <2>3, <1>f
<1>13. QED BY <1>1, <1>2, <1>3, <1>4, <1>5, <1>6, <1>8, <1>9, <1>10, <1>11, <1>12 DEF Drain

LEMMA NextTypes == TypeOK /\ [Next]_vars => TypeOK'
<1> SUFFICES ASSUME TypeOK, [Next]_vars PROVE TypeOK' OBVIOUS
<1>1. CASE UNCHANGED vars
  BY <1>1 DEF vars, linkVars, scanVars, rowVars, ytVars, TypeOK
<1>2. CASE Next
  BY <1>2, LinkTypes, ScanTypes, DrainTypes DEF Next
<1>3. QED BY <1>1, <1>2

(* Every row, link and drain keeps its type.                               *)
THEOREM TypeCorrect == Spec => []TypeOK
BY InitType, NextTypes, PTL DEF Spec

---------------------------------------------------------------------------
(* The inductive invariant.                                                *)

(* What every step does to links: a row that is there stays, one that is   *)
(* over stays over, and a link YourTal has ended is not renewed.           *)
Onward ==
  \A r \in Requests :
    /\ link[r] # "none" => link'[r] # "none" /\ issued'[r] = issued[r]
    /\ link[r] \in Ended => link'[r] \in Ended
    /\ link[r] # "none" /\ issued[r] \notin ytLive => issued'[r] \notin ytLive'

LEMMA InitInv == Init => LinkInv /\ RowInv /\ DrainInv
BY ConstantsAssumption DEF Init, LinkInv, RowInv, DrainInv, Queued, Ended, LedgerAnswers, Resting, Between, Batch, Honest, Underway

LEMMA LinkKept ==
  ASSUME TypeOK, LinkInv, (\E r \in Requests : LinkStep(r)) \/ (\E u \in Users : UnlinkStep(u))
  PROVE  LinkInv' /\ Onward
<1> DEFINE LinkTypeOK ==
      /\ link \in [Requests -> {"none", "live", "revoked", "broken"}]
      /\ issued \in [Requests -> Requests \cup {NoLink}]
      /\ req \in [Requests -> {"idle", "exchanging", "inserting", "raced", "revoking", "over"}]
      /\ unlink \in [Users -> [pc : {"idle", "revoking", "marking"}, row : Requests \cup {NoLink}]]
      /\ ytLive \subseteq Requests /\ NoLink \notin Requests
<1>0. LinkTypeOK
  BY ConstantsAssumption DEF TypeOK
<1> USE <1>0 DEF LinkInv, Onward, Ended, LiveRows, Goes, Exchanged, UnlinkOver
<1>1. ASSUME NEW r \in Requests, BeginLink(r) PROVE LinkInv' /\ Onward
  BY <1>1 DEF BeginLink, linkVars
<1>2. ASSUME NEW r \in Requests, ExchangeLinkCode(r) PROVE LinkInv' /\ Onward
  <2>1. /\ req[r] = "exchanging" /\ req' = [req EXCEPT ![r] = "inserting"] /\ link' = link /\ unlink' = unlink
        /\ link[r] = "none" /\ r \notin ytLive
    BY <1>2 DEF ExchangeLinkCode
  <2>2. PICK i \in Requests : /\ issued' = [issued EXCEPT ![r] = i]
                              /\ \/ i = r /\ ytLive' = ytLive \cup {r}
                                 \/ i \in ytLive /\ ytLive' = ytLive
    <3>1. CASE ytLive' = ytLive \cup {r} /\ issued' = [issued EXCEPT ![r] = r]
      <4> HIDE DEF LinkInv
      <4> WITNESS r \in Requests
      <4> QED BY <3>1
    <3>2. CASE \E i \in Exchanged(r) : issued' = [issued EXCEPT ![r] = i] /\ ytLive' = ytLive
      <4>1. PICK i \in Exchanged(r) : issued' = [issued EXCEPT ![r] = i] /\ ytLive' = ytLive
        BY <3>2
      <4> QED BY <4>1
    <3> QED BY <1>2, <3>1, <3>2 DEF ExchangeLinkCode
  <2> HIDE DEF LinkInv
  <2>3. Onward
    BY <2>1, <2>2 DEF LinkInv
  <2>4. \A q \in Requests : req'[q] \in {"idle", "exchanging"} =>
          q \notin ytLive' /\ \A p \in Requests : issued'[p] # q
    BY <2>1, <2>2 DEF LinkInv
  <2>5. /\ \A q \in Requests : req'[q] # "over" => link'[q] = "none"
        /\ \A q \in Requests : (link'[q] # "none" \/ req'[q] \in {"inserting", "raced", "revoking"}) => issued'[q] \in Requests
    BY <2>1, <2>2 DEF LinkInv
  <2>6. \A q \in Requests : link'[q] \in Ended => issued'[q] \notin ytLive'
    BY <2>1, <2>2 DEF LinkInv
  <2>7. /\ \A u \in Users : unlink'[u].pc # "idle" => unlink'[u].row \in Requests /\ link'[unlink'[u].row] # "none"
        /\ \A u \in Users : unlink'[u].pc = "marking" => issued'[unlink'[u].row] \notin ytLive'
    BY <2>1, <2>2 DEF LinkInv
  <2> QED BY <2>3, <2>4, <2>5, <2>6, <2>7 DEF LinkInv
<1>3. ASSUME NEW r \in Requests, ExchangeFails(r) PROVE LinkInv' /\ Onward
  BY <1>3 DEF ExchangeFails, linkVars
<1>4. ASSUME NEW r \in Requests, InsertLink(r) PROVE LinkInv' /\ Onward
  <2>1. /\ req[r] = "inserting" /\ issued' = issued /\ unlink' = unlink /\ ytLive' = ytLive
        /\ link[r] = "none" /\ issued[r] \in Requests
    BY <1>4 DEF InsertLink
  <2>2. \/ link' = link /\ req' \in {[req EXCEPT ![r] = "raced"], [req EXCEPT ![r] = "over"]}
        \/ link' = [link EXCEPT ![r] = "live"] /\ req' = [req EXCEPT ![r] = "over"]
    BY <1>4 DEF InsertLink
  <2>3. CASE link' = link /\ req' \in {[req EXCEPT ![r] = "raced"], [req EXCEPT ![r] = "over"]}
    BY <2>1, <2>3
  <2>4. CASE link' = [link EXCEPT ![r] = "live"] /\ req' = [req EXCEPT ![r] = "over"]
    BY <2>1, <2>4
  <2> QED BY <2>2, <2>3, <2>4
<1>5. ASSUME NEW r \in Requests, LostRace(r) PROVE LinkInv' /\ Onward
  BY <1>5 DEF LostRace, linkVars
<1>6. ASSUME NEW r \in Requests, RevokeOrphan(r) PROVE LinkInv' /\ Onward
  BY <1>6 DEF RevokeOrphan, linkVars
<1>7. ASSUME NEW r \in Requests, LinkDies(r) PROVE LinkInv' /\ Onward
  BY <1>7 DEF LinkDies, linkVars
<1>8. ASSUME NEW r \in Requests, RevokeFromYourtal(r) PROVE LinkInv' /\ Onward
  BY <1>8 DEF RevokeFromYourtal, linkVars
<1>9. ASSUME NEW u \in Users, BeginUnlink(u) PROVE LinkInv' /\ Onward
  BY <1>9 DEF BeginUnlink
<1>10. ASSUME NEW u \in Users, RevokeLinkAtYourtal(u) PROVE LinkInv' /\ Onward
  <2>1. /\ unlink[u].pc = "revoking" /\ unlink[u].row \in Requests /\ link[unlink[u].row] # "none"
        /\ link' = link /\ issued' = issued /\ req' = req /\ ytLive' \subseteq ytLive
    BY <1>10 DEF RevokeLinkAtYourtal
  <2>2. /\ unlink'[u].pc \in {"marking", "idle"}
        /\ unlink'[u].pc = "marking" => unlink'[u].row = unlink[u].row /\ issued[unlink[u].row] \notin ytLive'
        /\ \A v \in Users \ {u} : unlink'[v] = unlink[v]
    BY <1>10 DEF RevokeLinkAtYourtal
  <2> QED BY <2>1, <2>2
<1>11. ASSUME NEW u \in Users, MarkLinkRevoked(u) PROVE LinkInv' /\ Onward
  BY <1>11 DEF MarkLinkRevoked
<1>12. QED BY <1>1, <1>2, <1>3, <1>4, <1>5, <1>6, <1>7, <1>8, <1>9, <1>10, <1>11 DEF LinkStep, UnlinkStep

(* A step that only moves links onward keeps what rows and drains know.    *)
LEMMA RowsFrame ==
  ASSUME TypeOK, RowInv, Onward, UNCHANGED <<scanVars, rowVars, ytVars>>
  PROVE  RowInv'
BY DEF TypeOK, RowInv, Onward, Queued, scanVars, rowVars, ytVars, Ended

(* What a step may do to reports, as their drains see it: a queued report  *)
(* stays queued, under its link, and YourTal's answer stays.               *)
Steady ==
  /\ \A c \in Captures : Queued(c) => status'[c] \notin {"none", "skipped"} /\ via'[c] = via[c]
  /\ \A c \in Captures : answer[c] # "none" => answer'[c] = answer[c]
  /\ \A r \in Requests : link[r] \in Ended => link'[r] \in Ended

LEMMA StillHonest ==
  ASSUME TypeOK, RowInv, Steady, NEW d \in Drainers, Honest(d), drain'[d] = drain[d]
  PROVE  Honest(d)'
<1>1. drain[d].pc \in Underway => drain[d].at \in Captures /\ Queued(drain[d].at)
  BY DEF TypeOK, Honest
<1>2. \A c \in Captures : Queued(c) => via[c] \in Requests
  BY DEF RowInv
<1>3. \A c \in Batch(d)' : Queued(c)'
  BY DEF Honest, Batch, Queued, Steady
<1>4. drain[d].pc \in Underway => drain[d].at \in Batch(d)'
  BY DEF Honest, Batch
<1>5. /\ drain[d].pc = "finishing" /\ drain[d].outcome \in LedgerAnswers => answer'[drain[d].at] = drain[d].outcome
      /\ drain[d].pc \in {"marking", "cancelling"} => answer'[drain[d].at] = "link_broken"
  BY <1>1 DEF Honest, Steady, Underway, LedgerAnswers
<1>6. /\ drain[d].pc = "finishing" /\ drain[d].outcome = "cancelled" => link'[via'[drain[d].at]] \in Ended
      /\ drain[d].pc = "cancelling" => link'[via'[drain[d].at]] \in Ended
  BY <1>1, <1>2 DEF Honest, Steady, Underway
<1>7. drain[d].pc = "finishing" => drain[d].outcome # "none"
  BY DEF Honest
<1> QED BY <1>3, <1>4, <1>5, <1>6, <1>7 DEF Honest, Ended

(* A drain that is with no report.                                         *)
LEMMA RestHonest ==
  ASSUME NEW d \in Drainers, drain'[d].pc \notin Underway,
         \A c \in Captures : drain'[d].batch[c] > 0 => status'[c] \notin {"none", "skipped"}
  PROVE  Honest(d)'
BY DEF Honest, Underway, Batch, Queued

LEMMA DrainsFrame ==
  ASSUME TypeOK, RowInv, DrainInv, Onward, UNCHANGED <<drain, rowVars, ytVars>>
  PROVE  DrainInv'
<1>1. Steady
  BY DEF Onward, Steady, Queued, rowVars, ytVars
<1> QED BY <1>1, StillHonest DEF DrainInv

(* What YourTal's taking of a report changes.                              *)
LEMMA RecordsEffect ==
  ASSUME TypeOK, RowInv, NEW c \in Captures, Queued(c), NEW verdict \in Judged(c), Records(c, verdict)
  PROVE  /\ verdict \in LedgerAnswers /\ answer'[c] = verdict
         /\ \A o \in Captures : answer[o] # "none" => answer'[o] = answer[o]
         /\ \A o \in Captures : answer'[o] # "none" => Queued(o)
         /\ \A o \in Captures : answer'[o] = "link_broken" => issued[via[o]] \notin ytLive
         /\ \A o \in Captures : o \in paid' <=> answer'[o] = "sent"
         /\ \A o \in Captures : answer'[o] = "duplicate" => \E e \in paid' \ {o} : Ref[e] = Ref[o]
<1>1. verdict \in LedgerAnswers /\ (answer[c] # "none" => verdict = answer[c])
  BY DEF Judged, TypeOK, LedgerAnswers
<1>2. /\ answer \in [Captures -> {"none"} \cup LedgerAnswers] /\ answer' = [answer EXCEPT ![c] = verdict]
      /\ paid' = IF verdict = "sent" THEN paid \cup {c} ELSE paid
      /\ paid \subseteq Captures
  BY DEF Records, TypeOK
<1>3. answer'[c] = verdict /\ \A o \in Captures \ {c} : answer'[o] = answer[o]
  BY <1>2
<1>4. verdict = "link_broken" => issued[via[c]] \notin ytLive
  BY <1>1 DEF Judged, RowInv
<1>5. \A o \in Captures : o \in paid <=> answer[o] = "sent"
  BY DEF RowInv
<1>6. verdict = "duplicate" => \E e \in paid \ {c} : Ref[e] = Ref[c]
  <2>1. CASE answer[c] # "none"
    BY <2>1, <1>1 DEF RowInv
  <2>2. CASE answer[c] = "none"
    BY <2>2, <1>5 DEF Judged
  <2> QED BY <2>1, <2>2
<1>7. \A o \in Captures : o \in paid' <=> answer'[o] = "sent"
  BY <1>2, <1>3, <1>5, <1>1
<1>8. \A o \in Captures : answer'[o] = "duplicate" => \E e \in paid' \ {o} : Ref[e] = Ref[o]
  <2>1. \A o \in Captures : answer[o] = "duplicate" => \E e \in paid \ {o} : Ref[e] = Ref[o]
    BY DEF RowInv
  <2> QED BY <1>2, <1>3, <1>6, <2>1
<1>9. \A o \in Captures : /\ answer'[o] # "none" => Queued(o)
                          /\ answer'[o] = "link_broken" => issued[via[o]] \notin ytLive
  BY <1>3, <1>4 DEF RowInv
<1> QED BY <1>1, <1>3, <1>7, <1>8, <1>9

(* The steps of scans, of late requests and of time.                       *)
LEMMA ScanKept ==
  ASSUME TypeOK, LinkInv, RowInv, DrainInv, NEW c \in Captures, ScanStep(c)
  PROVE  LinkInv' /\ RowInv' /\ DrainInv'
<1>0. UNCHANGED linkVars /\ ytLive' = ytLive /\ drain' = drain
  BY DEF ScanStep, SaveExtraction, LiveLink, NotQueued, QueueReceiptReport, LateArrives,
         AbandonedLockAges, HeldLockAges, LockAges
<1>a. LinkInv'
  BY <1>0 DEF LinkInv, linkVars, Ended
<1>b. Steady => DrainInv'
  BY <1>0, StillHonest DEF DrainInv
<1>c. /\ \A o \in Captures : o \in late \/ answer[o] # "none" => Queued(o)
      /\ scan \in [Captures -> {"unread", "saved", "linked", "done"}]
      /\ via \in [Captures -> Requests \cup {NoLink}]
      /\ status \in [Captures -> {"none", "skipped", "pending"} \cup Outcomes]
      /\ answer \in [Captures -> {"none"} \cup LedgerAnswers]
      /\ \A o \in Captures : scan[o] # "done" => ~Queued(o)
  BY DEF RowInv, TypeOK, Queued
<1> USE <1>0, <1>c DEF Queued, linkVars, scanVars, rowVars, ytVars
<1>1. ASSUME SaveExtraction(c) PROVE RowInv' /\ Steady
  BY <1>1 DEF SaveExtraction, RowInv, Ended, Steady
<1>2. ASSUME LiveLink(c) PROVE RowInv' /\ Steady
  <2>1. PICK r \in LiveRows(Owner[c]) : scan' = [scan EXCEPT ![c] = "linked"] /\ via' = [via EXCEPT ![c] = r]
    BY <1>2 DEF LiveLink
  <2>2. r \in Requests /\ link[r] = "live"
    BY DEF LiveRows
  <2>3. ~Queued(c) /\ answer[c] = "none" /\ status' = status /\ UNCHANGED ytVars
    BY <1>2 DEF LiveLink
  <2>4. Steady
    BY <2>1, <2>3 DEF Steady
  <2>5. \A o \in Captures \ {c} : scan'[o] = scan[o] /\ via'[o] = via[o]
    BY <2>1
  <2>6. scan'[c] = "linked" /\ via'[c] = r
    BY <2>1
  <2>7. \A o \in Captures : (scan'[o] = scan[o] /\ via'[o] = via[o]) \/ o = c
    BY <2>5
  <2>8. /\ \A o \in Captures : scan'[o] = "linked" \/ Queued(o) => via'[o] \in Requests /\ link[via'[o]] # "none"
        /\ \A o \in Captures : scan'[o] # "done" => status[o] = "none"
    BY <2>2, <2>3, <2>6, <2>7, <1>2 DEF RowInv, LiveLink
  <2>9. /\ \A o \in Captures : answer[o] = "link_broken" => issued[via'[o]] \notin ytLive
        /\ \A o \in Captures : status[o] = "cancelled" => link[via'[o]] \in Ended
    BY <2>3, <2>7 DEF RowInv
  <2>10. RowInv'
    BY <2>3, <2>8, <2>9 DEF RowInv, Ended
  <2> QED BY <2>4, <2>10
<1>3. ASSUME NotQueued(c) PROVE RowInv' /\ Steady
  <2>1. ~Queued(c) /\ answer[c] = "none" /\ status' = status /\ UNCHANGED ytVars
    BY <1>3 DEF NotQueued
  <2>2. /\ \A o \in Captures \ {c} : scan'[o] = scan[o] /\ via'[o] = via[o]
        /\ scan'[c] = "done"
    BY <1>3 DEF NotQueued
  <2>3. Steady
    BY <2>1, <2>2 DEF Steady
  <2> QED BY <2>1, <2>2, <2>3 DEF RowInv, Ended, LedgerAnswers
<1>4. ASSUME NEW paidScan \in BOOLEAN, QueueReceiptReport(c, paidScan) PROVE RowInv' /\ Steady
  <2>1. scan[c] = "linked" /\ ~Queued(c) /\ answer[c] = "none" /\ c \notin late /\ via' = via /\ UNCHANGED ytVars
    BY <1>4 DEF QueueReceiptReport
  <2>2. /\ \A o \in Captures \ {c} : scan'[o] = scan[o] /\ status'[o] = status[o]
        /\ scan'[c] = "done" /\ status'[c] \in {"pending", "skipped"}
    BY <1>4 DEF QueueReceiptReport
  <2>3. Steady
    BY <2>1, <2>2 DEF Steady
  <2>4. \A o \in Captures : (status'[o] = status[o] /\ scan'[o] = scan[o]) \/ o = c
    BY <2>2
  <2>5. scan[c] = "linked" => via[c] \in Requests /\ link[via[c]] # "none"
    BY DEF RowInv
  <2>6. /\ \A o \in Captures : scan'[o] # "done" => status'[o] = "none"
        /\ \A o \in Captures : scan'[o] = "linked" \/ status'[o] \notin {"none", "skipped"} =>
             via[o] \in Requests /\ link[via[o]] # "none"
    BY <2>1, <2>2, <2>4, <2>5 DEF RowInv
  <2>7. /\ \A o \in Captures : o \in late \/ answer[o] # "none" => status'[o] \notin {"none", "skipped"}
        /\ \A o \in Captures : status'[o] \in LedgerAnswers => answer[o] = status'[o]
        /\ \A o \in Captures : status'[o] = "cancelled" => link[via[o]] \in Ended
    BY <2>1, <2>2, <2>4 DEF RowInv, LedgerAnswers
  <2>8. RowInv'
    BY <2>1, <2>6, <2>7 DEF RowInv, Ended
  <2> QED BY <2>3, <2>8
<1>5. ASSUME LateArrives(c) PROVE RowInv' /\ Steady
  <2>1. PICK verdict \in Judged(c) : Records(c, verdict)
    BY <1>5 DEF LateArrives
  <2>2. Queued(c) /\ late' = late \ {c} /\ UNCHANGED <<scanVars, rowVars>>
    BY <1>5 DEF LateArrives
  <2>3. /\ \A o \in Captures : answer[o] # "none" => answer'[o] = answer[o]
        /\ \A o \in Captures : answer'[o] # "none" => Queued(o)
        /\ \A o \in Captures : answer'[o] = "link_broken" => issued[via[o]] \notin ytLive
        /\ \A o \in Captures : o \in paid' <=> answer'[o] = "sent"
        /\ \A o \in Captures : answer'[o] = "duplicate" => \E e \in paid' \ {o} : Ref[e] = Ref[o]
    BY <2>1, <2>2, RecordsEffect
  <2>4. Steady
    BY <2>2, <2>3 DEF Steady
  <2> QED BY <2>2, <2>3, <2>4 DEF RowInv, Ended, LedgerAnswers
<1>6. ASSUME AbandonedLockAges(c) \/ HeldLockAges(c) PROVE RowInv' /\ Steady
  BY <1>6 DEF AbandonedLockAges, HeldLockAges, LockAges, RowInv, Ended, Steady
<1> QED BY <1>a, <1>b, <1>1, <1>2, <1>3, <1>4, <1>5, <1>6 DEF ScanStep

(* A step that writes at most locks and attempts.                          *)
LEMMA LocksFrame ==
  ASSUME LinkInv, RowInv, UNCHANGED <<linkVars, scanVars, status, via, ytLive, ytVars>>
  PROVE  LinkInv' /\ RowInv' /\ Steady
BY DEF LinkInv, RowInv, Steady, Queued, Ended, linkVars, scanVars, ytVars

(* The answer of YourTal to the report a drain sends.                      *)
LEMMA AnswerKept ==
  ASSUME TypeOK, LinkInv, RowInv, NEW c \in Captures, Queued(c), NEW verdict \in Judged(c), Records(c, verdict),
         UNCHANGED <<linkVars, scanVars, rowVars, ytLive, late>>
  PROVE  LinkInv' /\ RowInv' /\ Steady
<1>1. /\ \A o \in Captures : answer[o] # "none" => answer'[o] = answer[o]
      /\ \A o \in Captures : answer'[o] # "none" => Queued(o)
      /\ \A o \in Captures : answer'[o] = "link_broken" => issued[via[o]] \notin ytLive
      /\ \A o \in Captures : o \in paid' <=> answer'[o] = "sent"
      /\ \A o \in Captures : answer'[o] = "duplicate" => \E e \in paid' \ {o} : Ref[e] = Ref[o]
  BY RecordsEffect
<1>2. Steady
  BY <1>1 DEF Steady, Queued, linkVars, rowVars
<1>3. RowInv'
  BY <1>1 DEF RowInv, Queued, Ended, LedgerAnswers, linkVars, scanVars, rowVars
<1>4. LinkInv'
  BY DEF LinkInv, Ended, linkVars
<1> QED BY <1>2, <1>3, <1>4

(* The end of a report: what its drain heard becomes its row.              *)
LEMMA FinishKept ==
  ASSUME TypeOK, LinkInv, RowInv, NEW d \in Drainers, Honest(d), FinishReport(d)
  PROVE  LinkInv' /\ RowInv' /\ Steady
<1> DEFINE c == drain[d].at
           outcome == Final(d)
<1>1. c \in Captures /\ drain[d].pc = "finishing" /\ UNCHANGED <<linkVars, scanVars, via, ytLive, ytVars>>
  BY DEF FinishReport, Underway, TypeOK
<1>2. /\ outcome \in Outcomes
      /\ outcome \in LedgerAnswers => answer[c] = outcome
      /\ outcome = "cancelled" => link[via[c]] \in Ended
  BY <1>1 DEF FinishReport, Final, GivenUp, Honest, TypeOK, DrainRecord, Outcomes, LedgerAnswers
<1>3. status' = status \/ (status[c] = "pending" /\ status' = [status EXCEPT ![c] = outcome])
  BY DEF FinishReport, Fenced
<1>4. LinkInv'
  BY <1>1 DEF LinkInv, Ended, linkVars
<1>5. CASE status' = status
  BY <1>1, <1>5, LocksFrame
<1>6. CASE status[c] = "pending" /\ status' = [status EXCEPT ![c] = outcome]
  <2>0. status'[c] = outcome /\ (\A o \in Captures : status'[o] = status[o] \/ o = c)
    BY <1>1, <1>6 DEF TypeOK
  <2> HIDE DEF c, outcome
  <2>1. outcome \notin {"none", "skipped"} /\ Queued(c)
    BY <1>2, <1>6 DEF Outcomes, LedgerAnswers, Queued
  <2>2. \A o \in Captures : status'[o] \notin {"none", "skipped"} <=> Queued(o)
    BY <2>0, <2>1 DEF Queued
  <2>3. Steady
    BY <1>1, <2>2 DEF Steady, linkVars, ytVars
  <2>4. \A o \in Captures : status'[o] = "none" <=> status[o] = "none"
    BY <2>0, <2>1, <1>6
  <2>5. /\ \A o \in Captures : status'[o] \in LedgerAnswers => answer[o] = status'[o]
        /\ \A o \in Captures : status'[o] = "cancelled" => link[via[o]] \in Ended
    BY <2>0, <1>2 DEF RowInv
  <2>6. RowInv'
    BY <1>1, <2>2, <2>4, <2>5 DEF RowInv, Queued, Ended, linkVars, scanVars, ytVars
  <2> QED BY <1>4, <2>3, <2>6
<1> QED BY <1>3, <1>5, <1>6

(* The steps of a drain.                                                   *)
LEMMA DrainKept ==
  ASSUME TypeOK, LinkInv, RowInv, DrainInv, NEW d \in Drainers, Drain(d) \/ Crash(d)
  PROVE  LinkInv' /\ RowInv' /\ DrainInv'
<1> DEFINE Rows == LinkInv' /\ RowInv' /\ Steady
           Others == \A e \in Drainers \ {d} : drain'[e] = drain[e]
           c == drain[d].at
           resting == [o \in Captures |-> 0]
<1>a. ASSUME Rows, Others, Honest(d)' PROVE LinkInv' /\ RowInv' /\ DrainInv'
  BY <1>a, StillHonest DEF DrainInv
<1>b. /\ Honest(d) /\ drain[d] \in DrainRecord
      /\ drain[d].pc \in Underway => c \in Captures /\ c \in Batch(d) /\ Queued(c)
      /\ \A o \in Batch(d) : o \in Captures /\ Queued(o)
  BY DEF DrainInv, Honest, TypeOK, Batch
(* With the report in hand, having heard this of it. *)
<1>c. ASSUME NEW o \in Batch(d), NEW pc \in Underway, NEW outcome \in {"none", "retry"} \cup Outcomes,
             NEW pause \in BOOLEAN, At(d, pc, o, outcome, pause), Steady,
             pc = "finishing" => /\ outcome # "none"
                                 /\ outcome \in LedgerAnswers => answer'[o] = outcome
                                 /\ outcome = "cancelled" => link'[via'[o]] \in Ended,
             pc \in {"marking", "cancelling"} => answer'[o] = "link_broken",
             pc = "cancelling" => link'[via'[o]] \in Ended
      PROVE  Others /\ Honest(d)'
  <2>1. /\ drain'[d].pc = pc /\ drain'[d].at = o /\ drain'[d].outcome = outcome
        /\ drain'[d].batch = drain[d].batch /\ Others
    BY <1>b, <1>c, DrainEffects
  <2>2. \A e \in Batch(d)' : Queued(e)'
    BY <1>b, <1>c, <2>1 DEF Batch, Steady, Queued
  <2>3. o \in Batch(d)'
    BY <2>1 DEF Batch
  <2> QED BY <1>c, <2>1, <2>2, <2>3 DEF Honest, Ended
(* Done with the report in hand. *)
<1>d. ASSUME NEW pc \in {"next", "releasing"}, drain[d].pc \in Underway, Steady,
             drain' = [drain EXCEPT ![d] = After(d, pc)]
      PROVE  Others /\ Honest(d)'
  <2>1. drain'[d].pc \notin Underway /\ Others
    BY <1>d, AfterEffect
  <2>2. \A o \in Captures : drain'[d].batch[o] > 0 => o \in Batch(d)
    BY <1>d, AfterEffect DEF Batch
  <2>3. \A o \in Captures : drain'[d].batch[o] > 0 => status'[o] \notin {"none", "skipped"}
    BY <1>b, <1>d, <2>2 DEF Steady
  <2> QED BY <2>1, <2>3, RestHonest
(* Done with the batch. *)
<1>e. resting \in [Captures -> Nat] /\ Resting = Between("idle", resting) /\ \A o \in Captures : ~(resting[o] > 0)
  BY DEF Resting
<1>f. ASSUME drain' = [drain EXCEPT ![d] = Resting] PROVE Others /\ Honest(d)'
  <2> HIDE DEF resting
  <2>1. Others /\ drain'[d].pc = "idle" /\ drain'[d].batch = resting
    BY <1>e, <1>f, DrainEffects
  <2> QED BY <1>e, <2>1, RestHonest DEF Underway
<1> HIDE DEF resting, Rows, Others, c
<1>1. ASSUME ClaimDueReports(d) PROVE LinkInv' /\ RowInv' /\ DrainInv'
  <2> DEFINE batched(due) == [o \in Captures |-> IF o \in due THEN attempts[o] + 1 ELSE 0]
  <2>1. PICK due \in SUBSET {o \in Captures : status[o] = "pending" /\ lock[o] # "fresh"} :
          drain' = [drain EXCEPT ![d] = Between("next", batched(due))]
    BY <1>1 DEF ClaimDueReports
  <2>2. /\ batched(due) \in [Captures -> Nat]
        /\ \A o \in Captures : batched(due)[o] > 0 => status[o] = "pending"
    BY <2>1 DEF TypeOK
  <2>3. UNCHANGED <<linkVars, scanVars, status, via, ytLive, ytVars>>
    BY <1>1 DEF ClaimDueReports
  <2> HIDE DEF batched
  <2>4. Others /\ drain'[d].pc = "next" /\ drain'[d].batch = batched(due)
    BY <2>1, <2>2, DrainEffects DEF Others
  <2>5. Honest(d)'
    BY <2>2, <2>3, <2>4, RestHonest DEF Underway
  <2> QED BY <2>3, <2>4, <2>5, LocksFrame, <1>a DEF Rows
<1>2. ASSUME NEW o \in Captures, IsLinkLive(d, o) PROVE LinkInv' /\ RowInv' /\ DrainInv'
  <2>1. UNCHANGED <<linkVars, scanVars, rowVars, ytLive, ytVars>> /\ o \in Batch(d) /\ Queued(o)
    BY <1>2, <1>b DEF IsLinkLive
  <2>2. Rows
    BY <2>1, LocksFrame DEF Rows, rowVars
  <2>3. CASE At(d, "sending", o, "none", FALSE)
    BY <2>1, <2>2, <2>3, <1>a, <1>c DEF Rows, Underway
  <2>4. CASE link[via[o]] # "live" /\ At(d, "finishing", o, "cancelled", FALSE)
    <3>1. link'[via'[o]] \in Ended
      BY <2>1, <2>4 DEF RowInv, TypeOK, Ended, linkVars, rowVars
    <3> QED BY <2>1, <2>2, <2>4, <3>1, <1>a, <1>c DEF Rows, Underway, Outcomes, LedgerAnswers
  <2> QED BY <1>2, <2>3, <2>4 DEF IsLinkLive
<1>3. ASSUME Answered(d) PROVE LinkInv' /\ RowInv' /\ DrainInv'
  <2>1. c \in Captures /\ c \in Batch(d) /\ Queued(c) /\ UNCHANGED <<linkVars, scanVars, rowVars, ytLive, late>>
    BY <1>3, <1>b DEF Answered, Underway
  <2>2. PICK verdict \in Judged(c) : Records(c, verdict) /\ At(d, "finishing", c, verdict, FALSE)
    BY <1>3 DEF Answered, Heard, c
  <2>3. Rows
    BY <2>1, <2>2, AnswerKept DEF Rows
  <2>4. verdict \in LedgerAnswers /\ answer'[c] = verdict
    BY <2>1, <2>2, RecordsEffect
  <2>5. Others /\ Honest(d)'
    BY <2>1, <2>2, <2>3, <2>4, <1>c DEF Rows, Underway, Outcomes, LedgerAnswers
  <2> QED BY <2>3, <2>5, <1>a
<1>4. ASSUME NotServed(d) PROVE LinkInv' /\ RowInv' /\ DrainInv'
  <2>1. c \in Batch(d) /\ UNCHANGED <<linkVars, scanVars, rowVars, ytLive, ytVars>>
    BY <1>4, <1>b DEF NotServed, Underway
  <2>2. Rows
    BY <2>1, LocksFrame DEF Rows, rowVars
  <2>3. PICK outcome \in {"retry", "failed"}, pause \in BOOLEAN : At(d, "finishing", c, outcome, pause)
    BY <1>4 DEF NotServed, Heard, c
  <2>4. Others /\ Honest(d)'
    BY <2>1, <2>2, <2>3, <1>c DEF Rows, Underway, Outcomes, LedgerAnswers
  <2> QED BY <2>2, <2>4, <1>a
<1>5. ASSUME TimesOut(d) PROVE LinkInv' /\ RowInv' /\ DrainInv'
  <2>1. /\ c \in Captures /\ c \in Batch(d) /\ Queued(c) /\ UNCHANGED <<linkVars, scanVars, rowVars, ytLive>>
        /\ At(d, "finishing", c, "retry", TRUE)
    BY <1>5, <1>b DEF TimesOut, Underway, Heard, c
  <2>2. ASSUME NEW verdict \in Judged(c), Records(c, verdict), late' = late PROVE Rows
    BY <2>1, <2>2, AnswerKept DEF Rows
  <2>3. ASSUME late' = late \cup {c}, UNCHANGED <<paid, answer>> PROVE Rows
    <3>1. Steady
      BY <2>1, <2>3 DEF Steady, Queued, linkVars, rowVars
    <3>2. RowInv'
      BY <2>1, <2>3 DEF RowInv, Queued, Ended, linkVars, scanVars, rowVars
    <3>3. LinkInv'
      BY <2>1 DEF LinkInv, Ended, linkVars
    <3> QED BY <3>1, <3>2, <3>3 DEF Rows
  <2>4. Rows
    BY <1>5, <2>2, <2>3 DEF TimesOut, c
  <2>5. Others /\ Honest(d)'
    BY <2>1, <2>4, <1>c DEF Rows, Underway, LedgerAnswers
  <2> QED BY <2>4, <2>5, <1>a
<1>6. ASSUME FinishReport(d) PROVE LinkInv' /\ RowInv' /\ DrainInv'
  <2>1. /\ drain[d].pc \in Underway /\ drain[d].pc = "finishing" /\ c \in Batch(d)
        /\ UNCHANGED <<linkVars, scanVars, via, ytLive, ytVars>>
    BY <1>6, <1>b DEF FinishReport, Underway
  <2>2. Rows
    BY <1>6, <1>b, FinishKept DEF Rows
  <2>3. CASE Final(d) = "link_broken" /\ At(d, "marking", c, "link_broken", FALSE)
    <3>1. answer'[c] = "link_broken"
      BY <2>1, <2>3, <1>b DEF Final, GivenUp, Honest, LedgerAnswers, ytVars, c
    <3> QED BY <2>1, <2>2, <2>3, <3>1, <1>a, <1>c DEF Rows, Underway, Outcomes, LedgerAnswers
  <2>4. CASE drain' = [drain EXCEPT ![d] = After(d, "next")]
    BY <2>1, <2>2, <2>4, <1>a, <1>d DEF Rows
  <2> QED BY <1>6, <2>3, <2>4 DEF FinishReport, c
<1>7. ASSUME RescheduleReport(d) PROVE LinkInv' /\ RowInv' /\ DrainInv'
  <2>1. /\ drain[d].pc \in Underway /\ UNCHANGED <<linkVars, scanVars, status, via, ytLive, ytVars>>
        /\ \E pc \in {"next", "releasing"} : drain' = [drain EXCEPT ![d] = After(d, pc)]
    BY <1>7 DEF RescheduleReport, Underway
  <2>2. Rows
    BY <2>1, LocksFrame DEF Rows
  <2> QED BY <2>1, <2>2, <1>a, <1>d DEF Rows
<1>8. ASSUME ReleaseUnattempted(d) \/ Crash(d) PROVE LinkInv' /\ RowInv' /\ DrainInv'
  <2>1. UNCHANGED <<linkVars, scanVars, status, via, ytLive, ytVars>> /\ drain' = [drain EXCEPT ![d] = Resting]
    BY <1>8 DEF ReleaseUnattempted, Crash, rowVars
  <2> QED BY <2>1, LocksFrame, <1>a, <1>f DEF Rows
<1>9. ASSUME MarkLinkBroken(d) PROVE LinkInv' /\ RowInv' /\ DrainInv'
  <2> DEFINE r == via[c]
  <2>1. /\ c \in Captures /\ c \in Batch(d) /\ Queued(c) /\ answer[c] = "link_broken"
        /\ UNCHANGED <<issued, req, unlink, scanVars, rowVars, ytLive, ytVars>>
        /\ At(d, "cancelling", c, "link_broken", FALSE)
    BY <1>9, <1>b DEF MarkLinkBroken, Underway, Honest, c
  <2>2. r \in Requests /\ link[r] # "none" /\ issued[r] \notin ytLive
    BY <2>1 DEF RowInv
  <2>3. /\ \A q \in Requests : link'[q] = link[q] \/ (q = r /\ link[r] = "live" /\ link'[q] = "broken")
        /\ link'[r] \in Ended
    BY <1>9, <2>2 DEF MarkLinkBroken, TypeOK, Ended, c
  <2> HIDE DEF r
  <2>4. Onward
    BY <2>1, <2>3 DEF Onward, Ended
  <2>5. Steady
    BY <2>1, <2>4 DEF Onward, Steady, Queued, rowVars, ytVars
  <2>6. LinkInv'
    BY <2>1, <2>2, <2>3 DEF LinkInv, Ended
  <2>7. RowInv'
    BY <2>1, <2>4, RowsFrame
  <2>8. link'[via'[c]] \in Ended /\ answer'[c] = "link_broken"
    BY <2>1, <2>3 DEF rowVars, ytVars, r
  <2>9. Others /\ Honest(d)'
    BY <2>1, <2>5, <2>8, <1>c DEF Underway, Outcomes, LedgerAnswers
  <2> QED BY <2>5, <2>6, <2>7, <2>9, <1>a DEF Rows
<1>10. ASSUME CancelPendingForLink(d) PROVE LinkInv' /\ RowInv' /\ DrainInv'
  <2>1. /\ c \in Captures /\ drain[d].pc \in Underway /\ link[via[c]] \in Ended
        /\ UNCHANGED <<linkVars, scanVars, via, ytLive, ytVars>>
        /\ drain' = [drain EXCEPT ![d] = After(d, "next")]
    BY <1>10, <1>b DEF CancelPendingForLink, Underway, Honest, c
  <2> DEFINE closed(o) == status[o] = "pending" /\ lock[o] = "none" /\ via[o] = via[c] /\ o # c
  <2>0. status' = [o \in Captures |-> IF closed(o) THEN "cancelled" ELSE status[o]]
    BY <1>10 DEF CancelPendingForLink, c
  <2>2. \A o \in Captures : \/ status'[o] = status[o]
                            \/ status[o] = "pending" /\ status'[o] = "cancelled" /\ via[o] = via[c]
    BY <2>0
  <2> HIDE DEF closed
  <2>3. \A o \in Captures : /\ (status'[o] \notin {"none", "skipped"}) <=> Queued(o)
                            /\ (status'[o] = "none") <=> (status[o] = "none")
    BY <2>2 DEF Queued
  <2>4. Steady
    BY <2>1, <2>3 DEF Steady, linkVars, ytVars
  <2>5. /\ \A o \in Captures : status'[o] \in LedgerAnswers => answer[o] = status'[o]
        /\ \A o \in Captures : status'[o] = "cancelled" => link[via[o]] \in Ended
    BY <2>1, <2>2 DEF RowInv, LedgerAnswers
  <2>6. RowInv'
    BY <2>1, <2>3, <2>5 DEF RowInv, Queued, Ended, linkVars, scanVars, ytVars
  <2>7. LinkInv'
    BY <2>1 DEF LinkInv, Ended, linkVars
  <2> QED BY <2>1, <2>4, <2>6, <2>7, <1>a, <1>d DEF Rows
<1> QED BY <1>1, <1>2, <1>3, <1>4, <1>5, <1>6, <1>7, <1>8, <1>9, <1>10 DEF Drain

LEMMA NextInv == IInv /\ [Next]_vars => IInv'
<1> SUFFICES ASSUME IInv, [Next]_vars PROVE IInv' OBVIOUS
<1>1. TypeOK'
  BY NextTypes DEF IInv
<1>2. CASE UNCHANGED vars
  <2>1. LinkInv' /\ RowInv' /\ Steady
    BY <1>2, LocksFrame DEF vars, IInv, rowVars
  <2>2. DrainInv'
    BY <1>2, <2>1, StillHonest DEF vars, IInv, DrainInv
  <2> QED BY <1>1, <2>1, <2>2 DEF IInv
<1>3. CASE (\E r \in Requests : LinkStep(r)) \/ (\E u \in Users : UnlinkStep(u))
  <2>1. UNCHANGED <<scanVars, rowVars, drain, ytVars>>
    BY <1>3 DEF LinkStep, BeginLink, ExchangeLinkCode, ExchangeFails, InsertLink, LostRace, RevokeOrphan, LinkDies,
                RevokeFromYourtal, UnlinkStep, BeginUnlink, RevokeLinkAtYourtal, MarkLinkRevoked
  <2>2. LinkInv' /\ Onward
    BY <1>3, LinkKept DEF IInv
  <2> QED BY <1>1, <2>1, <2>2, RowsFrame, DrainsFrame DEF IInv
<1>4. CASE \E c \in Captures : ScanStep(c)
  BY <1>1, <1>4, ScanKept DEF IInv
<1>5. CASE \E d \in Drainers : Drain(d) \/ Crash(d)
  BY <1>1, <1>5, DrainKept DEF IInv
<1> QED BY <1>2, <1>3, <1>4, <1>5 DEF Next

(* Rows, links, drains and YourTal's answers agree in every state.         *)
THEOREM AlwaysIInv == Spec => []IInv
<1>1. Init => IInv
  BY InitType, InitInv DEF IInv
<1> QED BY <1>1, NextInv, PTL DEF Spec

---------------------------------------------------------------------------
(* The properties.                                                         *)

(* A link that is live at YourTal is known here.                           *)
LEMMA NextRemembers == IInv /\ NoForgottenLink /\ [Next]_vars => NoForgottenLink'
<1> SUFFICES ASSUME IInv, NoForgottenLink, [Next]_vars PROVE NoForgottenLink'
  OBVIOUS
<1> DEFINE LinkTypeOK ==
      /\ link \in [Requests -> {"none", "live", "revoked", "broken"}]
      /\ issued \in [Requests -> Requests \cup {NoLink}]
      /\ req \in [Requests -> {"idle", "exchanging", "inserting", "raced", "revoking", "over"}]
      /\ ytLive \subseteq Requests
           Known(i, r) == issued[r] = i /\ (link[r] = "live" \/ req[r] \in {"inserting", "raced", "revoking"})
<1>0. LinkTypeOK /\ LinkInv /\ \A i \in ytLive \ missed : \E r \in Requests : Known(i, r)
  BY DEF IInv, TypeOK, NoForgottenLink
<1> USE <1>0 DEF NoForgottenLink, Goes, LiveRows
<1>1. CASE UNCHANGED <<link, issued, req, ytLive>> /\ missed \subseteq missed'
  BY <1>1
<1>2. ASSUME NEW r \in Requests, ExchangeLinkCode(r) PROVE NoForgottenLink'
  <2>1. /\ req[r] = "exchanging" /\ req' = [req EXCEPT ![r] = "inserting"] /\ link' = link /\ missed' = missed
        /\ link[r] = "none"
    BY <1>2 DEF ExchangeLinkCode, LinkInv, linkVars
  <2>2. \E i \in Requests : /\ issued' = [issued EXCEPT ![r] = i]
                            /\ ytLive' \subseteq ytLive \cup {i}
    BY <1>2 DEF ExchangeLinkCode, Exchanged
  <2> QED BY <2>1, <2>2
<1>3. ASSUME NEW r \in Requests, ExchangeFails(r) PROVE NoForgottenLink'
  BY <1>3 DEF ExchangeFails, Exchanged
<1>4. ASSUME NEW r \in Requests, InsertLink(r) PROVE NoForgottenLink'
  <2>1. /\ req[r] = "inserting" /\ issued' = issued /\ ytLive' = ytLive /\ missed' = missed
    BY <1>4 DEF InsertLink
  <2>2. CASE req' = [req EXCEPT ![r] = "raced"] /\ link' = link
    BY <2>1, <2>2
  <2>3. CASE req' = [req EXCEPT ![r] = "over"] /\ link' = [link EXCEPT ![r] = "live"]
    BY <2>1, <2>3
  <2>4. CASE /\ req' = [req EXCEPT ![r] = "over"] /\ link' = link
             /\ \E q \in Requests : link[q] = "live" /\ issued[q] = issued[r]
    BY <2>1, <2>4
  <2> QED BY <1>4, <2>2, <2>3, <2>4 DEF InsertLink
<1>5. ASSUME NEW r \in Requests, LostRace(r) PROVE NoForgottenLink'
  <2>1. /\ req[r] = "raced" /\ UNCHANGED <<link, issued, ytLive, missed>>
    BY <1>5 DEF LostRace
  <2>2. CASE req' = [req EXCEPT ![r] = "revoking"]
    BY <2>1, <2>2
  <2>3. CASE req' = [req EXCEPT ![r] = "over"] /\ \E q \in Requests : link[q] = "live" /\ issued[q] = issued[r]
    BY <2>1, <2>3
  <2> QED BY <1>5, <2>2, <2>3 DEF LostRace
<1>6. ASSUME NEW r \in Requests, RevokeOrphan(r) PROVE NoForgottenLink'
  BY <1>6 DEF RevokeOrphan
<1>7. ASSUME NEW r \in Requests, LinkDies(r) PROVE NoForgottenLink'
  BY <1>7 DEF LinkDies
<1>8. ASSUME NEW r \in Requests, BeginLink(r) PROVE NoForgottenLink'
  BY <1>8 DEF BeginLink
<1>9. CASE UNCHANGED <<link, issued, req, missed>> /\ ytLive' \subseteq ytLive
  BY <1>9
(* A row is marked as over only after YourTal ended its link. *)
<1>10. ASSUME NEW q \in Requests, link' \in {[link EXCEPT ![q] = "revoked"], [link EXCEPT ![q] = "broken"]},
              issued[q] \notin ytLive, UNCHANGED <<issued, req, ytLive, missed>>
       PROVE  NoForgottenLink'
  BY <1>10
<1>11. ASSUME NEW u \in Users, UnlinkStep(u) PROVE NoForgottenLink'
  <2>1. CASE BeginUnlink(u)
    BY <2>1, <1>1 DEF BeginUnlink
  <2>2. CASE RevokeLinkAtYourtal(u)
    <3>1. UNCHANGED <<link, issued, req, missed>> /\ ytLive' \subseteq ytLive
      BY <2>2 DEF RevokeLinkAtYourtal
    <3> QED BY <3>1, <1>9
  <2>3. CASE MarkLinkRevoked(u)
    <3>1. /\ unlink[u].row \in Requests /\ issued[unlink[u].row] \notin ytLive
          /\ link' = [link EXCEPT ![unlink[u].row] = "revoked"] /\ UNCHANGED <<issued, req, ytLive, missed>>
      BY <2>3 DEF MarkLinkRevoked, LinkInv
    <3> QED BY <3>1, <1>10
  <2> QED BY <1>11, <2>1, <2>2, <2>3 DEF UnlinkStep
<1>12. ASSUME NEW d \in Drainers, MarkLinkBroken(d) PROVE NoForgottenLink'
  <2> DEFINE c == drain[d].at
  <2>1. c \in Captures /\ answer[c] = "link_broken"
    BY <1>12 DEF IInv, DrainInv, Honest, MarkLinkBroken, Underway, TypeOK
  <2>2. via[c] \in Requests /\ issued[via[c]] \notin ytLive
    BY <2>1 DEF IInv, RowInv
  <2>3. link' = link \/ link' = [link EXCEPT ![via[c]] = "broken"]
    BY <1>12 DEF MarkLinkBroken
  <2>4. UNCHANGED <<issued, req, ytLive, missed>>
    BY <1>12 DEF MarkLinkBroken
  <2> QED BY <2>2, <2>3, <2>4, <1>1, <1>10
<1>13. ASSUME NEW d \in Drainers, Drain(d) \/ Crash(d), ~MarkLinkBroken(d) PROVE NoForgottenLink'
  <2>1. UNCHANGED <<link, issued, req, ytLive>> /\ missed \subseteq missed'
    BY <1>13 DEF Drain, Crash, ClaimDueReports, Answered, NotServed, TimesOut, FinishReport, RescheduleReport,
                 ReleaseUnattempted, CancelPendingForLink, IsLinkLive, linkVars
  <2> QED BY <2>1, <1>1
<1>14. ASSUME NEW c \in Captures, ScanStep(c) PROVE NoForgottenLink'
  <2>1. UNCHANGED <<link, issued, req, ytLive, missed>>
    BY <1>14 DEF ScanStep, SaveExtraction, LiveLink, NotQueued, QueueReceiptReport, LateArrives,
                 AbandonedLockAges, HeldLockAges, LockAges, linkVars
  <2> QED BY <2>1, <1>1
<1>15. ASSUME NEW i \in Requests, RevokeFromYourtal(i) PROVE NoForgottenLink'
  BY <1>15, <1>9 DEF RevokeFromYourtal, linkVars
<1>16. CASE UNCHANGED vars
  BY <1>16, <1>1 DEF vars, linkVars
<1>17. CASE \E r \in Requests : LinkStep(r)
  BY <1>17, <1>2, <1>3, <1>4, <1>5, <1>6, <1>7, <1>8, <1>15 DEF LinkStep
<1> QED BY <1>11, <1>12, <1>13, <1>14, <1>16, <1>17 DEF Next

(* A link that is live at YourTal is known here, whoever links what, any   *)
(* number of accounts sharing a YourTal account included.                  *)
THEOREM LinksRemembered == Spec => []NoForgottenLink
<1>1. Init => NoForgottenLink
  BY DEF Init, NoForgottenLink
<1> QED BY <1>1, NextRemembers, AlwaysIInv, PTL DEF Spec

(* A report earns at its first answer, under a live link, for a receipt    *)
(* that has not earned.                                                    *)
Earns(c) ==
  /\ paid' = paid \cup {c} /\ Queued(c) /\ answer[c] = "none"
  /\ issued[via[c]] \in ytLive /\ \A o \in paid : Ref[o] # Ref[c]

LEMMA RecordsEarns ==
  ASSUME IInv, NEW c \in Captures, Queued(c), NEW verdict \in Judged(c), Records(c, verdict)
  PROVE  paid' = paid \/ Earns(c)
<1>1. verdict = "sent" /\ answer[c] # "none" => c \in paid
  BY DEF Judged, IInv, RowInv
<1>2. verdict = "sent" /\ answer[c] = "none" => issued[via[c]] \in ytLive /\ \A o \in paid : Ref[o] # Ref[c]
  <2> SUFFICES ASSUME verdict = "sent", answer[c] = "none"
               PROVE  issued[via[c]] \in ytLive /\ \A o \in paid : Ref[o] # Ref[c]
    OBVIOUS
  <2>1. issued[via[c]] \in ytLive
    BY DEF Judged
  <2>2. ~\E o \in paid : Ref[o] = Ref[c]
    BY <2>1 DEF Judged
  <2> QED BY <2>1, <2>2
<1> QED BY <1>1, <1>2 DEF Records, Earns

LEMMA PaidWhen ==
  ASSUME IInv, [Next]_vars, paid' # paid
  PROVE  UNCHANGED status /\ \E c \in Captures : Earns(c)
<1>1. CASE \E c \in Captures : LateArrives(c)
  <2>1. PICK c \in Captures : LateArrives(c)
    BY <1>1
  <2>2. PICK verdict \in Judged(c) : Records(c, verdict)
    BY <2>1 DEF LateArrives
  <2>3. Queued(c)
    BY <2>1 DEF LateArrives, IInv, RowInv
  <2> QED BY <2>1, <2>2, <2>3, RecordsEarns DEF LateArrives, rowVars
<1>2. CASE \E d \in Drainers : Answered(d) \/ TimesOut(d)
  <2>1. PICK d \in Drainers : Answered(d) \/ TimesOut(d)
    BY <1>2
  <2> DEFINE c == drain[d].at
  <2>2. c \in Captures /\ Queued(c)
    BY <2>1 DEF Answered, TimesOut, IInv, DrainInv, Honest, TypeOK, Underway
  <2>3. \E verdict \in Judged(c) : Records(c, verdict)
    BY <2>1 DEF Answered, TimesOut
  <2>4. UNCHANGED status
    BY <2>1 DEF Answered, TimesOut, rowVars
  <2> HIDE DEF c
  <2> QED BY <2>2, <2>3, <2>4, RecordsEarns
<1>3. CASE UNCHANGED vars
  BY <1>3 DEF vars, ytVars
<1>4. CASE \E r \in Requests : LinkStep(r)
  BY <1>4 DEF LinkStep, BeginLink, ExchangeLinkCode, ExchangeFails, InsertLink, LostRace, RevokeOrphan, LinkDies,
              RevokeFromYourtal, ytVars
<1>5. CASE \E u \in Users : UnlinkStep(u)
  BY <1>5 DEF UnlinkStep, BeginUnlink, RevokeLinkAtYourtal, MarkLinkRevoked, ytVars
<1>6. CASE \E c \in Captures : ScanStep(c) /\ ~LateArrives(c)
  BY <1>6 DEF ScanStep, SaveExtraction, LiveLink, NotQueued, QueueReceiptReport,
              AbandonedLockAges, HeldLockAges, LockAges, ytVars
<1>7. CASE \E d \in Drainers : (Drain(d) \/ Crash(d)) /\ ~Answered(d) /\ ~TimesOut(d)
  BY <1>7 DEF Drain, Crash, ClaimDueReports, NotServed, FinishReport, RescheduleReport,
              ReleaseUnattempted, MarkLinkBroken, CancelPendingForLink, IsLinkLive, ytVars
<1> QED BY <1>1, <1>2, <1>3, <1>4, <1>5, <1>6, <1>7 DEF Next

(* Nothing earns under a link that is over here.                           *)
THEOREM UnlinkedEarnsNothing == Spec => NothingAfterUnlink
<1>1. ASSUME IInv, [Next]_vars, NEW c \in paid' \ paid PROVE link[via[c]] \notin {"revoked", "broken"}
  <2>1. PICK e \in Captures : Earns(e)
    BY <1>1, PaidWhen
  <2>2. c \in Captures /\ Earns(c)
    <3>1. c = e
      BY <1>1, <2>1 DEF Earns
    <3> QED BY <2>1, <3>1
  <2>3. Queued(c) /\ issued[via[c]] \in ytLive
    BY <2>2 DEF Earns
  <2>4. via[c] \in Requests
    <3>1. \A o \in Captures : scan[o] = "linked" \/ Queued(o) => via[o] \in Requests /\ link[via[o]] # "none"
      BY <1>1 DEF IInv, RowInv
    <3> QED BY <2>2, <2>3, <3>1
  <2> QED BY <1>1, <2>3, <2>4 DEF IInv, LinkInv, Ended
<1>2. IInv /\ [Next]_vars => [\A c \in paid' \ paid : link[via[c]] \notin {"revoked", "broken"}]_vars
  BY <1>1
<1> QED BY <1>2, AlwaysIInv, PTL DEF Spec, NothingAfterUnlink

(* What becomes of a report's row in one step.                             *)
LEMMA ToldWhen ==
  ASSUME IInv, [Next]_vars, status' # status
  PROVE  \/ \E c \in Captures : /\ status[c] = "none" /\ paid' = paid
                               /\ \E as \in {"pending", "skipped"} : status' = [status EXCEPT ![c] = as]
         \/ \E d \in Drainers : FinishReport(d) \/ CancelPendingForLink(d)
<1>1. CASE \E c \in Captures : ScanStep(c)
  <2>1. PICK c \in Captures : \E paidScan \in BOOLEAN : QueueReceiptReport(c, paidScan)
    BY <1>1 DEF ScanStep, SaveExtraction, LiveLink, NotQueued, LateArrives, AbandonedLockAges, HeldLockAges,
                LockAges, rowVars
  <2>2. status[c] = "none" /\ paid' = paid
    BY <2>1 DEF QueueReceiptReport, IInv, RowInv, ytVars
  <2>3. \E as \in {"pending", "skipped"} : status' = [status EXCEPT ![c] = as]
    BY <2>1 DEF QueueReceiptReport
  <2> QED BY <2>2, <2>3
<1>2. CASE \E d \in Drainers : Drain(d) \/ Crash(d)
  BY <1>2 DEF Drain, Crash, ClaimDueReports, Answered, NotServed, TimesOut, RescheduleReport,
              ReleaseUnattempted, MarkLinkBroken, IsLinkLive, rowVars
<1>3. CASE \E r \in Requests : LinkStep(r)
  BY <1>3 DEF LinkStep, BeginLink, ExchangeLinkCode, ExchangeFails, InsertLink, LostRace, RevokeOrphan, LinkDies,
              RevokeFromYourtal, rowVars
<1>4. CASE \E u \in Users : UnlinkStep(u)
  BY <1>4 DEF UnlinkStep, BeginUnlink, RevokeLinkAtYourtal, MarkLinkRevoked, rowVars
<1>5. CASE UNCHANGED vars
  BY <1>5 DEF vars, rowVars
<1> QED BY <1>1, <1>2, <1>3, <1>4, <1>5 DEF Next

(* A report closed as link_broken comes with its link marked.              *)
LEMMA NextMarks == IInv /\ BrokenIsMarked /\ [Next]_vars => BrokenIsMarked'
<1> SUFFICES ASSUME IInv, BrokenIsMarked, [Next]_vars, NEW c \in Captures, status'[c] = "link_broken"
             PROVE  \/ link'[via'[c]] # "live" \/ via'[c] \in missed'
                    \/ \E d \in Drainers : drain'[d].pc = "marking" /\ drain'[d].at = c
  BY DEF BrokenIsMarked
<1> DEFINE Told == link[via[c]] # "live" \/ via[c] \in missed
           ToBeTold == \E d \in Drainers : drain[d].pc = "marking" /\ drain[d].at = c
<1>1. CASE status[c] # "link_broken"
  <2>1. PICK d \in Drainers : FinishReport(d)
    <3>1. ~(\E e \in Captures : \E as \in {"pending", "skipped"} : status' = [status EXCEPT ![e] = as])
      BY <1>1 DEF IInv, TypeOK
    <3>2. ~(\E d \in Drainers : CancelPendingForLink(d))
      BY <1>1 DEF CancelPendingForLink
    <3> QED BY <1>1, <3>1, <3>2, ToldWhen
  <2>2. drain[d].at = c /\ Final(d) = "link_broken"
    BY <1>1, <2>1 DEF FinishReport, IInv, TypeOK
  <2>3. At(d, "marking", c, "link_broken", FALSE)
    BY <2>1, <2>2 DEF FinishReport
  <2> QED BY <2>3 DEF At, IInv, TypeOK
<1>2. CASE status[c] = "link_broken"
  <2>1. via[c] \in Requests /\ link[via[c]] # "none" /\ scan[c] = "done" /\ (Told \/ ToBeTold)
    <3>1. Queued(c) /\ status[c] # "none"
      BY <1>2 DEF Queued
    <3>2. \A o \in Captures : /\ scan[o] = "linked" \/ Queued(o) => via[o] \in Requests /\ link[via[o]] # "none"
                              /\ scan[o] # "done" => status[o] = "none"
      BY DEF IInv, RowInv
    <3>3. Told \/ ToBeTold
      BY <1>2 DEF BrokenIsMarked
    <3> QED BY <3>1, <3>2, <3>3
  <2>2. via'[c] = via[c]
    <3>1. CASE \E o \in Captures : LiveLink(o) \/ NotQueued(o)
      BY <2>1, <3>1 DEF LiveLink, NotQueued, IInv, TypeOK
    <3>2. CASE via' = via
      BY <3>2
    <3> QED BY <3>1, <3>2 DEF Next, LinkStep, BeginLink, ExchangeLinkCode, ExchangeFails, InsertLink, LostRace,
       RevokeOrphan, LinkDies, RevokeFromYourtal, UnlinkStep, BeginUnlink, RevokeLinkAtYourtal, MarkLinkRevoked,
       ScanStep, SaveExtraction, QueueReceiptReport, LateArrives, AbandonedLockAges, HeldLockAges, LockAges,
       Drain, Crash, ClaimDueReports, Answered, NotServed, TimesOut, FinishReport, RescheduleReport,
       ReleaseUnattempted, MarkLinkBroken, CancelPendingForLink, IsLinkLive, vars, rowVars
  <2>6. missed \subseteq missed'
    BY DEF Next, LinkStep, BeginLink, ExchangeLinkCode, ExchangeFails, InsertLink, LostRace,
       RevokeOrphan, LinkDies, RevokeFromYourtal, UnlinkStep, BeginUnlink, RevokeLinkAtYourtal, MarkLinkRevoked,
       ScanStep, SaveExtraction, LiveLink, NotQueued, QueueReceiptReport, LateArrives, AbandonedLockAges,
       HeldLockAges, LockAges, Drain, Crash, ClaimDueReports, Answered, NotServed, TimesOut, FinishReport,
       RescheduleReport, ReleaseUnattempted, MarkLinkBroken, CancelPendingForLink, IsLinkLive, vars
  <2>3. link[via[c]] # "live" => link'[via[c]] # "live"
    <3>1. CASE \E r \in Requests : InsertLink(r)
      BY <2>1, <3>1 DEF InsertLink, IInv, LinkInv, TypeOK
    <3>2. CASE \E u \in Users : MarkLinkRevoked(u)
      BY <2>1, <3>2 DEF MarkLinkRevoked, IInv, LinkInv, TypeOK
    <3>3. CASE \E d \in Drainers : MarkLinkBroken(d)
      BY <2>1, <3>3 DEF MarkLinkBroken, IInv, TypeOK
    <3>4. CASE link' = link
      BY <3>4
    <3> QED BY <3>1, <3>2, <3>3, <3>4 DEF Next, LinkStep, BeginLink, ExchangeLinkCode, ExchangeFails, LostRace,
       RevokeOrphan, LinkDies, RevokeFromYourtal, UnlinkStep, BeginUnlink, RevokeLinkAtYourtal, ScanStep,
       SaveExtraction, LiveLink, NotQueued, QueueReceiptReport, LateArrives, AbandonedLockAges, HeldLockAges,
       LockAges, Drain, Crash, ClaimDueReports, Answered, NotServed, TimesOut, FinishReport, RescheduleReport,
       ReleaseUnattempted, CancelPendingForLink, IsLinkLive, vars, linkVars
  <2>4. CASE Told
    BY <2>2, <2>3, <2>4, <2>6
  <2>5. ASSUME NEW d \in Drainers, drain[d].pc = "marking", drain[d].at = c
        PROVE  \/ link'[via[c]] # "live" \/ via[c] \in missed'
               \/ drain'[d] = drain[d]
    <3>1. CASE MarkLinkBroken(d)
      BY <2>1, <2>5, <3>1 DEF MarkLinkBroken, IInv, TypeOK
    <3>2. CASE Crash(d)
      BY <2>5, <3>2 DEF Crash
    <3>3. CASE \E e \in Drainers \ {d} : Drain(e) \/ Crash(e)
      <4>1. PICK e \in Drainers \ {d} : Drain(e) \/ Crash(e)
        BY <3>3
      <4>2. \E new : drain' = [drain EXCEPT ![e] = new]
        BY <4>1 DEF Drain, Crash, ClaimDueReports, Answered, NotServed, TimesOut, FinishReport, RescheduleReport,
           ReleaseUnattempted, MarkLinkBroken, CancelPendingForLink, IsLinkLive, At, Heard
      <4>3. drain'[d] = drain[d]
        BY <4>1, <4>2 DEF IInv, TypeOK
      <4> QED BY <4>3
    <3>4. CASE drain' = drain
      BY <3>4
    <3>5. CASE Drain(d)
      BY <2>5, <3>1, <3>5 DEF Drain, ClaimDueReports, Answered, NotServed, TimesOut, FinishReport, RescheduleReport,
         ReleaseUnattempted, CancelPendingForLink, IsLinkLive
    <3> QED BY <3>2, <3>3, <3>4, <3>5 DEF Next, LinkStep, BeginLink, ExchangeLinkCode, ExchangeFails, InsertLink,
       LostRace, RevokeOrphan, LinkDies, RevokeFromYourtal, UnlinkStep, BeginUnlink, RevokeLinkAtYourtal,
       MarkLinkRevoked, ScanStep, SaveExtraction, LiveLink, NotQueued, QueueReceiptReport, LateArrives,
       AbandonedLockAges, HeldLockAges, LockAges, vars
  <2> QED BY <2>1, <2>2, <2>4, <2>5, <2>6
<1> QED BY <1>1, <1>2

THEOREM BrokenLinksMarked == Spec => []BrokenIsMarked
<1>1. Init => BrokenIsMarked
  BY DEF Init, BrokenIsMarked
<1> QED BY <1>1, NextMarks, AlwaysIInv, PTL DEF Spec

(* Rows and YourTal's ledger keep PointsPromise: a step is a stutter, one  *)
(* report queued, one paid, one told, or the closing of a broken link's.   *)
THEOREM PromiseKept == Spec => KeepsPointsPromise
<1>1. Init => Promise!Init
  BY DEF Init, Promise!Init
<1>2. IInv /\ [Next]_vars => [Promise!Next]_<<status, paid>>
  <2> SUFFICES ASSUME IInv, [Next]_vars, <<status, paid>>' # <<status, paid>> PROVE Promise!Next
    OBVIOUS
  <2>1. CASE paid' # paid
    <3>1. PICK c \in Captures : Earns(c) /\ UNCHANGED status
      BY <2>1, PaidWhen
    <3>2. status[c] \notin Promise!Lost \cup {"none"}
      <4>1. status[c] \notin {"none", "skipped"} /\ status[c] \notin LedgerAnswers
        BY <3>1 DEF Earns, Queued, IInv, RowInv, LedgerAnswers
      <4>2. status[c] # "cancelled"
        <5>1. via[c] \in Requests /\ issued[via[c]] \in ytLive
          BY <3>1 DEF Earns, IInv, RowInv
        <5>2. link[via[c]] \notin Ended
          BY <5>1 DEF IInv, LinkInv
        <5> QED BY <5>2, <3>1 DEF IInv, RowInv
      <4> QED BY <4>1, <4>2 DEF Promise!Lost, LedgerAnswers
    <3>3. Promise!Earn(c)
      BY <3>1, <3>2 DEF Promise!Earn, Earns
    <3> QED BY <3>1, <3>3 DEF Promise!Next
  <2>2. CASE paid' = paid /\ status' # status
    <3>1. ASSUME NEW c \in Captures, status[c] = "none",
                 \E as \in {"pending", "skipped"} : status' = [status EXCEPT ![c] = as]
          PROVE  Promise!Next
      BY <2>2, <3>1 DEF Promise!Next, Promise!Queue
    <3>2. ASSUME NEW d \in Drainers, FinishReport(d) PROVE Promise!Next
      <4> DEFINE c == drain[d].at
                 outcome == Final(d)
      <4>1. /\ c \in Captures /\ Honest(d) /\ drain[d].pc = "finishing" /\ outcome # "retry"
            /\ drain[d].outcome \in {"none", "retry"} \cup Outcomes
        BY <3>2 DEF FinishReport, IInv, DrainInv, TypeOK, DrainRecord, Underway
      <4>2. status[c] = "pending" /\ status' = [status EXCEPT ![c] = outcome]
        BY <2>2, <3>2 DEF FinishReport, Fenced
      <4>3. outcome \in Outcomes /\ (outcome \in LedgerAnswers => answer[c] = outcome)
        BY <4>1 DEF Final, GivenUp, Honest, Outcomes, LedgerAnswers
      <4> HIDE DEF c, outcome
      <4>4. /\ c \in paid <=> answer[c] = "sent"
            /\ answer[c] = "duplicate" => \E o \in paid \ {c} : Ref[o] = Ref[c]
        BY <4>1 DEF IInv, RowInv
      <4>5. Promise!MayTell(c, outcome)
        BY <4>3, <4>4 DEF Promise!MayTell, Outcomes, LedgerAnswers
      <4>6. Promise!Tell(c, outcome)
        BY <2>2, <4>2, <4>5 DEF Promise!Tell
      <4>7. outcome \in Promise!Outcomes
        BY <4>3 DEF Promise!Outcomes, Outcomes, LedgerAnswers
      <4> QED BY <4>1, <4>6, <4>7 DEF Promise!Next
    <3>3. ASSUME NEW d \in Drainers, CancelPendingForLink(d) PROVE Promise!Next
      <4> DEFINE waits(o) == status[o] = "pending" /\ lock[o] = "none" /\ via[o] = via[drain[d].at] /\ o # drain[d].at
                 closed == {o \in Captures : waits(o)}
      <4>1. status' = [o \in Captures |-> IF waits(o) THEN "cancelled" ELSE status[o]]
        BY <3>3 DEF CancelPendingForLink
      <4>2. \A o \in closed : status[o] = "pending"
        OBVIOUS
      <4>3. status' = [o \in Captures |-> IF o \in closed THEN "cancelled" ELSE status[o]]
        BY <4>1
      <4>4. closed \in SUBSET Captures
        OBVIOUS
      <4> HIDE DEF closed
      <4>5. Promise!Cancel(closed)
        BY <2>2, <4>2, <4>3 DEF Promise!Cancel
      <4> QED BY <4>4, <4>5 DEF Promise!Next
    <3> QED BY <2>2, <3>1, <3>2, <3>3, ToldWhen
  <2> QED BY <2>1, <2>2
<1> QED BY <1>1, <1>2, AlwaysIInv, PTL DEF Spec, KeepsPointsPromise, Promise!Spec
=============================================================================
