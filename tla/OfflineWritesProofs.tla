-------------------------- MODULE OfflineWritesProofs --------------------------
(***************************************************************************)
(* Proofs about OfflineWrites: its types, that a write is done once under  *)
(* its key, that what counts as sent was done, that the storage keeps what *)
(* is queued, and the order in which writes are done.                      *)
(***************************************************************************)
EXTENDS OfflineWrites, TLAPS, FiniteSetTheorems

USE ConstantsAssumption

---------------------------------------------------------------------------
(* Queues                                                                  *)

\* Without leaves a queue, in which position j is position j or j+1 of the old.
LEMMA WithoutShape ==
  ASSUME NEW q \in Seq(Writes), NEW w \in Queued(q)
  PROVE  \E i \in 1..Len(q) :
           /\ q[i] = w
           /\ Without(q, w) = [j \in 1..(Len(q) - 1) |-> q[IF j < i THEN j ELSE j + 1]]
  <1> DEFINE i == CHOOSE i \in DOMAIN q : q[i] = w
  <1>1. i \in 1..Len(q) /\ q[i] = w
    BY DEF Queued
  <1>2. Without(q, w) = [j \in 1..(Len(q) - 1) |-> q[IF j < i THEN j ELSE j + 1]]
    BY DEF Without
  <1> QED BY <1>1, <1>2

LEMMA WithoutSeq ==
  ASSUME NEW q \in Seq(Writes), NEW w
  PROVE  Without(q, w) \in Seq(Writes)
  <1>1. CASE w \notin Queued(q)
    BY <1>1 DEF Without
  <1>2. CASE w \in Queued(q)
    <2>1. PICK i \in 1..Len(q) :
            Without(q, w) = [j \in 1..(Len(q) - 1) |-> q[IF j < i THEN j ELSE j + 1]]
      BY <1>2, WithoutShape
    <2>2. \A j \in 1..(Len(q) - 1) : q[IF j < i THEN j ELSE j + 1] \in Writes
      OBVIOUS
    <2> QED BY <2>1, <2>2
  <1> QED BY <1>1, <1>2

\* Taking w out leaves every other write in the queue.
LEMMA WithoutKeeps ==
  ASSUME NEW q \in Seq(Writes), NEW w, NEW v \in Queued(q), v # w
  PROVE  v \in Queued(Without(q, w))
  <1>1. CASE w \notin Queued(q)
    BY <1>1 DEF Without
  <1>2. CASE w \in Queued(q)
    <2>1. PICK i \in 1..Len(q) : q[i] = w /\
            Without(q, w) = [j \in 1..(Len(q) - 1) |-> q[IF j < i THEN j ELSE j + 1]]
      BY <1>2, WithoutShape
    <2>2. PICK k \in 1..Len(q) : q[k] = v
      BY DEF Queued
    <2>3. k # i
      BY <2>1, <2>2
    <2> DEFINE j == IF k < i THEN k ELSE k - 1
    <2>4. j \in 1..(Len(q) - 1) /\ (IF j < i THEN j ELSE j + 1) = k
      BY <2>3
    <2>5. Without(q, w)[j] = v /\ j \in DOMAIN Without(q, w)
      BY <2>1, <2>2, <2>4
    <2> QED BY <2>5 DEF Queued
  <1> QED BY <1>1, <1>2

LEMMA AppendQueued ==
  ASSUME NEW q \in Seq(Writes), NEW w \in Writes
  PROVE  Queued(Append(q, w)) = Queued(q) \cup {w}
  <1>1. \A v \in Queued(q) : v \in Queued(Append(q, w))
    BY DEF Queued
  <1>2. w \in Queued(Append(q, w))
    <2>1. Append(q, w)[Len(q) + 1] = w /\ Len(q) + 1 \in DOMAIN Append(q, w)
      OBVIOUS
    <2> QED BY <2>1 DEF Queued
  <1>3. \A v \in Queued(Append(q, w)) : v \in Queued(q) \cup {w}
    BY DEF Queued
  <1> QED BY <1>1, <1>2, <1>3

LEMMA QueuedWrites ==
  ASSUME NEW q \in Seq(Writes)
  PROVE  Queued(q) \subseteq Writes
  BY DEF Queued

---------------------------------------------------------------------------
(* Types                                                                   *)

PhoneType ==
  /\ write \in [Writes -> {"unmade", "unsent", "loading", "forgotten", "queued", "sent", "dropped"}]
  /\ ahead \in [Writes -> SUBSET Writes]
  /\ entries \in Seq(Writes) /\ stored \in Seq(Writes) /\ reading \in Seq(Writes)
  /\ loading \in {"no", "reading", "yes"}
  /\ overwrote \in BOOLEAN

DrainType ==
  /\ drain \in [Drains -> DrainRecord]
  /\ \A d \in Drains : drain[d].at \in {"next", "waiting", "uploading"} => drain[d].todo # <<>>
  /\ draining \in BOOLEAN

CallType ==
  /\ call \in [Calls -> CallRecord]
  /\ \A c \in Calls : call[c].step # "free" => call[c].write \in Writes

KeyType ==
  /\ row \in [Writes -> {"none", "claimed", "recorded"}]
  /\ ran \in [Writes -> Nat] /\ gone \in [Writes -> Nat] /\ threw \in [Writes -> Nat]

LogType == answered \subseteq Writes /\ faults \in 0..MaxFaults

\* The drain that waits for a request is the one the request names, and it
\* waits for that request only; so an answer finds the queue it belongs to.
Waits ==
  /\ \A c \in Calls : call[c].by # NoOne =>
       /\ call[c].step # "free"
       /\ drain[call[c].by].at = "waiting"
       /\ call[c].write = Head(drain[call[c].by].todo)
  /\ \A b, c \in Calls : call[b].by = call[c].by /\ call[c].by # NoOne => b = c

Types == PhoneType /\ DrainType /\ CallType /\ KeyType /\ LogType

LEMMA EmptyType == <<>> \in Seq(Writes)
  OBVIOUS

LEMMA OffType == Off \in DrainRecord /\ Off.at = "off"
  BY EmptyType DEF Off, DrainRecord

LEMMA FreeType == Free \in CallRecord /\ Free.step = "free" /\ Free.by = NoOne
  BY DEF Free, CallRecord

LEMMA SettledType ==
  ASSUME NEW k \in CallRecord
  PROVE  Settled(k) = k \/ Settled(k) = Free
  BY DEF Settled

LEMMA StopType ==
  ASSUME DrainType, NEW d \in Drains, Stop(d)
  PROVE  DrainType'
  <1>1. drain' \in [Drains -> DrainRecord] /\ draining' \in BOOLEAN
    BY OffType DEF DrainType, Stop
  <1>2. \A e \in Drains : drain'[e] = drain[e] \/ drain'[e] = Off
    BY DEF DrainType, Stop
  <1> QED BY <1>1, <1>2, OffType DEF DrainType

LEMMA AdvanceType ==
  ASSUME DrainType, NEW d \in Drains, drain[d].todo # <<>>, Advance(d)
  PROVE  DrainType'
  <1> DEFINE rest == Tail(drain[d].todo)
             n == [at |-> "next", todo |-> rest]
  <1>1. rest \in Seq(Writes)
    BY DEF DrainType, DrainRecord
  <1>2. CASE rest = <<>>
    BY <1>2, StopType DEF Advance
  <1>3. CASE rest # <<>>
    <2>1. drain' = [drain EXCEPT ![d] = n] /\ draining' = draining
      BY <1>3 DEF Advance
    <2>2. n \in DrainRecord /\ n.todo # <<>>
      BY <1>1, <1>3 DEF DrainRecord
    <2> HIDE DEF n
    <2>3. \A e \in Drains : drain'[e] = drain[e] \/ drain'[e] = n
      BY <2>1 DEF DrainType
    <2> QED BY <2>1, <2>2, <2>3 DEF DrainType
  <1> QED BY <1>2, <1>3

\* What becomes of a request when one of its fields changes.
LEMMA CallChange ==
  ASSUME CallType, NEW c \in Calls, NEW k \in CallRecord,
         k.step # "free" => k.write \in Writes,
         call' = [call EXCEPT ![c] = k] \/ call' = [call EXCEPT ![c] = Settled(k)]
  PROVE  CallType'
  <1>1. PICK r \in {k, Free} : call' = [call EXCEPT ![c] = r]
    BY SettledType
  <1>2. r \in CallRecord /\ (r.step # "free" => r.write \in Writes)
    BY FreeType
  <1>3. \A b \in Calls : call'[b] = call[b] \/ call'[b] = r
    BY <1>1 DEF CallType
  <1>4. call' \in [Calls -> CallRecord]
    BY <1>1, <1>2 DEF CallType
  <1> QED BY <1>2, <1>3, <1>4 DEF CallType

LEMMA RemoveType ==
  ASSUME PhoneType, NEW w \in Writes, NEW status \in {"sent", "dropped"}, Remove(w, status)
  PROVE  PhoneType'
  <1>1. Without(entries, w) \in Seq(Writes)
    BY WithoutSeq DEF PhoneType
  <1>2. write' \in [Writes -> {"unmade", "unsent", "loading", "forgotten", "queued", "sent", "dropped"}]
    BY DEF PhoneType, Remove
  <1> QED BY <1>1, <1>2 DEF PhoneType, Remove

LEMMA MarkFailedType ==
  ASSUME PhoneType, MarkFailed
  PROVE  PhoneType'
  BY DEF PhoneType, MarkFailed

LEMMA FaultType ==
  ASSUME LogType, Fault
  PROVE  faults' \in 0..MaxFaults
  BY DEF LogType, Fault

\* The head of a queue that is not empty.
LEMMA HeadOfTodo ==
  ASSUME DrainType, NEW d \in Drains, drain[d].at \in {"next", "waiting", "uploading"}
  PROVE  drain[d].todo \in Seq(Writes) /\ drain[d].todo # <<>> /\ Head(drain[d].todo) \in Writes
  BY DEF DrainType, DrainRecord

LEMMA HearsType ==
  ASSUME Types, NEW d \in Drains, NEW w \in Writes, drain[d].at = "waiting",
         NEW result, Hears(d, w, result)
  PROVE  PhoneType' /\ DrainType' /\ answered' \subseteq Writes
  <1>1. drain[d].todo # <<>>
    BY HeadOfTodo DEF Types
  <1>2. answered' \subseteq Writes
    BY DEF Hears, Types, LogType
  <1>3. CASE drain' = [drain EXCEPT ![d].at = "uploading"] /\ Keep /\ UNCHANGED draining
    <2>1. DrainType'
      BY <1>1, <1>3 DEF Types, DrainType, DrainRecord
    <2> QED BY <1>2, <1>3, <2>1 DEF Types, PhoneType, Keep, phoneVars
  <1>4. CASE Advance(d) /\ (MarkFailed \/ \E status \in {"sent", "dropped"} : Remove(w, status))
    BY <1>1, <1>2, <1>4, AdvanceType, RemoveType, MarkFailedType DEF Types
  <1> QED BY <1>3, <1>4 DEF Hears

LEMMA TypeStep == Types /\ Waits /\ [Next]_vars => Types'
  <1> SUFFICES ASSUME Types, Waits, [Next]_vars PROVE Types'
    OBVIOUS
  <1>0. PhoneType /\ DrainType /\ CallType /\ KeyType /\ LogType
    BY DEF Types
  <1> DEFINE KeepPhone == UNCHANGED phoneVars
             KeepDrain == UNCHANGED <<drain, draining>>
             KeepCall == UNCHANGED call
             KeepKeys == UNCHANGED keyVars
             KeepLog == UNCHANGED <<answered, faults>>
  <1>a. KeepPhone => PhoneType'
    BY <1>0 DEF PhoneType, phoneVars
  <1>b. KeepDrain => DrainType'
    BY <1>0 DEF DrainType
  <1>c. KeepCall => CallType'
    BY <1>0 DEF CallType
  <1>d. KeepKeys => KeyType'
    BY <1>0 DEF KeyType, keyVars
  <1>e. KeepLog => LogType'
    BY <1>0 DEF LogType
  <1>f. UNCHANGED answered /\ Fault => LogType'
    BY <1>0, FaultType DEF LogType
  <1>1. CASE UNCHANGED vars
    BY <1>1, <1>a, <1>b, <1>c, <1>d, <1>e DEF Types, vars, drainVars
  <1>2. ASSUME NEW w \in Writes, NotAnswered(w) PROVE Types'
    <2>1. PhoneType'
      BY <1>0, <1>2 DEF NotAnswered, PhoneType
    <2> QED BY <1>2, <2>1, <1>b, <1>c, <1>d, <1>e DEF NotAnswered, Types, drainVars
  <1>3. ASSUME NEW w \in Writes, QueueWrite(w) PROVE Types'
    <2>1. Append(entries, w) \in Seq(Writes) /\ Queued(entries) \subseteq Writes
      BY <1>0, QueuedWrites DEF PhoneType
    <2>2. ASSUME StartsLoading, write' = [write EXCEPT ![w] = "loading"],
                 UNCHANGED <<entries, stored, ahead, overwrote>>
          PROVE  PhoneType'
      <3>1. write' \in [Writes -> {"unmade", "unsent", "loading", "forgotten", "queued", "sent", "dropped"}]
        BY <1>0, <2>2 DEF PhoneType
      <3>2. loading' = "reading" /\ reading' = stored
        BY <2>2 DEF StartsLoading
      <3>3. overwrote' \in BOOLEAN
        BY <1>0, <2>2, Zenon DEF PhoneType
      <3>4. ahead' \in [Writes -> SUBSET Writes]
        BY <1>0, <2>2 DEF PhoneType
      <3>5. entries' \in Seq(Writes) /\ stored' \in Seq(Writes) /\ reading' \in Seq(Writes)
        BY <1>0, <2>2, <3>2 DEF PhoneType
      <3> QED BY <3>1, <3>2, <3>3, <3>4, <3>5, Zenon DEF PhoneType
    <2>3. ASSUME Enqueue(w), write' = [write EXCEPT ![w] = "queued"], UNCHANGED <<loading, reading>>
          PROVE  PhoneType'
      <3>1. ahead' \in [Writes -> SUBSET Writes]
        BY <1>0, <2>1, <2>3 DEF Enqueue, PhoneType
      <3>2. write' \in [Writes -> {"unmade", "unsent", "loading", "forgotten", "queued", "sent", "dropped"}]
        BY <1>0, <2>3 DEF PhoneType
      <3>3. entries' \in Seq(Writes) /\ stored' \in Seq(Writes) /\ reading' \in Seq(Writes)
        BY <1>0, <2>1, <2>3 DEF Enqueue, PhoneType
      <3>4. overwrote' \in BOOLEAN
        BY <2>3 DEF Enqueue
      <3>5. loading' \in {"no", "reading", "yes"}
        BY <1>0, <2>3 DEF PhoneType
      <3> QED BY <3>1, <3>2, <3>3, <3>4, <3>5, Zenon DEF PhoneType
    <2>4. PhoneType'
      BY <1>3, <2>2, <2>3, Zenon DEF QueueWrite
    <2> QED BY <1>3, <2>4, <1>b, <1>c, <1>d, <1>e DEF QueueWrite, Types, drainVars
  <1>4. ASSUME LoadEnds PROVE Types'
    <2>1. PhoneType'
      BY <1>0, <1>4, EmptyType DEF LoadEnds, PhoneType
    <2> QED BY <1>4, <2>1, <1>b, <1>c, <1>d, <1>e DEF LoadEnds, Types, drainVars
  <1>5. ASSUME NEW d \in Drains, Phone(d) PROVE Types'
    <2>1. ASSUME BeginDrain(d) PROVE Types'
      <3>1. PhoneType'
        BY <1>0, <2>1 DEF BeginDrain, StartsLoading, PhoneType
      <3>2. DrainType'
        BY <1>0, <2>1 DEF BeginDrain, DrainType, DrainRecord
      <3> QED BY <2>1, <3>1, <3>2, <1>c, <1>d, <1>e DEF BeginDrain, Types
    <2>2. ASSUME Flush(d) PROVE Types'
      <3> DEFINE n == [at |-> "next", todo |-> entries]
      <3>1. n \in DrainRecord /\ n.todo = entries /\ entries \in Seq(Writes)
        BY <1>0 DEF PhoneType, DrainRecord
      <3>2. \/ entries = <<>> /\ drain' = [drain EXCEPT ![d] = Off] /\ draining' = draining
            \/ entries # <<>> /\ drain' = [drain EXCEPT ![d] = n] /\ draining' = TRUE
        BY <2>2 DEF Flush
      <3>3. DrainType'
        <4> HIDE DEF n
        <4> QED BY <1>0, <3>1, <3>2, OffType DEF DrainType
      <3> QED BY <2>2, <3>3, <1>a, <1>c, <1>d, <1>e DEF Flush, Types
    <2>3. ASSUME Upload(d) PROVE Types'
      <3>1. drain[d].todo # <<>> /\ Head(drain[d].todo) \in Writes
        BY <1>0, <2>3, HeadOfTodo DEF Upload
      <3>2. PhoneType' /\ DrainType'
        BY <1>0, <2>3, <3>1, AdvanceType, RemoveType DEF Upload
      <3> QED BY <2>3, <3>2, <1>c, <1>d, <1>e DEF Upload, Types
    <2>4. ASSUME NEW c \in Calls, SendNext(d, c) PROVE Types'
      <3> DEFINE k == [Free EXCEPT !.step = "sent", !.write = Head(drain[d].todo), !.by = d]
      <3>1. drain[d].todo # <<>> /\ Head(drain[d].todo) \in Writes
        BY <1>0, <2>4, HeadOfTodo DEF SendNext
      <3>2. k \in CallRecord /\ k.write \in Writes
        BY <3>1 DEF Free, CallRecord
      <3>3. CallType'
        BY <1>0, <2>4, <3>2, CallChange DEF SendNext
      <3>4. DrainType'
        BY <1>0, <2>4, <3>1 DEF SendNext, DrainType, DrainRecord
      <3> QED BY <2>4, <3>3, <3>4, <1>a, <1>d, <1>e DEF SendNext, Types
    <2> QED BY <1>5, <2>1, <2>2, <2>3, <2>4 DEF Phone
  <1>6. ASSUME NEW c \in Calls, Serves(c) PROVE Types'
    <2>0. call[c] \in CallRecord /\ (call[c].step # "free" => KeyOf(c) \in Writes)
      BY <1>0 DEF CallType, KeyOf
    <2> DEFINE at(step) == [call[c] EXCEPT !.step = step]
               done(result, book) == [call[c] EXCEPT !.step = "done", !.result = result, !.book = book]
    <2>a. \A step \in {"taken", "running"} : call[c].step # "free" => at(step) \in CallRecord /\ at(step).write \in Writes
      BY <2>0 DEF KeyOf, CallRecord
    <2>b. \A result \in {"ok", "in_flight"}, book \in {"none", "record"} :
            call[c].step # "free" => done(result, book) \in CallRecord /\ done(result, book).write \in Writes
      BY <2>0 DEF KeyOf, CallRecord
    <2>1. ASSUME ClaimKey(c) PROVE Types'
      <3>1. CallType'
        BY <1>0, <2>1, <2>a, CallChange DEF ClaimKey, Goto
      <3>2. KeyType'
        BY <1>0, <2>0, <2>1 DEF ClaimKey, KeyType
      <3> QED BY <2>1, <3>1, <3>2, <1>a, <1>b, <1>e DEF ClaimKey, Types, drainVars
    <2>2. ASSUME FindKey(c) PROVE Types'
      <3>1. CallType'
        <4>1. \/ call' = [call EXCEPT ![c] = at("running")]
              \/ \E result \in {"ok", "in_flight"} : call' = [call EXCEPT ![c] = Settled(done(result, "none"))]
          BY <2>2 DEF FindKey, Goto, Finish
        <4>2. call[c].step # "free"
          BY <2>2 DEF FindKey
        <4> HIDE DEF at, done
        <4> QED BY <1>0, <2>a, <2>b, <4>1, <4>2, CallChange
      <3>2. KeyType'
        BY <1>0, <2>0, <2>2 DEF FindKey, KeyType
      <3> QED BY <2>2, <3>1, <3>2, <1>a, <1>b, <1>e DEF FindKey, Types, drainVars
    <2>3. ASSUME HandlerSucceeds(c) PROVE Types'
      <3>1. CallType'
        BY <1>0, <2>3, <2>b, CallChange DEF HandlerSucceeds, Finish
      <3>2. KeyType'
        BY <1>0, <2>0, <2>3 DEF HandlerSucceeds, KeyType
      <3> QED BY <2>3, <3>1, <3>2, <1>a, <1>b, <1>e DEF HandlerSucceeds, Types, drainVars
    <2>4. ASSUME BookKey(c) PROVE Types'
      <3> DEFINE k == [call[c] EXCEPT !.book = "none"]
      <3>1. k \in CallRecord /\ (k.step # "free" => k.write \in Writes)
        BY <2>0 DEF KeyOf, CallRecord
      <3>2. CallType'
        BY <1>0, <2>4, <3>1, CallChange DEF BookKey
      <3>3. KeyType'
        BY <1>0, <2>0, <2>4 DEF BookKey, KeyType
      <3> QED BY <2>4, <3>2, <3>3, <1>a, <1>b, <1>e DEF BookKey, Types, drainVars
    <2>5. ASSUME Answer(c) PROVE Types'
      <3> DEFINE k == [call[c] EXCEPT !.by = NoOne]
      <3>1. call[c].by \in Drains /\ KeyOf(c) \in Writes /\ drain[call[c].by].at = "waiting"
        BY <2>0, <2>5 DEF Answer, CallRecord, Waits
      <3>2. PhoneType' /\ DrainType' /\ answered' \subseteq Writes
        BY <2>5, <3>1, HearsType DEF Answer
      <3>3. k \in CallRecord /\ (k.step # "free" => k.write \in Writes)
        BY <2>0 DEF KeyOf, CallRecord
      <3>4. CallType'
        BY <1>0, <2>5, <3>3, CallChange DEF Answer
      <3> QED BY <1>0, <2>5, <3>2, <3>4, <1>d DEF Answer, Types, LogType
    <2> QED BY <1>6, <2>1, <2>2, <2>3, <2>4, <2>5 DEF Serves
  <1>7. ASSUME Fails PROVE Types'
    <2>1. ASSUME NEW c \in Calls, HandlerFails(c) PROVE Types'
      <3>1. PICK result \in {"refused", "not_ready"} : Finish(c, result, "release")
        BY <2>1 DEF HandlerFails
      <3> DEFINE k == [call[c] EXCEPT !.step = "done", !.result = result, !.book = "release"]
      <3>2. k \in CallRecord /\ k.write \in Writes
        BY <1>0, <2>1 DEF HandlerFails, CallType, CallRecord
      <3>3. CallType'
        BY <1>0, <3>1, <3>2, CallChange DEF Finish
      <3> QED BY <2>1, <3>3, <1>a, <1>b, <1>d, <1>f DEF HandlerFails, Types, drainVars
    <2>1a. ASSUME NEW c \in Calls, HandlerThrowsLate(c) PROVE Types'
      <3> DEFINE k == [call[c] EXCEPT !.step = "done", !.result = "refused", !.book = "release"]
      <3>1. KeyOf(c) \in Writes /\ k \in CallRecord /\ k.write \in Writes
        BY <1>0, <2>1a DEF HandlerThrowsLate, CallType, CallRecord, KeyOf
      <3>2. CallType'
        BY <1>0, <2>1a, <3>1, CallChange DEF HandlerThrowsLate, Finish
      <3>3. KeyType'
        BY <1>0, <2>1a, <3>1 DEF HandlerThrowsLate, KeyType
      <3> QED BY <2>1a, <3>2, <3>3, <1>a, <1>b, <1>f DEF HandlerThrowsLate, Types, drainVars
    <2>2. ASSUME NEW c \in Calls, BookingFails(c) PROVE Types'
      <3> DEFINE k == [call[c] EXCEPT !.book = "none"]
      <3>1. k \in CallRecord /\ (k.step # "free" => k.write \in Writes)
        BY <1>0 DEF CallType, CallRecord
      <3>2. CallType'
        BY <1>0, <2>2, <3>1, CallChange DEF BookingFails
      <3> QED BY <2>2, <3>2, <1>a, <1>b, <1>d, <1>f DEF BookingFails, Types, drainVars
    <2>3. ASSUME NEW c \in Calls, LoseAnswer(c) PROVE Types'
      <3> DEFINE k == [call[c] EXCEPT !.by = NoOne]
      <3>1. k \in CallRecord /\ (k.step # "free" => k.write \in Writes)
        BY <1>0 DEF CallType, CallRecord
      <3>2. CallType'
        BY <1>0, <2>3, <3>1, FreeType, CallChange DEF LoseAnswer
      <3>3. call[c].by \in Drains
        BY <1>0, <2>3 DEF LoseAnswer, CallType, CallRecord
      <3>4. DrainType'
        BY <1>0, <2>3, <3>3, StopType DEF LoseAnswer, HearsNothing
      <3> QED BY <2>3, <3>2, <3>4, <1>a, <1>d, <1>f DEF LoseAnswer, HearsNothing, Keep, Types
    <2>4. ASSUME NEW d \in Drains, UploadFails(d) PROVE Types'
      <3>1. drain[d].todo # <<>>
        BY <1>0, <2>4, HeadOfTodo DEF UploadFails
      <3>2. PhoneType' /\ DrainType'
        BY <1>0, <2>4, <3>1, AdvanceType, MarkFailedType DEF UploadFails
      <3> QED BY <2>4, <3>2, <1>c, <1>d, <1>f DEF UploadFails, Types
    <2>5. ASSUME ServerCrashes PROVE Types'
      <3>1. CallType'
        BY <2>5, FreeType DEF ServerCrashes, CallType
      <3>2. \A d \in Drains : drain'[d] = drain[d] \/ drain'[d] = Off
        BY <2>5 DEF ServerCrashes
      <3>3. drain' \in [Drains -> DrainRecord]
        BY <1>0, <2>5, OffType DEF ServerCrashes, DrainType
      <3>4. draining' \in BOOLEAN
        BY <2>5 DEF ServerCrashes
      <3>5. DrainType'
        BY <1>0, <3>2, <3>3, <3>4, OffType DEF DrainType
      <3> QED BY <2>5, <3>1, <3>5, <1>a, <1>d, <1>f DEF ServerCrashes, Keep, Types
    <2>6. ASSUME AppRestarts PROVE Types'
      <3>1. PhoneType'
        BY <1>0, <2>6, EmptyType DEF AppRestarts, PhoneType
      <3>2. DrainType'
        BY <2>6, OffType DEF AppRestarts, DrainType
      <3> DEFINE k(c) == [call[c] EXCEPT !.by = NoOne]
      <3>3. \A c \in Calls : k(c) \in CallRecord /\ (k(c).step # "free" => k(c).write \in Writes)
        BY <1>0 DEF CallType, CallRecord
      <3>4. call' = [c \in Calls |-> Settled(k(c))]
        BY <2>6 DEF AppRestarts
      <3> HIDE DEF k
      <3>5. \A c \in Calls : call'[c] = k(c) \/ call'[c] = Free
        BY <3>3, <3>4, SettledType
      <3>6. CallType'
        BY <3>3, <3>4, <3>5, FreeType, SettledType DEF CallType
      <3> QED BY <2>6, <3>1, <3>2, <3>6, <1>d, <1>f DEF AppRestarts, Types
    <2> QED BY <1>7, <2>1, <2>1a, <2>2, <2>3, <2>4, <2>5, <2>6 DEF Fails
  <1>8. CASE ShowQueued
    <2>1. PhoneType'
      BY <1>0, <1>8 DEF ShowQueued, StartsLoading, PhoneType
    <2> QED BY <1>8, <2>1, <1>b, <1>c, <1>d, <1>e DEF ShowQueued, Types, drainVars
  <1> QED BY <1>1, <1>2, <1>3, <1>4, <1>5, <1>6, <1>7, <1>8 DEF Next

---------------------------------------------------------------------------
(* Who waits for what                                                      *)

LEMMA SettledFields ==
  ASSUME NEW k \in CallRecord
  PROVE  /\ Settled(k).by = k.by /\ Settled(k).book = k.book
         /\ Settled(k).step # "free" => Settled(k) = k
         /\ Settled(k).step = "running" <=> k.step = "running"
         /\ k.by # NoOne \/ k.book # "none" => Settled(k) = k
         /\ Settled(k) = k \/ Settled(k) = Free
  BY DEF Settled, Free, CallRecord

LEMMA AdvanceEffect ==
  ASSUME DrainType, NEW d \in Drains, Advance(d)
  PROVE  /\ \A e \in Drains \ {d} : drain'[e] = drain[e]
         /\ \/ drain'[d] = Off
            \/ drain'[d] = [at |-> "next", todo |-> Tail(drain[d].todo)] /\ Tail(drain[d].todo) # <<>>
         /\ drain'[d].at # "uploading" /\ drain'[d].at # "waiting"
         /\ drain'[d].todo \in {<<>>, Tail(drain[d].todo)}
  <1>1. \/ drain' = [drain EXCEPT ![d] = Off]
        \/ drain' = [drain EXCEPT ![d] = [at |-> "next", todo |-> Tail(drain[d].todo)]]
             /\ Tail(drain[d].todo) # <<>>
    BY DEF Advance, Stop
  <1> QED BY <1>1 DEF DrainType, Off

LEMMA StopEffect ==
  ASSUME DrainType, NEW d \in Drains, Stop(d)
  PROVE  drain'[d] = Off /\ \A e \in Drains \ {d} : drain'[e] = drain[e]
  BY DEF DrainType, Stop

LEMMA HearsEffect ==
  ASSUME DrainType, NEW d \in Drains, NEW w, NEW result, Hears(d, w, result)
  PROVE  /\ \A e \in Drains \ {d} : drain'[e] = drain[e]
         /\ \/ Advance(d)
            \/ result = "ok" /\ drain'[d] = [drain[d] EXCEPT !.at = "uploading"]
         /\ drain'[d].todo \in {<<>>, drain[d].todo, Tail(drain[d].todo)}
  <1>1. CASE Advance(d)
    BY <1>1, AdvanceEffect
  <1>2. CASE result = "ok" /\ drain' = [drain EXCEPT ![d].at = "uploading"]
    BY <1>2 DEF DrainType, DrainRecord
  <1> QED BY <1>1, <1>2 DEF Hears

\* A request moves on, and its drain goes on waiting.
LEMMA WaitsForMovedCall ==
  ASSUME Waits, CallType, NEW c \in Calls, NEW k \in CallRecord,
         k.by = call[c].by, k.write = call[c].write,
         k.step # "free" \/ k.step = call[c].step,
         call' = [call EXCEPT ![c] = k] \/ call' = [call EXCEPT ![c] = Settled(k)],
         UNCHANGED drain
  PROVE  Waits'
  <1>1. PICK r \in {k, Settled(k)} : call' = [call EXCEPT ![c] = r]
    OBVIOUS
  <1>2. r.by = call[c].by /\ (r.by # NoOne => r = k)
    BY <1>1, SettledFields
  <1>3. \A b \in Calls : call'[b] = IF b = c THEN r ELSE call[b]
    BY <1>1 DEF CallType
  <1> QED BY <1>2, <1>3 DEF Waits

\* A request that is no longer waited for.
LEMMA WaitsForOthers ==
  ASSUME Waits, CallType, NEW c \in Calls, NEW r \in CallRecord, r.by = NoOne, call[c].by # NoOne,
         call' = [call EXCEPT ![c] = r],
         \A e \in Drains \ {call[c].by} : drain'[e] = drain[e]
  PROVE  Waits'
  <1>1. \A b \in Calls : call'[b] = IF b = c THEN r ELSE call[b]
    BY DEF CallType
  <1>2. \A b \in Calls : call'[b].by # NoOne =>
          b # c /\ call'[b] = call[b] /\ call[b].by \in Drains \ {call[c].by}
    BY <1>1 DEF Waits, CallType, CallRecord
  <1> QED BY <1>2 DEF Waits

\* A drain that does not wait moves on.
LEMMA WaitsElsewhere ==
  ASSUME Waits, CallType, NEW d \in Drains, drain[d].at # "waiting", UNCHANGED call,
         \A e \in Drains \ {d} : drain'[e] = drain[e]
  PROVE  Waits'
  <1>1. \A b \in Calls : call[b].by # NoOne => call[b].by \in Drains \ {d}
    BY DEF Waits, CallType, CallRecord
  <1> QED BY <1>1 DEF Waits

LEMMA WaitsStep == Types /\ Waits /\ [Next]_vars => Waits'
  <1> SUFFICES ASSUME Types, Waits, [Next]_vars PROVE Waits'
    OBVIOUS
  <1>0. DrainType /\ CallType
    BY DEF Types
  <1>1. CASE UNCHANGED <<drain, call>>
    BY <1>1 DEF Waits
  <1>2. ASSUME NEW d \in Drains, Phone(d) PROVE Waits'
    <2>1. CASE BeginDrain(d)
      BY <1>0, <2>1, WaitsElsewhere DEF BeginDrain, DrainType
    <2>2. CASE Flush(d)
      BY <1>0, <2>2, WaitsElsewhere DEF Flush, DrainType
    <2>3. CASE Upload(d)
      BY <1>0, <2>3, WaitsElsewhere, AdvanceEffect DEF Upload
    <2>4. ASSUME NEW c \in Calls, SendNext(d, c) PROVE Waits'
      <3> DEFINE k == [Free EXCEPT !.step = "sent", !.write = Head(drain[d].todo), !.by = d]
      <3>1. k.by = d /\ k.write = Head(drain[d].todo) /\ k.step = "sent"
        BY DEF Free
      <3>2. \A b \in Calls : call'[b] = IF b = c THEN k ELSE call[b]
        BY <1>0, <2>4 DEF SendNext, CallType
      <3>3. drain'[d].at = "waiting" /\ drain'[d].todo = drain[d].todo
        BY <1>0, <2>4 DEF SendNext, DrainType, DrainRecord
      <3>4. \A e \in Drains \ {d} : drain'[e] = drain[e]
        BY <1>0, <2>4 DEF SendNext, DrainType
      <3> HIDE DEF k
      <3>5. \A b \in Calls : call[b].by # NoOne => call[b].by \in Drains \ {d}
        BY <1>0, <2>4 DEF SendNext, Waits, CallType, CallRecord
      <3> QED BY <3>1, <3>2, <3>3, <3>4, <3>5 DEF Waits
    <2> QED BY <1>2, <2>1, <2>2, <2>3, <2>4 DEF Phone
  <1>3. ASSUME NEW c \in Calls, NEW k \in CallRecord,
               k.by = call[c].by, k.write = call[c].write,
               k.step # "free" \/ k.step = call[c].step,
               call' = [call EXCEPT ![c] = k] \/ call' = [call EXCEPT ![c] = Settled(k)],
               UNCHANGED drain
        PROVE  Waits'
    BY <1>0, <1>3, WaitsForMovedCall
  <1>4. ASSUME NEW c \in Calls, Serves(c) PROVE Waits'
    <2>0. call[c] \in CallRecord
      BY <1>0 DEF CallType
    <2> DEFINE at(step) == [call[c] EXCEPT !.step = step]
               done(result, book) == [call[c] EXCEPT !.step = "done", !.result = result, !.book = book]
    <2>a. \A step \in {"taken", "running"} :
            at(step) \in CallRecord /\ at(step).by = call[c].by
              /\ at(step).write = call[c].write /\ at(step).step = step
      BY <2>0 DEF CallRecord
    <2>b. \A result \in {"ok", "in_flight"}, book \in {"none", "record"} :
            done(result, book) \in CallRecord /\ done(result, book).by = call[c].by
              /\ done(result, book).write = call[c].write /\ done(result, book).step = "done"
      BY <2>0 DEF CallRecord
    <2>1. CASE ClaimKey(c)
      <3>1. call' = [call EXCEPT ![c] = at("running")] \/ call' = [call EXCEPT ![c] = at("taken")]
        BY <2>1 DEF ClaimKey, Goto
      <3>2. UNCHANGED drain
        BY <2>1 DEF ClaimKey, drainVars
      <3> HIDE DEF at
      <3> QED BY <1>3, <2>a, <3>1, <3>2
    <2>2. CASE FindKey(c)
      <3>1. \/ call' = [call EXCEPT ![c] = at("running")]
            \/ \E result \in {"ok", "in_flight"} : call' = [call EXCEPT ![c] = Settled(done(result, "none"))]
        BY <2>2 DEF FindKey, Goto, Finish
      <3>2. UNCHANGED drain
        BY <2>2 DEF FindKey, drainVars
      <3> HIDE DEF at, done
      <3> QED BY <1>3, <2>a, <2>b, <3>1, <3>2
    <2>3. CASE HandlerSucceeds(c)
      <3>1. call' = [call EXCEPT ![c] = Settled(done("ok", "record"))]
        BY <2>3 DEF HandlerSucceeds, Finish
      <3>2. UNCHANGED drain
        BY <2>3 DEF HandlerSucceeds, drainVars
      <3> HIDE DEF done
      <3> QED BY <1>3, <2>b, <3>1, <3>2
    <2>4. CASE BookKey(c)
      <3> DEFINE k == [call[c] EXCEPT !.book = "none"]
      <3>1. k \in CallRecord /\ k.by = call[c].by /\ k.write = call[c].write /\ k.step = call[c].step
        BY <2>0 DEF CallRecord
      <3>2. call' = [call EXCEPT ![c] = Settled(k)] /\ UNCHANGED drain
        BY <2>4 DEF BookKey, drainVars
      <3> HIDE DEF k
      <3> QED BY <1>3, <3>1, <3>2
    <2>5. CASE Answer(c)
      <3> DEFINE k == [call[c] EXCEPT !.by = NoOne]
      <3>1. k \in CallRecord /\ k.by = NoOne
        BY <2>0 DEF CallRecord
      <3>2. PICK r \in {k, Free} : call' = [call EXCEPT ![c] = r] /\ r \in CallRecord /\ r.by = NoOne
        BY <2>5, <3>1, SettledType, FreeType DEF Answer
      <3>3. call[c].by \in Drains /\ call[c].by # NoOne
        BY <2>0, <2>5 DEF Answer, CallRecord
      <3>4. \A e \in Drains \ {call[c].by} : drain'[e] = drain[e]
        BY <1>0, <2>5, <3>3, HearsEffect DEF Answer
      <3> QED BY <1>0, <3>2, <3>3, <3>4, WaitsForOthers
    <2> QED BY <1>4, <2>1, <2>2, <2>3, <2>4, <2>5 DEF Serves
  <1>5. ASSUME Fails PROVE Waits'
    <2>1. ASSUME NEW c \in Calls, HandlerFails(c) PROVE Waits'
      <3>1. PICK result \in {"refused", "not_ready"} : Finish(c, result, "release")
        BY <2>1 DEF HandlerFails
      <3> DEFINE k == [call[c] EXCEPT !.step = "done", !.result = result, !.book = "release"]
      <3>2. k \in CallRecord /\ k.by = call[c].by /\ k.write = call[c].write /\ k.step = "done"
        BY <1>0 DEF CallType, CallRecord
      <3>3. call' = [call EXCEPT ![c] = Settled(k)] /\ UNCHANGED drain
        BY <2>1, <3>1 DEF HandlerFails, Finish, drainVars
      <3> HIDE DEF k
      <3> QED BY <1>3, <3>2, <3>3
    <2>1a. ASSUME NEW c \in Calls, HandlerThrowsLate(c) PROVE Waits'
      <3> DEFINE k == [call[c] EXCEPT !.step = "done", !.result = "refused", !.book = "release"]
      <3>1. k \in CallRecord /\ k.by = call[c].by /\ k.write = call[c].write /\ k.step = "done"
        BY <1>0 DEF CallType, CallRecord
      <3>2. call' = [call EXCEPT ![c] = Settled(k)] /\ UNCHANGED drain
        BY <2>1a DEF HandlerThrowsLate, Finish, drainVars
      <3> HIDE DEF k
      <3> QED BY <1>3, <3>1, <3>2
    <2>2. ASSUME NEW c \in Calls, BookingFails(c) PROVE Waits'
      <3> DEFINE k == [call[c] EXCEPT !.book = "none"]
      <3>1. k \in CallRecord /\ k.by = call[c].by /\ k.write = call[c].write /\ k.step = call[c].step
        BY <1>0 DEF CallType, CallRecord
      <3>2. call' = [call EXCEPT ![c] = Settled(k)] /\ UNCHANGED drain
        BY <2>2 DEF BookingFails, drainVars
      <3> HIDE DEF k
      <3> QED BY <1>3, <3>1, <3>2
    <2>3. ASSUME NEW c \in Calls, LoseAnswer(c) PROVE Waits'
      <3> DEFINE k == [call[c] EXCEPT !.by = NoOne]
      <3>1. k \in CallRecord /\ k.by = NoOne
        BY <1>0 DEF CallType, CallRecord
      <3>2. PICK r \in {k, Free} : call' = [call EXCEPT ![c] = r] /\ r \in CallRecord /\ r.by = NoOne
        BY <2>3, <3>1, SettledType, FreeType DEF LoseAnswer
      <3>3. call[c].by \in Drains /\ call[c].by # NoOne
        BY <1>0, <2>3 DEF LoseAnswer, CallType, CallRecord
      <3>4. \A e \in Drains \ {call[c].by} : drain'[e] = drain[e]
        BY <1>0, <2>3, <3>3, StopEffect DEF LoseAnswer, HearsNothing
      <3> QED BY <1>0, <3>2, <3>3, <3>4, WaitsForOthers
    <2>4. ASSUME NEW d \in Drains, UploadFails(d) PROVE Waits'
      BY <1>0, <2>4, WaitsElsewhere, AdvanceEffect DEF UploadFails
    <2>5. CASE ServerCrashes
      BY <2>5, FreeType DEF ServerCrashes, Waits
    <2>6. CASE AppRestarts
      <3> DEFINE k(c) == [call[c] EXCEPT !.by = NoOne]
      <3>1. \A c \in Calls : k(c) \in CallRecord /\ k(c).by = NoOne
        BY <1>0 DEF CallType, CallRecord
      <3>2. call' = [c \in Calls |-> Settled(k(c))]
        BY <2>6 DEF AppRestarts
      <3> HIDE DEF k
      <3>3. \A c \in Calls : call'[c].by = NoOne
        BY <3>1, <3>2, SettledFields
      <3> QED BY <3>3 DEF Waits
    <2> QED BY <1>5, <2>1, <2>1a, <2>2, <2>3, <2>4, <2>5, <2>6 DEF Fails
  <1>6. ASSUME NEW w \in Writes, NotAnswered(w) \/ QueueWrite(w) PROVE Waits'
    BY <1>1, <1>6 DEF NotAnswered, QueueWrite, drainVars
  <1>7. CASE LoadEnds \/ ShowQueued
    BY <1>1, <1>7 DEF LoadEnds, ShowQueued, drainVars
  <1>8. CASE UNCHANGED vars
    BY <1>1, <1>8 DEF vars, drainVars
  <1> QED BY <1>2, <1>4, <1>5, <1>6, <1>7, <1>8 DEF Next

LEMMA TypesInit == Init => Types /\ Waits
  <1> SUFFICES ASSUME Init PROVE Types /\ Waits
    OBVIOUS
  <1>1. PhoneType
    BY EmptyType DEF Init, PhoneType
  <1>2. DrainType
    BY OffType DEF Init, DrainType
  <1>3. CallType
    BY FreeType DEF Init, CallType
  <1>4. KeyType /\ LogType
    BY DEF Init, KeyType, LogType
  <1>5. Waits
    BY FreeType DEF Init, Waits
  <1> QED BY <1>1, <1>2, <1>3, <1>4, <1>5 DEF Types

LEMMA TypesAlways == Spec => [](Types /\ Waits)
  <1>1. Types /\ Waits /\ [Next]_vars => (Types /\ Waits)'
    BY TypeStep, WaitsStep
  <1> QED BY <1>1, TypesInit, PTL DEF Spec

\* The states of the queue, the drains, the requests and the keys stay within
\* their types, and a drain that sends or waits has an entry to send.
THEOREM TypeCorrect == Spec => []TypeOK
  <1>1. Types => TypeOK
    BY DEF Types, TypeOK, PhoneType, DrainType, CallType, KeyType, LogType
  <1> QED BY <1>1, TypesAlways, PTL

---------------------------------------------------------------------------
(* Once per key                                                            *)

\* The requests that hold w's row: at their handler, or about to release it.
Holders(w) ==
  {c \in Calls : call[c].write = w /\ (call[c].step = "running" \/ call[c].book = "release")}

\* Each time w was done, and each request that holds its row, is paid for by the
\* row, by a request that found the row deleted or by a handler that threw late.
RunsOnce ==
  /\ \A c \in Calls : call[c].book # "none" => call[c].step = "done"
  /\ \A w \in Writes :
       ran[w] + Cardinality(Holders(w)) <= gone[w] + threw[w] + (IF row[w] = "none" THEN 0 ELSE 1)

LEMMA Holding ==
  ASSUME NEW S \in SUBSET Calls, NEW T \in SUBSET Calls, S \subseteq T
  PROVE  Cardinality(S) \in Nat /\ Cardinality(T) \in Nat /\ Cardinality(S) <= Cardinality(T)
  BY FS_Subset, FS_CardinalityType

LEMMA HoldingOneMore ==
  ASSUME NEW S \in SUBSET Calls, NEW c \in Calls
  PROVE  /\ Cardinality(S) \in Nat
         /\ Cardinality(S \cup {c}) \in Nat
         /\ Cardinality(S \cup {c}) <= Cardinality(S) + 1
         /\ c \in S => Cardinality(S \ {c}) \in Nat /\ Cardinality(S \ {c}) = Cardinality(S) - 1
  <1>1. IsFiniteSet(S)
    BY FS_Subset
  <1>2. IsFiniteSet(S \cup {c}) /\ IsFiniteSet(S \ {c})
    BY <1>1, FS_AddElement, FS_RemoveElement
  <1>3. Cardinality(S) \in Nat /\ Cardinality(S \cup {c}) \in Nat /\ Cardinality(S \ {c}) \in Nat
    BY <1>1, <1>2, FS_CardinalityType
  <1>4. Cardinality(S \cup {c}) = IF c \in S THEN Cardinality(S) ELSE Cardinality(S) + 1
    BY <1>1, FS_AddElement
  <1>5. Cardinality(S \ {c}) = IF c \in S THEN Cardinality(S) - 1 ELSE Cardinality(S)
    BY <1>1, FS_RemoveElement
  <1> QED BY <1>3, <1>4, <1>5

\* The keys are not touched, and no request comes to hold one.
LEMMA RunsOnceKept ==
  ASSUME KeyType, RunsOnce, UNCHANGED keyVars,
         \A c \in Calls :
           /\ call'[c].book # "none" => call'[c].step = "done"
           /\ call'[c].step = "running" \/ call'[c].book = "release" =>
                /\ call[c].step = "running" \/ call[c].book = "release"
                /\ call'[c].write = call[c].write
  PROVE  RunsOnce'
  <1> SUFFICES ASSUME NEW w \in Writes
               PROVE  (ran[w] + Cardinality(Holders(w)) <= gone[w] + threw[w] + (IF row[w] = "none" THEN 0 ELSE 1))'
    BY DEF RunsOnce
  <1>1. Holders(w)' \subseteq Holders(w) /\ Holders(w) \in SUBSET Calls /\ Holders(w)' \in SUBSET Calls
    BY DEF Holders
  <1>2. Cardinality(Holders(w)') \in Nat /\ Cardinality(Holders(w)) \in Nat
          /\ Cardinality(Holders(w)') <= Cardinality(Holders(w))
    BY <1>1, Holding
  <1>3. ran' = ran /\ gone' = gone /\ threw' = threw /\ row' = row
    BY DEF keyVars
  <1> QED BY <1>2, <1>3 DEF RunsOnce, KeyType

Holds(k) == IF k.step = "running" \/ k.book = "release" THEN 1 ELSE 0
Kept(state) == IF state = "none" THEN 0 ELSE 1

\* One request takes a step at its key, w.
LEMMA RunsOnceAt ==
  ASSUME Types, RunsOnce, NEW c \in Calls, NEW r \in CallRecord, NEW w \in Writes,
         call[c].write = w, call' = [call EXCEPT ![c] = r],
         r.book # "none" => r.step = "done",
         r.step = "running" \/ r.book = "release" => r.write = w,
         \A v \in Writes \ {w} : ran'[v] = ran[v] /\ gone'[v] = gone[v] /\ threw'[v] = threw[v] /\ row'[v] = row[v],
         ran'[w] \in Nat, gone'[w] \in Nat, threw'[w] \in Nat,
         (ran'[w] - ran[w]) + (Holds(r) - Holds(call[c])) <=
           (gone'[w] - gone[w]) + (threw'[w] - threw[w]) + (Kept(row'[w]) - Kept(row[w]))
  PROVE  RunsOnce'
  <1>0. KeyType /\ CallType
    BY DEF Types
  <1>1. \A b \in Calls : call'[b] = IF b = c THEN r ELSE call[b]
    BY <1>0 DEF CallType
  <1>2. ASSUME NEW v \in Writes \ {w}
        PROVE  (ran[v] + Cardinality(Holders(v)) <= gone[v] + threw[v] + (IF row[v] = "none" THEN 0 ELSE 1))'
    <2>1. Holders(v)' = Holders(v)
      BY <1>1 DEF Holders
    <2> QED BY <2>1 DEF RunsOnce
  <1>3. (ran[w] + Cardinality(Holders(w)) <= gone[w] + threw[w] + (IF row[w] = "none" THEN 0 ELSE 1))'
    <2> DEFINE S == Holders(w)
               T == Holders(w)'
               holds == call[c].step = "running" \/ call[c].book = "release"
               will == r.step = "running" \/ r.book = "release"
    <2>1. S \in SUBSET Calls /\ (c \in S <=> holds)
      BY DEF Holders
    <2>2. T = IF will THEN S \cup {c} ELSE S \ {c}
      BY <1>1 DEF Holders
    <2>3. ran[w] \in Nat /\ gone[w] \in Nat /\ threw[w] \in Nat
      BY <1>0 DEF KeyType
    <2>4. ran[w] + Cardinality(S) <= gone[w] + threw[w] + (IF row[w] = "none" THEN 0 ELSE 1)
      BY DEF RunsOnce
    <2>5. Cardinality(S) \in Nat /\ Cardinality(T) \in Nat
            /\ Cardinality(T) <= Cardinality(S) + ((IF will THEN 1 ELSE 0) - (IF holds THEN 1 ELSE 0))
      <3> HIDE DEF S, T, holds, will
      <3>1. /\ Cardinality(S) \in Nat /\ Cardinality(S \cup {c}) \in Nat
            /\ Cardinality(S \cup {c}) <= Cardinality(S) + 1
            /\ holds => Cardinality(S \ {c}) \in Nat /\ Cardinality(S \ {c}) = Cardinality(S) - 1
        BY <2>1, HoldingOneMore
      <3>2. holds => S \cup {c} = S
        BY <2>1
      <3>3. ~holds => S \ {c} = S
        BY <2>1
      <3>4. CASE will
        <4>1. T = S \cup {c}
          BY <2>2, <3>4
        <4>2. holds => Cardinality(S \cup {c}) = Cardinality(S)
          BY <3>2
        <4> QED BY <3>1, <3>4, <4>1, <4>2
      <3>5. CASE ~will
        <4>1. T = S \ {c}
          BY <2>2, <3>5
        <4>2. ~holds => Cardinality(S \ {c}) = Cardinality(S)
          BY <3>3
        <4> QED BY <3>1, <3>5, <4>1, <4>2
      <3> QED BY <3>4, <3>5
    <2>6. (ran'[w] - ran[w]) + ((IF will THEN 1 ELSE 0) - (IF holds THEN 1 ELSE 0)) <=
            (gone'[w] - gone[w]) + (threw'[w] - threw[w]) +
              ((IF row'[w] = "none" THEN 0 ELSE 1) - (IF row[w] = "none" THEN 0 ELSE 1))
      BY DEF Holds, Kept
    <2>7. ran'[w] + Cardinality(T) <= gone'[w] + threw'[w] + (IF row'[w] = "none" THEN 0 ELSE 1)
      <3> HIDE DEF S, T, holds, will
      <3> QED BY <2>3, <2>4, <2>5, <2>6
    <2> QED BY <2>7
  <1>4. \A b \in Calls : call'[b].book # "none" => call'[b].step = "done"
    BY <1>1 DEF RunsOnce
  <1> QED BY <1>2, <1>3, <1>4 DEF RunsOnce

\* What a request looks like after losing its drain, or its bookkeeping.
LEMMA RunsOnceForLess ==
  ASSUME Types, RunsOnce, UNCHANGED keyVars,
         \A b \in Calls : \/ call'[b] = call[b] \/ call'[b] = Free
                          \/ call'[b] = [call[b] EXCEPT !.by = NoOne]
                          \/ call'[b] = [call[b] EXCEPT !.book = "none"]
  PROVE  RunsOnce'
  <1>1. \A b \in Calls : call[b] \in CallRecord
    BY DEF Types, CallType
  <1>2. ASSUME NEW b \in Calls
        PROVE  /\ call'[b].book # "none" => call'[b].step = "done"
               /\ call'[b].step = "running" \/ call'[b].book = "release" =>
                    /\ call[b].step = "running" \/ call[b].book = "release"
                    /\ call'[b].write = call[b].write
    <2>0. call[b].book # "none" => call[b].step = "done"
      BY DEF RunsOnce
    <2>1. CASE call'[b] = call[b]
      BY <2>0, <2>1
    <2>2. CASE call'[b] = Free
      BY <2>2 DEF Free
    <2>3. CASE call'[b] = [call[b] EXCEPT !.by = NoOne]
      BY <1>1, <2>0, <2>3 DEF CallRecord
    <2>4. CASE call'[b] = [call[b] EXCEPT !.book = "none"]
      BY <1>1, <2>0, <2>4 DEF CallRecord
    <2> QED BY <2>1, <2>2, <2>3, <2>4
  <1>3. KeyType
    BY DEF Types
  <1> QED BY <1>2, <1>3, RunsOnceKept

LEMMA RunsOnceStep == Types /\ RunsOnce /\ [Next]_vars => RunsOnce'
  <1> SUFFICES ASSUME Types, RunsOnce, [Next]_vars PROVE RunsOnce'
    OBVIOUS
  <1>0. KeyType /\ CallType
    BY DEF Types
  <1>1. CASE UNCHANGED call /\ UNCHANGED keyVars
    BY <1>1, RunsOnceForLess
  <1>2. ASSUME NEW d \in Drains, Phone(d) PROVE RunsOnce'
    <2>1. CASE BeginDrain(d) \/ Flush(d) \/ Upload(d)
      BY <1>1, <2>1 DEF BeginDrain, Flush, Upload
    <2>2. ASSUME NEW c \in Calls, SendNext(d, c) PROVE RunsOnce'
      <3> DEFINE k == [Free EXCEPT !.step = "sent", !.write = Head(drain[d].todo), !.by = d]
      <3>1. k.step = "sent" /\ k.book = "none"
        BY DEF Free
      <3>2. \A b \in Calls : call'[b] = IF b = c THEN k ELSE call[b]
        BY <1>0, <2>2 DEF SendNext, CallType
      <3>3. UNCHANGED keyVars
        BY <2>2 DEF SendNext
      <3> HIDE DEF k
      <3> QED BY <1>0, <3>1, <3>2, <3>3, RunsOnceKept DEF RunsOnce
    <2> QED BY <1>2, <2>1, <2>2 DEF Phone
  <1>3. ASSUME NEW c \in Calls, Serves(c) PROVE RunsOnce'
    <2>0. call[c] \in CallRecord /\ (call[c].step # "free" => KeyOf(c) \in Writes)
      BY <1>0 DEF CallType, KeyOf
    <2> DEFINE w == KeyOf(c)
               at(step) == [call[c] EXCEPT !.step = step]
               done(result, book) == [call[c] EXCEPT !.step = "done", !.result = result, !.book = book]
    <2>a. call[c].book # "none" => call[c].step = "done"
      BY DEF RunsOnce
    <2>1. CASE ClaimKey(c)
      <3>0. w \in Writes /\ call[c].book = "none" /\ call[c].step = "sent"
        BY <2>0, <2>1, <2>a DEF ClaimKey, CallRecord
      <3>1. \A step \in {"taken", "running"} :
              at(step) \in CallRecord /\ at(step).write = w /\ at(step).step = step /\ at(step).book = "none"
        BY <2>0, <3>0 DEF CallRecord, KeyOf
      <3>2. CASE row[w] = "none"
        <4> DEFINE r == at("running")
        <4>1. call' = [call EXCEPT ![c] = r] /\ row' = [row EXCEPT ![w] = "claimed"]
                /\ ran' = ran /\ gone' = gone /\ threw' = threw
          BY <2>1, <3>2 DEF ClaimKey, Goto
        <4>2. ran'[w] \in Nat /\ gone'[w] \in Nat /\ ran'[w] - ran[w] = 0 /\ gone'[w] - gone[w] = 0
                /\ threw'[w] \in Nat /\ threw'[w] - threw[w] = 0
          BY <1>0, <3>0, <4>1 DEF KeyType
        <4>3. row'[w] = "claimed" /\ \A v \in Writes \ {w} : row'[v] = row[v]
          BY <1>0, <3>0, <4>1 DEF KeyType
        <4>4. r \in CallRecord /\ r.write = w /\ r.step = "running" /\ r.book = "none"
          BY <3>1
        <4>5. call[c].write = w
          BY DEF KeyOf
        <4>6. Holds(r) = 1 /\ Holds(call[c]) = 0 /\ Kept(row'[w]) = 1 /\ Kept(row[w]) = 0
          BY <3>0, <3>2, <4>3, <4>4 DEF Holds, Kept
        <4> HIDE DEF r, w
        <4>7. (ran'[w] - ran[w]) + (Holds(r) - Holds(call[c])) <=
                (gone'[w] - gone[w]) + (threw'[w] - threw[w]) + (Kept(row'[w]) - Kept(row[w]))
          BY <4>2, <4>6
        <4> QED BY <3>0, <4>1, <4>2, <4>3, <4>4, <4>5, <4>7, RunsOnceAt
      <3>3. CASE row[w] # "none"
        <4>1. call' = [call EXCEPT ![c] = at("taken")] /\ UNCHANGED keyVars
          BY <2>1, <3>3 DEF ClaimKey, Goto, keyVars
        <4>2. \A b \in Calls : call'[b] = IF b = c THEN at("taken") ELSE call[b]
          BY <1>0, <4>1 DEF CallType
        <4> HIDE DEF at
        <4> QED BY <1>0, <3>1, <4>1, <4>2, RunsOnceKept DEF RunsOnce
      <3> QED BY <3>2, <3>3
    <2>2. CASE FindKey(c)
      <3>0. w \in Writes /\ call[c].book = "none" /\ call[c].step = "taken"
        BY <2>0, <2>2, <2>a DEF FindKey, CallRecord
      <3>1. CASE row[w] = "none" /\ gone' = [gone EXCEPT ![w] = @ + 1] /\ Goto(c, "running")
        <4> DEFINE r == at("running")
        <4>1. r \in CallRecord /\ r.write = w /\ r.step = "running" /\ r.book = "none"
          BY <2>0, <3>0 DEF CallRecord, KeyOf
        <4>2. call' = [call EXCEPT ![c] = r] /\ row' = row /\ ran' = ran /\ threw' = threw
          BY <2>2, <3>1 DEF FindKey, Goto
        <4>3. ran'[w] \in Nat /\ gone'[w] \in Nat /\ ran'[w] - ran[w] = 0 /\ gone'[w] - gone[w] = 1
                /\ threw'[w] \in Nat /\ threw'[w] - threw[w] = 0
          BY <1>0, <3>0, <3>1, <4>2 DEF KeyType
        <4>4. \A v \in Writes \ {w} : gone'[v] = gone[v]
          BY <1>0, <3>0, <3>1 DEF KeyType
        <4>5. call[c].write = w
          BY DEF KeyOf
        <4>6. Holds(r) = 1 /\ Holds(call[c]) = 0 /\ Kept(row'[w]) = Kept(row[w]) /\ Kept(row[w]) \in {0, 1}
          BY <3>0, <4>1, <4>2 DEF Holds, Kept
        <4> HIDE DEF r, w
        <4>7. (ran'[w] - ran[w]) + (Holds(r) - Holds(call[c])) <=
                (gone'[w] - gone[w]) + (threw'[w] - threw[w]) + (Kept(row'[w]) - Kept(row[w]))
          BY <4>3, <4>6
        <4> QED BY <3>0, <4>1, <4>2, <4>3, <4>4, <4>5, <4>7, RunsOnceAt
      <3>2. CASE UNCHANGED gone /\ \E result \in {"ok", "in_flight"} : Finish(c, result, "none")
        <4>1. PICK result \in {"ok", "in_flight"} : call' = [call EXCEPT ![c] = Settled(done(result, "none"))]
          BY <3>2 DEF Finish
        <4>2. UNCHANGED keyVars
          BY <2>2, <3>2 DEF FindKey, keyVars
        <4>3. done(result, "none") \in CallRecord /\ done(result, "none").step = "done"
                /\ done(result, "none").book = "none"
          BY <2>0 DEF CallRecord
        <4> DEFINE r == Settled(done(result, "none"))
        <4>4. r.book = "none" /\ r.step # "running"
          BY <4>3, SettledFields
        <4>5. \A b \in Calls : call'[b] = IF b = c THEN r ELSE call[b]
          BY <1>0, <4>1 DEF CallType
        <4> HIDE DEF r
        <4> QED BY <1>0, <4>2, <4>4, <4>5, RunsOnceKept DEF RunsOnce
      <3> QED BY <2>2, <3>1, <3>2 DEF FindKey
    <2>3. CASE HandlerSucceeds(c)
      <3>0. w \in Writes /\ call[c].book = "none" /\ call[c].step = "running"
        BY <2>0, <2>3, <2>a DEF HandlerSucceeds, CallRecord
      <3> DEFINE r == done("ok", "record")
      <3>1. r \in CallRecord /\ r.write = w /\ r.step = "done" /\ r.book = "record"
        BY <2>0, <3>0 DEF CallRecord, KeyOf
      <3>2. call' = [call EXCEPT ![c] = r] /\ row' = row /\ gone' = gone /\ threw' = threw
              /\ ran' = [ran EXCEPT ![w] = @ + 1]
        <4>1. Settled(r) = r
          BY <3>1, SettledFields
        <4> QED BY <2>3, <4>1 DEF HandlerSucceeds, Finish
      <3>3. ran'[w] \in Nat /\ gone'[w] \in Nat /\ ran'[w] - ran[w] = 1 /\ gone'[w] - gone[w] = 0
              /\ threw'[w] \in Nat /\ threw'[w] - threw[w] = 0
        BY <1>0, <3>0, <3>2 DEF KeyType
      <3>4. \A v \in Writes \ {w} : ran'[v] = ran[v]
        BY <1>0, <3>0, <3>2 DEF KeyType
      <3>5. call[c].write = w
        BY DEF KeyOf
      <3>6. Holds(r) = 0 /\ Holds(call[c]) = 1 /\ Kept(row'[w]) = Kept(row[w]) /\ Kept(row[w]) \in {0, 1}
        BY <3>0, <3>1, <3>2 DEF Holds, Kept
      <3> HIDE DEF r, w
      <3>7. (ran'[w] - ran[w]) + (Holds(r) - Holds(call[c])) <=
              (gone'[w] - gone[w]) + (threw'[w] - threw[w]) + (Kept(row'[w]) - Kept(row[w]))
        BY <3>3, <3>6
      <3> QED BY <3>0, <3>1, <3>2, <3>3, <3>4, <3>5, <3>7, RunsOnceAt
    <2>4. CASE BookKey(c)
      <3>0. w \in Writes /\ call[c].step = "done"
        BY <2>0, <2>4, <2>a DEF BookKey
      <3> DEFINE k == [call[c] EXCEPT !.book = "none"]
                 r == Settled(k)
      <3>1. k \in CallRecord /\ k.write = w /\ k.step = "done" /\ k.book = "none"
        BY <2>0, <3>0 DEF CallRecord, KeyOf
      <3>2. r \in CallRecord /\ r.book = "none" /\ r.step # "running"
        <4> HIDE DEF k
        <4> QED BY <3>1, SettledFields, FreeType
      <3>3. call' = [call EXCEPT ![c] = r] /\ ran' = ran /\ gone' = gone /\ threw' = threw
              /\ row' = [row EXCEPT ![w] = IF @ = "none" THEN "none"
                                           ELSE IF call[c].book = "record" THEN "recorded"
                                           ELSE IF @ = "claimed" THEN "none" ELSE @]
        BY <2>4 DEF BookKey
      <3>4. ran'[w] \in Nat /\ gone'[w] \in Nat /\ ran'[w] - ran[w] = 0 /\ gone'[w] - gone[w] = 0
              /\ threw'[w] \in Nat /\ threw'[w] - threw[w] = 0
        BY <1>0, <3>0, <3>3 DEF KeyType
      <3>5. \A v \in Writes \ {w} : row'[v] = row[v]
        BY <1>0, <3>0, <3>3 DEF KeyType
      <3>6. row[w] = "none" <=> (row'[w] = "none" /\ ~(call[c].book # "record" /\ row[w] = "claimed"))
        BY <1>0, <3>0, <3>3 DEF KeyType
      <3>7. call[c].write = w
        BY DEF KeyOf
      <3>8. call[c].book = "record" \/ call[c].book = "release"
        BY <2>0, <2>4 DEF BookKey, CallRecord
      <3> HIDE DEF r, w, k
      <3>9. Holds(r) = 0 /\ Holds(call[c]) \in {0, 1} /\ Kept(row'[w]) \in {0, 1} /\ Kept(row[w]) \in {0, 1}
              /\ Holds(r) - Holds(call[c]) <= Kept(row'[w]) - Kept(row[w])
        BY <3>0, <3>2, <3>6, <3>8 DEF Holds, Kept
      <3>10. (ran'[w] - ran[w]) + (Holds(r) - Holds(call[c])) <=
               (gone'[w] - gone[w]) + (threw'[w] - threw[w]) + (Kept(row'[w]) - Kept(row[w]))
        BY <3>4, <3>9
      <3> QED BY <3>0, <3>2, <3>3, <3>4, <3>5, <3>7, <3>10, RunsOnceAt
    <2>5. CASE Answer(c)
      <3>1. \A b \in Calls : call'[b] = IF b = c THEN Settled([call[c] EXCEPT !.by = NoOne]) ELSE call[b]
        BY <1>0, <2>5 DEF Answer, CallType
      <3>2. [call[c] EXCEPT !.by = NoOne] \in CallRecord
        BY <2>0 DEF CallRecord
      <3>3. UNCHANGED keyVars
        BY <2>5 DEF Answer
      <3> QED BY <3>1, <3>2, <3>3, SettledType, RunsOnceForLess
    <2> QED BY <1>3, <2>1, <2>2, <2>3, <2>4, <2>5 DEF Serves
  <1>4. CASE Fails
    <2>1. ASSUME NEW c \in Calls, HandlerFails(c) PROVE RunsOnce'
      <3>1. PICK result \in {"refused", "not_ready"} : Finish(c, result, "release")
        BY <2>1 DEF HandlerFails
      <3> DEFINE r == [call[c] EXCEPT !.step = "done", !.result = result, !.book = "release"]
      <3>0. call[c] \in CallRecord
        BY <1>0 DEF CallType
      <3>2. r \in CallRecord /\ r.write = call[c].write /\ r.step = "done" /\ r.book = "release"
        BY <3>0 DEF CallRecord
      <3>3. call' = [call EXCEPT ![c] = r] /\ UNCHANGED keyVars
        <4>1. Settled(r) = r
          BY <3>2, SettledFields
        <4> QED BY <2>1, <3>1, <4>1 DEF HandlerFails, Finish
      <3>4. \A b \in Calls : call'[b] = IF b = c THEN r ELSE call[b]
        BY <1>0, <3>3 DEF CallType
      <3>5. call[c].step = "running"
        BY <2>1 DEF HandlerFails
      <3> HIDE DEF r
      <3> QED BY <1>0, <3>2, <3>3, <3>4, <3>5, RunsOnceKept DEF RunsOnce
    <2>1a. ASSUME NEW c \in Calls, HandlerThrowsLate(c) PROVE RunsOnce'
      <3> DEFINE w == KeyOf(c)
                 r == [call[c] EXCEPT !.step = "done", !.result = "refused", !.book = "release"]
      <3>0. call[c] \in CallRecord /\ call[c].step = "running" /\ w \in Writes /\ call[c].write = w
        BY <1>0, <2>1a DEF HandlerThrowsLate, CallType, KeyOf
      <3>1. r \in CallRecord /\ r.write = w /\ r.step = "done" /\ r.book = "release"
        BY <3>0 DEF CallRecord
      <3>2. call' = [call EXCEPT ![c] = r] /\ row' = row /\ gone' = gone
              /\ ran' = [ran EXCEPT ![w] = @ + 1] /\ threw' = [threw EXCEPT ![w] = @ + 1]
        <4>1. Settled(r) = r
          BY <3>1, SettledFields
        <4> QED BY <2>1a, <4>1 DEF HandlerThrowsLate, Finish
      <3>3. ran'[w] \in Nat /\ gone'[w] \in Nat /\ threw'[w] \in Nat
              /\ ran'[w] - ran[w] = 1 /\ gone'[w] - gone[w] = 0 /\ threw'[w] - threw[w] = 1
        BY <1>0, <3>0, <3>2 DEF KeyType
      <3>4. \A v \in Writes \ {w} : ran'[v] = ran[v] /\ threw'[v] = threw[v]
        BY <1>0, <3>0, <3>2 DEF KeyType
      <3>5. Holds(r) = 1 /\ Holds(call[c]) = 1 /\ Kept(row'[w]) = Kept(row[w]) /\ Kept(row[w]) \in {0, 1}
        BY <3>0, <3>1, <3>2 DEF Holds, Kept
      <3> HIDE DEF r, w
      <3>6. (ran'[w] - ran[w]) + (Holds(r) - Holds(call[c])) <=
              (gone'[w] - gone[w]) + (threw'[w] - threw[w]) + (Kept(row'[w]) - Kept(row[w]))
        BY <3>3, <3>5
      <3> QED BY <3>0, <3>1, <3>2, <3>3, <3>4, <3>6, RunsOnceAt
    <2>2. ASSUME NEW c \in Calls, BookingFails(c) PROVE RunsOnce'
      <3>1. \A b \in Calls : call'[b] = IF b = c THEN Settled([call[c] EXCEPT !.book = "none"]) ELSE call[b]
        BY <1>0, <2>2 DEF BookingFails, CallType
      <3>2. [call[c] EXCEPT !.book = "none"] \in CallRecord
        BY <1>0 DEF CallType, CallRecord
      <3>3. UNCHANGED keyVars
        BY <2>2 DEF BookingFails
      <3> QED BY <3>1, <3>2, <3>3, SettledType, RunsOnceForLess
    <2>3. ASSUME NEW c \in Calls, LoseAnswer(c) PROVE RunsOnce'
      <3>1. \A b \in Calls : call'[b] =
              IF b # c THEN call[b] ELSE call'[c]
        BY <1>0, <2>3 DEF LoseAnswer, CallType
      <3>2. call'[c] = Free \/ call'[c] = Settled([call[c] EXCEPT !.by = NoOne])
        BY <1>0, <2>3 DEF LoseAnswer, CallType
      <3>3. [call[c] EXCEPT !.by = NoOne] \in CallRecord
        BY <1>0 DEF CallType, CallRecord
      <3>4. UNCHANGED keyVars /\ \A b \in Calls \ {c} : call'[b] = call[b]
        BY <1>0, <2>3 DEF LoseAnswer, CallType
      <3> QED BY <3>2, <3>3, <3>4, SettledType, RunsOnceForLess
    <2>4. ASSUME NEW d \in Drains, UploadFails(d) PROVE RunsOnce'
      BY <1>1, <2>4 DEF UploadFails
    <2>5. CASE ServerCrashes
      BY <2>5, RunsOnceForLess DEF ServerCrashes
    <2>6. CASE AppRestarts
      <3>1. \A b \in Calls : [call[b] EXCEPT !.by = NoOne] \in CallRecord
        BY <1>0 DEF CallType, CallRecord
      <3>2. \A b \in Calls : call'[b] = Settled([call[b] EXCEPT !.by = NoOne])
        BY <2>6 DEF AppRestarts
      <3>3. UNCHANGED keyVars
        BY <2>6 DEF AppRestarts
      <3> QED BY <3>1, <3>2, <3>3, SettledType, RunsOnceForLess
    <2> QED BY <1>4, <2>1, <2>1a, <2>2, <2>3, <2>4, <2>5, <2>6 DEF Fails
  <1>5. ASSUME NEW w \in Writes, NotAnswered(w) \/ QueueWrite(w) PROVE RunsOnce'
    BY <1>1, <1>5 DEF NotAnswered, QueueWrite
  <1>6. CASE LoadEnds \/ ShowQueued
    BY <1>1, <1>6 DEF LoadEnds, ShowQueued
  <1>7. CASE UNCHANGED vars
    BY <1>1, <1>7 DEF vars
  <1> QED BY <1>2, <1>3, <1>4, <1>5, <1>6, <1>7 DEF Next

\* A queued write is done once under its key, and once more at most for each
\* request that found the key's row deleted and each handler that threw after its
\* commit, through lost answers, failed bookkeeping, crashes and restarts.
THEOREM KeysRunOnce == Spec => []KeyRunsOnce
  <1>1. Init => RunsOnce
    <2> SUFFICES ASSUME Init PROVE RunsOnce
      OBVIOUS
    <2>1. \A w \in Writes : Holders(w) = {}
      BY DEF Init, Holders, Free
    <2>2. \A w \in Writes : Cardinality(Holders(w)) = 0
      BY <2>1, FS_EmptySet
    <2> QED BY <2>2 DEF Init, RunsOnce, Free
  <1>2. Types /\ RunsOnce /\ [Next]_vars => RunsOnce'
    BY RunsOnceStep
  <1>3. Types /\ RunsOnce => KeyRunsOnce
    <2> SUFFICES ASSUME Types, RunsOnce, NEW w \in Writes PROVE ran[w] <= 1 + gone[w] + threw[w]
      BY DEF KeyRunsOnce
    <2>1. Cardinality(Holders(w)) \in Nat
      BY Holding DEF Holders
    <2> QED BY <2>1 DEF RunsOnce, Types, KeyType
  <1> QED BY <1>1, <1>2, <1>3, TypesAlways, PTL DEF Spec

---------------------------------------------------------------------------
(* What counts as sent was done                                            *)

\* Every success there is word of: a row's outcome, an answer, what is still
\* to be booked, a capture whose images are going up, a write that is gone
\* from the queue as sent.
RowsTrue == \A w \in Writes : row[w] = "recorded" => ran[w] > 0
AnswersTrue ==
  \A c \in Calls : call[c].result = "ok" \/ call[c].book = "record" =>
    call[c].step # "free" /\ ran[call[c].write] > 0
UploadsTrue == \A d \in Drains : drain[d].at = "uploading" => ran[Head(drain[d].todo)] > 0
WordIsTrue == RowsTrue /\ AnswersTrue /\ UploadsTrue /\ SentIsDone

\* Only a handler that does the write counts, and it counts up.
LEMMA RanGrows ==
  Types /\ [Next]_vars => (\/ ran' = ran \/ \E c \in Calls : HandlerSucceeds(c) \/ HandlerThrowsLate(c))
                          /\ \A w \in Writes : ran'[w] \in Nat /\ ran'[w] >= ran[w]
  <1> SUFFICES ASSUME Types, [Next]_vars
               PROVE  (\/ ran' = ran \/ \E c \in Calls : HandlerSucceeds(c) \/ HandlerThrowsLate(c))
                      /\ \A w \in Writes : ran'[w] \in Nat /\ ran'[w] >= ran[w]
    OBVIOUS
  <1>1. ran' = ran \/ \E c \in Calls : HandlerSucceeds(c) \/ HandlerThrowsLate(c)
    BY DEF Next, NotAnswered, QueueWrite, LoadEnds, ShowQueued, Phone, BeginDrain, Flush, Upload, SendNext, Serves,
           ClaimKey, FindKey, BookKey, Answer, Fails, HandlerFails, BookingFails, LoseAnswer, UploadFails,
           ServerCrashes, AppRestarts, vars, keyVars
  <1>2. CASE ran' = ran
    BY <1>1, <1>2 DEF Types, KeyType
  <1>3. ASSUME NEW c \in Calls, HandlerSucceeds(c) \/ HandlerThrowsLate(c)
        PROVE  \A w \in Writes : ran'[w] \in Nat /\ ran'[w] >= ran[w]
    BY <1>3 DEF HandlerSucceeds, HandlerThrowsLate, Types, KeyType
  <1> QED BY <1>1, <1>2, <1>3

LEMMA HearsWord ==
  ASSUME Types, NEW d \in Drains, NEW w \in Writes, NEW result, Hears(d, w, result),
         NEW v \in Writes, write'[v] = "sent"
  PROVE  write[v] = "sent" \/ (v = w /\ result = "ok")
  BY DEF Hears, Keep, MarkFailed, Remove, phoneVars, Types, PhoneType

LEMMA WordStep == Types /\ Waits /\ WordIsTrue /\ [Next]_vars => WordIsTrue'
  <1> SUFFICES ASSUME Types, Waits, WordIsTrue, [Next]_vars PROVE WordIsTrue'
    OBVIOUS
  <1>0. PhoneType /\ DrainType /\ CallType /\ KeyType
    BY DEF Types
  <1>1. \A w \in Writes : ran'[w] \in Nat /\ ran[w] \in Nat /\ ran'[w] >= ran[w]
    BY <1>0, RanGrows DEF KeyType
  <1>2. \A w \in Writes : ran[w] > 0 => ran'[w] > 0
    BY <1>1
  <1>3. \A d \in Drains : drain[d].at \in {"next", "waiting", "uploading"} => Head(drain[d].todo) \in Writes
    BY <1>0, HeadOfTodo
  <1>a. ASSUME \A w \in Writes : row'[w] = "recorded" => row[w] = "recorded" \/ ran'[w] > 0
        PROVE  RowsTrue'
    BY <1>2, <1>a DEF RowsTrue, WordIsTrue
  <1>b. ASSUME \A b \in Calls : call'[b].result = "ok" \/ call'[b].book = "record" =>
                 \/ call'[b].step # "free" /\ call'[b].write = call[b].write
                      /\ (call[b].result = "ok" \/ call[b].book = "record")
                 \/ call'[b].step # "free" /\ ran'[call'[b].write] > 0
        PROVE  AnswersTrue'
    <2> SUFFICES ASSUME NEW b \in Calls, call'[b].result = "ok" \/ call'[b].book = "record"
                 PROVE  call'[b].step # "free" /\ ran'[call'[b].write] > 0
      BY DEF AnswersTrue
    <2>1. CASE call'[b].step # "free" /\ call'[b].write = call[b].write
                 /\ (call[b].result = "ok" \/ call[b].book = "record")
      <3>1. call[b].step # "free" /\ ran[call[b].write] > 0
        BY <2>1 DEF WordIsTrue, AnswersTrue
      <3>2. call[b].write \in Writes
        BY <1>0, <3>1 DEF CallType
      <3> QED BY <1>2, <2>1, <3>1, <3>2
    <2> QED BY <1>b, <2>1
  <1>c. ASSUME \A d \in Drains : drain'[d].at = "uploading" =>
                 \/ drain'[d] = drain[d]
                 \/ drain[d].at = "waiting" /\ drain'[d].todo = drain[d].todo /\ ran[Head(drain[d].todo)] > 0
        PROVE  UploadsTrue'
    BY <1>2, <1>3, <1>c DEF UploadsTrue, WordIsTrue
  <1>d. ASSUME \A w \in Writes : write'[w] = "sent" => write[w] = "sent" \/ ran[w] > 0
        PROVE  SentIsDone'
    BY <1>2, <1>d DEF SentIsDone, WordIsTrue
  <1>e. UNCHANGED phoneVars => SentIsDone'
    BY <1>d DEF phoneVars
  <1>f. UNCHANGED drain => UploadsTrue'
    BY <1>c
  <1>g. UNCHANGED call => AnswersTrue'
    BY <1>b DEF WordIsTrue, AnswersTrue
  <1>h. UNCHANGED row => RowsTrue'
    BY <1>a
  <1>4. CASE UNCHANGED vars
    BY <1>4, <1>e, <1>f, <1>g, <1>h DEF vars, drainVars, keyVars, WordIsTrue
  <1>5. ASSUME NEW w \in Writes, NotAnswered(w) \/ QueueWrite(w) PROVE WordIsTrue'
    <2>1. \A v \in Writes : write'[v] = "sent" => write[v] = "sent"
      BY <1>0, <1>5 DEF NotAnswered, QueueWrite, PhoneType
    <2>2. UNCHANGED <<drain, call, row>>
      BY <1>5 DEF NotAnswered, QueueWrite, drainVars, keyVars
    <2> QED BY <2>1, <2>2, <1>d, <1>f, <1>g, <1>h DEF WordIsTrue
  <1>6. CASE LoadEnds \/ ShowQueued
    <2>1. UNCHANGED <<write, drain, call, row>>
      BY <1>6 DEF LoadEnds, ShowQueued, drainVars, keyVars
    <2> QED BY <2>1, <1>d, <1>f, <1>g, <1>h DEF WordIsTrue
  <1>7. ASSUME NEW d \in Drains, Phone(d) PROVE WordIsTrue'
    <2>1. CASE BeginDrain(d)
      <3>1. UploadsTrue'
        BY <1>0, <1>c, <2>1 DEF BeginDrain, DrainType, DrainRecord
      <3>2. UNCHANGED <<write, call, row>>
        BY <2>1 DEF BeginDrain, keyVars
      <3> QED BY <3>1, <3>2, <1>d, <1>g, <1>h DEF WordIsTrue
    <2>2. CASE Flush(d)
      <3>1. \A e \in Drains : drain'[e] = drain[e] \/ drain'[e].at # "uploading"
        BY <1>0, <2>2, OffType DEF Flush, DrainType
      <3>2. UNCHANGED <<write, call, row>>
        BY <2>2 DEF Flush, keyVars, phoneVars
      <3> QED BY <3>1, <3>2, <1>c, <1>d, <1>g, <1>h DEF WordIsTrue
    <2>3. CASE Upload(d)
      <3>1. \A e \in Drains : drain'[e] = drain[e] \/ drain'[e].at # "uploading"
        BY <1>0, <2>3, AdvanceEffect, OffType DEF Upload
      <3>2. ran[Head(drain[d].todo)] > 0 /\ Head(drain[d].todo) \in Writes
        BY <1>3, <2>3 DEF Upload, WordIsTrue, UploadsTrue
      <3>3. \A v \in Writes : write'[v] = "sent" => write[v] = "sent" \/ v = Head(drain[d].todo)
        BY <1>0, <2>3, <3>2 DEF Upload, Remove, PhoneType
      <3>4. UNCHANGED <<call, row>>
        BY <2>3 DEF Upload, keyVars
      <3> QED BY <3>1, <3>2, <3>3, <3>4, <1>c, <1>d, <1>g, <1>h DEF WordIsTrue
    <2>4. ASSUME NEW c \in Calls, SendNext(d, c) PROVE WordIsTrue'
      <3> DEFINE k == [Free EXCEPT !.step = "sent", !.write = Head(drain[d].todo), !.by = d]
      <3>1. k.result = "none" /\ k.book = "none"
        BY DEF Free
      <3>2. \A b \in Calls : call'[b] = IF b = c THEN k ELSE call[b]
        BY <1>0, <2>4 DEF SendNext, CallType
      <3>3. AnswersTrue'
        <4> HIDE DEF k
        <4> QED BY <3>1, <3>2, <1>b DEF WordIsTrue, AnswersTrue
      <3>4. UploadsTrue'
        BY <1>0, <1>c, <2>4 DEF SendNext, DrainType, DrainRecord
      <3>5. UNCHANGED <<write, row>>
        BY <2>4 DEF SendNext, phoneVars, keyVars
      <3> QED BY <3>3, <3>4, <3>5, <1>d, <1>h DEF WordIsTrue
    <2> QED BY <1>7, <2>1, <2>2, <2>3, <2>4 DEF Phone
  <1>8. ASSUME NEW c \in Calls, NEW k \in CallRecord, k.write = call[c].write,
               call' = [call EXCEPT ![c] = k] \/ call' = [call EXCEPT ![c] = Settled(k)],
               k.result = "ok" \/ k.book = "record" =>
                 \/ call[c].result = "ok" \/ call[c].book = "record"
                 \/ ran'[k.write] > 0 /\ k.step # "free",
               k.step # "free" \/ k.step = call[c].step
        PROVE  AnswersTrue'
    <2>1. PICK r \in {k, Free} : call' = [call EXCEPT ![c] = r]
      BY <1>8, SettledType
    <2>2. \A b \in Calls : call'[b] = IF b = c THEN r ELSE call[b]
      BY <1>0, <2>1 DEF CallType
    <2>3. Free.result = "none" /\ Free.book = "none"
      BY DEF Free
    <2>4. call[c].result = "ok" \/ call[c].book = "record" => call[c].step # "free"
      BY DEF WordIsTrue, AnswersTrue
    <2> QED BY <1>8, <1>b, <2>1, <2>2, <2>3, <2>4 DEF WordIsTrue, AnswersTrue
  <1>9. ASSUME NEW c \in Calls, Serves(c) PROVE WordIsTrue'
    <2>0. call[c] \in CallRecord /\ (call[c].step # "free" => KeyOf(c) \in Writes)
      BY <1>0 DEF CallType, KeyOf
    <2> DEFINE at(step) == [call[c] EXCEPT !.step = step]
               done(result, book) == [call[c] EXCEPT !.step = "done", !.result = result, !.book = book]
    <2>a. \A step \in {"taken", "running"} :
            at(step) \in CallRecord /\ at(step).write = call[c].write /\ at(step).step = step
              /\ at(step).result = call[c].result /\ at(step).book = call[c].book
      BY <2>0 DEF CallRecord
    <2>b. \A result \in {"ok", "in_flight"}, book \in {"none", "record"} :
            /\ done(result, book) \in CallRecord /\ done(result, book).write = call[c].write
            /\ done(result, book).step = "done" /\ done(result, book).result = result
            /\ done(result, book).book = book
      BY <2>0 DEF CallRecord
    <2>c. KeyOf(c) = call[c].write
      BY DEF KeyOf
    <2>1. CASE ClaimKey(c)
      <3>1. call' = [call EXCEPT ![c] = at("running")] \/ call' = [call EXCEPT ![c] = at("taken")]
        BY <2>1 DEF ClaimKey, Goto
      <3>2. AnswersTrue'
        <4> HIDE DEF at
        <4> QED BY <1>8, <2>a, <3>1
      <3>3. \A w \in Writes : row'[w] = "recorded" => row[w] = "recorded"
        BY <1>0, <2>1 DEF ClaimKey, KeyType
      <3>4. UNCHANGED <<write, drain>>
        BY <2>1 DEF ClaimKey, phoneVars, drainVars
      <3> QED BY <3>2, <3>3, <3>4, <1>a, <1>d, <1>f DEF WordIsTrue
    <2>2. CASE FindKey(c)
      <3>1. \/ call' = [call EXCEPT ![c] = at("running")]
            \/ call' = [call EXCEPT ![c] = Settled(done("in_flight", "none"))]
            \/ call' = [call EXCEPT ![c] = Settled(done("ok", "none"))] /\ row[KeyOf(c)] = "recorded"
        BY <2>2 DEF FindKey, Goto, Finish
      <3>2. row[KeyOf(c)] = "recorded" => ran'[KeyOf(c)] > 0
        BY <1>2, <2>0, <2>2 DEF FindKey, WordIsTrue, RowsTrue
      <3>3. AnswersTrue'
        <4> HIDE DEF at, done
        <4> QED BY <1>8, <2>a, <2>b, <2>c, <3>1, <3>2
      <3>4. UNCHANGED <<write, drain, row>>
        BY <2>2 DEF FindKey, phoneVars, drainVars
      <3> QED BY <3>3, <3>4, <1>d, <1>f, <1>h DEF WordIsTrue
    <2>3. CASE HandlerSucceeds(c)
      <3>1. call' = [call EXCEPT ![c] = Settled(done("ok", "record"))]
        BY <2>3 DEF HandlerSucceeds, Finish
      <3>2. ran'[KeyOf(c)] > 0
        BY <1>0, <2>0, <2>3 DEF HandlerSucceeds, KeyType
      <3>3. AnswersTrue'
        <4> HIDE DEF done
        <4> QED BY <1>8, <2>b, <2>c, <3>1, <3>2
      <3>4. UNCHANGED <<write, drain, row>>
        BY <2>3 DEF HandlerSucceeds, phoneVars, drainVars
      <3> QED BY <3>3, <3>4, <1>d, <1>f, <1>h DEF WordIsTrue
    <2>4. CASE BookKey(c)
      <3> DEFINE k == [call[c] EXCEPT !.book = "none"]
      <3>1. k \in CallRecord /\ k.write = call[c].write /\ k.step = call[c].step
              /\ k.result = call[c].result /\ k.book = "none"
        BY <2>0 DEF CallRecord
      <3>2. call' = [call EXCEPT ![c] = Settled(k)]
        BY <2>4 DEF BookKey
      <3>3. AnswersTrue'
        <4> HIDE DEF k
        <4> QED BY <1>8, <3>1, <3>2
      <3>4. call[c].book = "record" => KeyOf(c) \in Writes /\ ran'[KeyOf(c)] > 0
        BY <1>2, <2>0, <2>c DEF WordIsTrue, AnswersTrue
      <3>5. \A w \in Writes : row'[w] = "recorded" => row[w] = "recorded" \/ ran'[w] > 0
        BY <1>0, <2>4, <3>4 DEF BookKey, KeyType
      <3>6. UNCHANGED <<write, drain>>
        BY <2>4 DEF BookKey, phoneVars, drainVars
      <3> QED BY <3>3, <3>5, <3>6, <1>a, <1>d, <1>f DEF WordIsTrue
    <2>5. CASE Answer(c)
      <3> DEFINE k == [call[c] EXCEPT !.by = NoOne]
                 d == call[c].by
                 w == KeyOf(c)
      <3>1. k \in CallRecord /\ k.write = call[c].write /\ k.step = call[c].step
              /\ k.result = call[c].result /\ k.book = call[c].book
        BY <2>0 DEF CallRecord
      <3>2. call' = [call EXCEPT ![c] = Settled(k)] /\ UNCHANGED row
        BY <2>5 DEF Answer, keyVars
      <3>3. AnswersTrue'
        <4> HIDE DEF k
        <4> QED BY <1>8, <3>1, <3>2
      <3>4. d \in Drains /\ w \in Writes /\ Hears(d, w, call[c].result)
              /\ drain[d].at = "waiting" /\ w = Head(drain[d].todo)
        BY <2>0, <2>5, <2>c DEF Answer, CallRecord, Waits
      <3>5. call[c].result = "ok" => ran[w] > 0
        BY <2>c DEF WordIsTrue, AnswersTrue
      <3>6. UploadsTrue'
        <4>1. \A e \in Drains \ {d} : drain'[e] = drain[e]
          BY <1>0, <3>4, HearsEffect
        <4>2. CASE Advance(d)
          <5>1. drain'[d].at # "uploading"
            BY <1>0, <3>4, <4>2, AdvanceEffect, OffType
          <5> QED BY <1>c, <4>1, <5>1
        <4>3. CASE call[c].result = "ok" /\ drain'[d] = [drain[d] EXCEPT !.at = "uploading"]
          <5>1. drain'[d].todo = drain[d].todo
            BY <1>0, <3>4, <4>3 DEF DrainType, DrainRecord
          <5> QED BY <1>c, <3>4, <3>5, <4>1, <4>3, <5>1
        <4> QED BY <1>0, <3>4, <4>2, <4>3, HearsEffect
      <3>7. SentIsDone'
        BY <1>d, <3>4, <3>5, HearsWord
      <3> QED BY <3>2, <3>3, <3>6, <3>7, <1>h DEF WordIsTrue
    <2> QED BY <1>9, <2>1, <2>2, <2>3, <2>4, <2>5 DEF Serves
  <1>10. CASE Fails
    <2>1. ASSUME NEW c \in Calls, HandlerFails(c) PROVE WordIsTrue'
      <3>1. PICK result \in {"refused", "not_ready"} : Finish(c, result, "release")
        BY <2>1 DEF HandlerFails
      <3> DEFINE k == [call[c] EXCEPT !.step = "done", !.result = result, !.book = "release"]
      <3>0. call[c] \in CallRecord
        BY <1>0 DEF CallType
      <3>2. k \in CallRecord /\ k.write = call[c].write /\ k.step = "done" /\ k.result # "ok" /\ k.book # "record"
        BY <3>0 DEF CallRecord
      <3>3. call' = [call EXCEPT ![c] = Settled(k)] /\ UNCHANGED <<write, drain, row>>
        BY <2>1, <3>1 DEF HandlerFails, Finish, phoneVars, drainVars, keyVars
      <3> HIDE DEF k
      <3> QED BY <1>8, <3>2, <3>3, <1>d, <1>f, <1>h DEF WordIsTrue
    <2>1a. ASSUME NEW c \in Calls, HandlerThrowsLate(c) PROVE WordIsTrue'
      <3> DEFINE k == [call[c] EXCEPT !.step = "done", !.result = "refused", !.book = "release"]
      <3>0. call[c] \in CallRecord
        BY <1>0 DEF CallType
      <3>1. k \in CallRecord /\ k.write = call[c].write /\ k.step = "done" /\ k.result # "ok" /\ k.book # "record"
        BY <3>0 DEF CallRecord
      <3>2. call' = [call EXCEPT ![c] = Settled(k)] /\ UNCHANGED <<write, drain, row>>
        BY <2>1a DEF HandlerThrowsLate, Finish, phoneVars, drainVars
      <3> HIDE DEF k
      <3> QED BY <1>8, <3>1, <3>2, <1>d, <1>f, <1>h DEF WordIsTrue
    <2>2. ASSUME NEW c \in Calls, BookingFails(c) PROVE WordIsTrue'
      <3> DEFINE k == [call[c] EXCEPT !.book = "none"]
      <3>0. call[c] \in CallRecord
        BY <1>0 DEF CallType
      <3>1. k \in CallRecord /\ k.write = call[c].write /\ k.step = call[c].step
              /\ k.result = call[c].result /\ k.book = "none"
        BY <3>0 DEF CallRecord
      <3>2. call' = [call EXCEPT ![c] = Settled(k)] /\ UNCHANGED <<write, drain, row>>
        BY <2>2 DEF BookingFails, phoneVars, drainVars, keyVars
      <3> HIDE DEF k
      <3> QED BY <1>8, <3>1, <3>2, <1>d, <1>f, <1>h DEF WordIsTrue
    <2>3. ASSUME NEW c \in Calls, LoseAnswer(c) PROVE WordIsTrue'
      <3> DEFINE k == [call[c] EXCEPT !.by = NoOne]
      <3>0. call[c] \in CallRecord
        BY <1>0 DEF CallType
      <3>1. k \in CallRecord /\ k.write = call[c].write /\ k.step = call[c].step
              /\ k.result = call[c].result /\ k.book = call[c].book
        BY <3>0 DEF CallRecord
      <3>2. AnswersTrue'
        <4>1. CASE call' = [call EXCEPT ![c] = Free]
          <5>1. \A b \in Calls : call'[b] = IF b = c THEN Free ELSE call[b]
            BY <1>0, <4>1 DEF CallType
          <5>2. Free.result = "none" /\ Free.book = "none"
            BY DEF Free
          <5> QED BY <1>b, <5>1, <5>2 DEF WordIsTrue, AnswersTrue
        <4>2. CASE call' = [call EXCEPT ![c] = Settled(k)]
          <5> HIDE DEF k
          <5> QED BY <1>8, <3>1, <4>2
        <4> QED BY <2>3, <4>1, <4>2 DEF LoseAnswer
      <3>3. call[c].by \in Drains /\ Stop(call[c].by)
        BY <2>3, <3>0 DEF LoseAnswer, HearsNothing, CallRecord
      <3>4. UploadsTrue'
        BY <1>0, <1>c, <3>3, StopEffect, OffType
      <3>5. UNCHANGED <<write, row>>
        BY <2>3 DEF LoseAnswer, HearsNothing, Keep, phoneVars, keyVars
      <3> QED BY <3>2, <3>4, <3>5, <1>d, <1>h DEF WordIsTrue
    <2>4. ASSUME NEW d \in Drains, UploadFails(d) PROVE WordIsTrue'
      <3>1. \A e \in Drains : drain'[e] = drain[e] \/ drain'[e].at # "uploading"
        BY <1>0, <2>4, AdvanceEffect, OffType DEF UploadFails
      <3>2. UNCHANGED <<write, call, row>>
        BY <2>4 DEF UploadFails, MarkFailed, keyVars
      <3> QED BY <3>1, <3>2, <1>c, <1>d, <1>g, <1>h DEF WordIsTrue
    <2>5. CASE ServerCrashes
      <3>1. \A d \in Drains : drain'[d] = drain[d] \/ drain'[d].at # "uploading"
        BY <2>5, OffType DEF ServerCrashes
      <3>2. AnswersTrue'
        BY <2>5 DEF ServerCrashes, AnswersTrue, Free
      <3>3. UNCHANGED <<write, row>>
        BY <2>5 DEF ServerCrashes, Keep, phoneVars, keyVars
      <3> QED BY <3>1, <3>2, <3>3, <1>c, <1>d, <1>h DEF WordIsTrue
    <2>6. CASE AppRestarts
      <3>1. \A d \in Drains : drain'[d].at # "uploading"
        BY <2>6, OffType DEF AppRestarts
      <3> DEFINE k(b) == [call[b] EXCEPT !.by = NoOne]
      <3>2. \A b \in Calls : k(b) \in CallRecord /\ k(b).write = call[b].write /\ k(b).step = call[b].step
              /\ k(b).result = call[b].result /\ k(b).book = call[b].book
        BY <1>0 DEF CallType, CallRecord
      <3>3. call' = [b \in Calls |-> Settled(k(b))]
        BY <2>6 DEF AppRestarts
      <3>4. Free.result = "none" /\ Free.book = "none"
        BY DEF Free
      <3>5. AnswersTrue'
        <4> HIDE DEF k
        <4>1. \A b \in Calls : call'[b] = k(b) \/ call'[b] = Free
          BY <3>2, <3>3, SettledType
        <4> QED BY <1>b, <3>2, <3>4, <4>1 DEF WordIsTrue, AnswersTrue
      <3>6. \A w \in Writes : write'[w] = "sent" => write[w] = "sent"
        BY <2>6 DEF AppRestarts
      <3>7. UNCHANGED row
        BY <2>6 DEF AppRestarts, keyVars
      <3> QED BY <3>1, <3>5, <3>6, <3>7, <1>c, <1>d, <1>h DEF WordIsTrue
    <2> QED BY <1>10, <2>1, <2>1a, <2>2, <2>3, <2>4, <2>5, <2>6 DEF Fails
  <1> QED BY <1>4, <1>5, <1>6, <1>7, <1>9, <1>10 DEF Next

LEMMA WordAlways == Spec => [](Types /\ Waits /\ WordIsTrue)
  <1>1. Init => WordIsTrue
    BY DEF Init, WordIsTrue, RowsTrue, AnswersTrue, UploadsTrue, SentIsDone, Free, Off
  <1>2. Types /\ Waits /\ WordIsTrue /\ [Next]_vars => WordIsTrue'
    BY WordStep
  <1> QED BY <1>1, <1>2, TypesAlways, PTL DEF Spec

\* What the phone has taken off its queue as sent, the server has done:
\* whatever was replayed, sent twice, lost or booked late.
THEOREM SentWasDone == Spec => []SentIsDone
  <1>1. WordIsTrue => SentIsDone
    BY DEF WordIsTrue
  <1> QED BY <1>1, WordAlways, PTL

---------------------------------------------------------------------------
(* What the storage keeps                                                  *)

\* Once the queue has been read, memory and storage hold the same one, and a
\* drain past its start has read it; until then the memory holds none.
SameQueues ==
  /\ loading = "yes" => entries = stored
  /\ loading = "reading" => entries = <<>> /\ reading = stored
  /\ loading = "no" => entries = <<>>
DrainsHaveRead ==
  \A d \in Drains : drain[d].at \in {"starting", "next", "waiting", "uploading"} => loading = "yes"
StillQueued == \A w \in Writes : write[w] = "queued" => w \in Queued(stored)
Stores == overwrote \/ (SameQueues /\ DrainsHaveRead /\ StillQueued)

\* A drain that has read the queue takes one entry off it.
LEMMA RemoveStores ==
  ASSUME PhoneType, ~overwrote, SameQueues, StillQueued, loading = "yes",
         NEW w \in Writes, NEW status \in {"sent", "dropped"}, Remove(w, status)
  PROVE  SameQueues' /\ StillQueued'
  <1>1. SameQueues'
    BY DEF SameQueues, Remove
  <1>2. ASSUME NEW v \in Writes, write'[v] = "queued" PROVE v \in Queued(stored')
    <2>1. write[v] = "queued" /\ v # w
      BY <1>2 DEF Remove, PhoneType
    <2>2. v \in Queued(entries) /\ entries \in Seq(Writes)
      BY <2>1 DEF StillQueued, SameQueues, PhoneType
    <2>3. v \in Queued(Without(entries, w))
      BY <2>1, <2>2, WithoutKeeps
    <2> QED BY <2>3 DEF Remove
  <1> QED BY <1>1, <1>2 DEF StillQueued

LEMMA MarkFailedStores ==
  ASSUME SameQueues, StillQueued, loading = "yes", MarkFailed
  PROVE  SameQueues' /\ StillQueued'
  BY DEF MarkFailed, SameQueues, StillQueued

LEMMA HearsStores ==
  ASSUME PhoneType, ~overwrote, SameQueues, StillQueued, loading = "yes",
         NEW d \in Drains, NEW w \in Writes, NEW result, Hears(d, w, result)
  PROVE  SameQueues' /\ StillQueued' /\ loading' = "yes"
  <1>1. CASE Keep
    BY <1>1 DEF Keep, phoneVars, SameQueues, StillQueued
  <1>2. CASE MarkFailed
    BY <1>2, MarkFailedStores DEF MarkFailed
  <1>3. ASSUME NEW status \in {"sent", "dropped"}, Remove(w, status)
        PROVE  SameQueues' /\ StillQueued' /\ loading' = "yes"
    BY <1>3, RemoveStores DEF Remove
  <1> QED BY <1>1, <1>2, <1>3 DEF Hears

LEMMA OverwroteStays == overwrote /\ [Next]_vars => overwrote'
  <1> SUFFICES ASSUME overwrote, [Next]_vars PROVE overwrote'
    OBVIOUS
  <1>1. ASSUME UNCHANGED overwrote PROVE overwrote'
    BY <1>1
  <1>2. UNCHANGED phoneVars => UNCHANGED overwrote
    BY DEF phoneVars
  <1>3. ASSUME NEW d, NEW w, NEW result, Hears(d, w, result) PROVE UNCHANGED overwrote
    BY <1>2, <1>3 DEF Hears, Keep, MarkFailed, Remove
  <1>4. CASE UNCHANGED vars \/ LoadEnds \/ ShowQueued \/ ServerCrashes \/ AppRestarts
    BY <1>1, <1>2, <1>4 DEF vars, LoadEnds, ShowQueued, ServerCrashes, AppRestarts, Keep
  <1>5. ASSUME NEW w \in Writes, NotAnswered(w) \/ QueueWrite(w) PROVE overwrote'
    <2>1. CASE UNCHANGED overwrote
      BY <1>1, <2>1
    <2>2. CASE Enqueue(w)
      BY <2>2 DEF Enqueue
    <2> QED BY <1>5, <2>1, <2>2 DEF NotAnswered, QueueWrite
  <1>6. ASSUME NEW d \in Drains, Phone(d) \/ UploadFails(d) PROVE overwrote'
    BY <1>1, <1>2, <1>6 DEF Phone, BeginDrain, Flush, Upload, UploadFails, MarkFailed, Remove, SendNext
  <1>7. ASSUME NEW c \in Calls, Serves(c) PROVE overwrote'
    BY <1>1, <1>2, <1>3, <1>7 DEF Serves, ClaimKey, FindKey, HandlerSucceeds, BookKey, Answer
  <1>8. ASSUME NEW c \in Calls, HandlerFails(c) \/ HandlerThrowsLate(c) \/ BookingFails(c) \/ LoseAnswer(c) PROVE overwrote'
    BY <1>1, <1>2, <1>8 DEF HandlerFails, HandlerThrowsLate, BookingFails, LoseAnswer, HearsNothing, Keep
  <1> QED BY <1>4, <1>5, <1>6, <1>7, <1>8 DEF Next, Fails

LEMMA StoresStep == Types /\ Waits /\ Stores /\ [Next]_vars => Stores'
  <1> SUFFICES ASSUME Types, Waits, Stores, [Next]_vars PROVE Stores'
    OBVIOUS
  <1> SUFFICES ASSUME ~overwrote, ~overwrote'
               PROVE  SameQueues' /\ DrainsHaveRead' /\ StillQueued'
    BY OverwroteStays DEF Stores
  <1>0. PhoneType /\ DrainType /\ CallType /\ SameQueues /\ DrainsHaveRead /\ StillQueued
    BY DEF Types, Stores
  <1> DEFINE QueuesKept == SameQueues' /\ StillQueued'
             Early == {"off", "loading"}
  <1>a. UNCHANGED phoneVars => QueuesKept /\ loading' = loading
    BY <1>0 DEF phoneVars, SameQueues, StillQueued
  <1>b. ASSUME loading' = loading, \A d \in Drains : drain'[d] = drain[d] \/ drain'[d].at \in Early
                                                   \/ loading = "yes"
        PROVE  DrainsHaveRead'
    BY <1>0, <1>b DEF DrainsHaveRead
  <1>1. ASSUME UNCHANGED phoneVars, UNCHANGED drain
        PROVE  QueuesKept /\ DrainsHaveRead'
    BY <1>1, <1>a, <1>b
  <1>2. ASSUME NEW w \in Writes, NotAnswered(w) PROVE QueuesKept /\ DrainsHaveRead'
    BY <1>0, <1>2 DEF NotAnswered, drainVars, SameQueues, StillQueued, DrainsHaveRead, PhoneType
  <1>3. ASSUME NEW w \in Writes, QueueWrite(w) PROVE QueuesKept /\ DrainsHaveRead'
    <2>0. UNCHANGED drain
      BY <1>3 DEF QueueWrite, drainVars
    <2>1. CASE StartsLoading /\ write' = [write EXCEPT ![w] = "loading"]
                 /\ UNCHANGED <<entries, stored, ahead, overwrote>>
      BY <1>0, <2>0, <2>1 DEF StartsLoading, SameQueues, StillQueued, DrainsHaveRead, PhoneType
    <2>2. CASE /\ (write[w] = "unsent" /\ loading # "no") \/ (write[w] = "loading" /\ loading = "yes")
               /\ Enqueue(w) /\ write' = [write EXCEPT ![w] = "queued"] /\ UNCHANGED <<loading, reading>>
      <3>1. loading # "reading"
        BY <2>2 DEF Enqueue
      <3>2. loading = "yes"
        BY <1>0, <2>2, <3>1 DEF PhoneType
      <3>3. stored' = Append(entries, w) /\ entries' = stored' /\ loading' = loading /\ entries = stored
        BY <1>0, <2>2, <3>2 DEF Enqueue, SameQueues
      <3>4. Queued(stored') = Queued(stored) \cup {w}
        BY <1>0, <3>3, AppendQueued DEF PhoneType
      <3>5. \A v \in Writes : write'[v] = "queued" => v = w \/ write[v] = "queued"
        BY <1>0, <2>2 DEF PhoneType
      <3>6. StillQueued'
        BY <1>0, <3>4, <3>5 DEF StillQueued
      <3> QED BY <1>0, <2>0, <3>2, <3>3, <3>6 DEF SameQueues, DrainsHaveRead
    <2> QED BY <1>3, <2>1, <2>2 DEF QueueWrite
  <1>4. CASE LoadEnds
    <2>1. loading = "reading" /\ loading' = "yes" /\ entries' = reading /\ stored' = stored /\ write' = write
            /\ drain' = drain
      BY <1>4 DEF LoadEnds, drainVars
    <2> QED BY <1>0, <2>1 DEF SameQueues, StillQueued, DrainsHaveRead
  <1>5. ASSUME NEW d \in Drains, Phone(d) PROVE QueuesKept /\ DrainsHaveRead'
    <2>1. CASE BeginDrain(d)
      <3>0. UNCHANGED <<write, entries, stored>>
        BY <2>1 DEF BeginDrain
      <3>1. CASE StartsLoading /\ drain' = [drain EXCEPT ![d].at = "loading"]
        <4>1. \A e \in Drains : drain'[e] = drain[e] \/ drain'[e].at = "loading"
          BY <1>0, <3>1 DEF DrainType, DrainRecord
        <4>2. loading = "no" /\ loading' = "reading" /\ reading' = stored
          BY <3>1 DEF StartsLoading
        <4> QED BY <1>0, <3>0, <4>1, <4>2 DEF SameQueues, StillQueued, DrainsHaveRead
      <3>2. CASE /\ loading # "no" /\ entries # <<>>
                 /\ drain' = [drain EXCEPT ![d].at = "starting"] /\ UNCHANGED <<loading, reading>>
        <4>1. loading = "yes"
          BY <1>0, <3>2 DEF SameQueues, PhoneType
        <4> QED BY <1>0, <3>0, <3>2, <4>1 DEF SameQueues, StillQueued, DrainsHaveRead
      <3> QED BY <2>1, <3>1, <3>2 DEF BeginDrain
    <2>2. CASE Flush(d)
      <3>1. loading = "yes"
        BY <1>0, <2>2 DEF Flush, DrainsHaveRead
      <3>2. UNCHANGED phoneVars
        BY <2>2 DEF Flush
      <3> QED BY <3>1, <3>2, <1>a, <1>b
    <2>3. CASE Upload(d)
      <3>1. loading = "yes" /\ Head(drain[d].todo) \in Writes
        BY <1>0, <2>3, HeadOfTodo DEF Upload, DrainsHaveRead
      <3>2. QueuesKept /\ loading' = loading
        BY <1>0, <2>3, <3>1, RemoveStores DEF Upload, Remove
      <3> QED BY <3>1, <3>2, <1>b
    <2>4. ASSUME NEW c \in Calls, SendNext(d, c) PROVE QueuesKept /\ DrainsHaveRead'
      <3>1. loading = "yes"
        BY <1>0, <2>4 DEF SendNext, DrainsHaveRead
      <3>2. UNCHANGED phoneVars
        BY <2>4 DEF SendNext
      <3> QED BY <3>1, <3>2, <1>a, <1>b
    <2> QED BY <1>5, <2>1, <2>2, <2>3, <2>4 DEF Phone
  <1>6. ASSUME NEW c \in Calls, Serves(c) PROVE QueuesKept /\ DrainsHaveRead'
    <2>1. CASE ClaimKey(c) \/ FindKey(c) \/ HandlerSucceeds(c) \/ BookKey(c)
      BY <1>1, <2>1 DEF ClaimKey, FindKey, HandlerSucceeds, BookKey, drainVars
    <2>2. CASE Answer(c)
      <3>1. call[c].by \in Drains /\ drain[call[c].by].at = "waiting" /\ KeyOf(c) \in Writes
        BY <1>0, <2>2 DEF Answer, CallType, CallRecord, Waits, KeyOf
      <3>2. loading = "yes"
        BY <1>0, <3>1 DEF DrainsHaveRead
      <3>3. QueuesKept /\ loading' = loading
        BY <1>0, <2>2, <3>1, <3>2, HearsStores DEF Answer
      <3> QED BY <3>2, <3>3, <1>b
    <2> QED BY <1>6, <2>1, <2>2 DEF Serves
  <1>7. CASE Fails
    <2>1. ASSUME NEW c \in Calls, HandlerFails(c) \/ HandlerThrowsLate(c) \/ BookingFails(c) PROVE QueuesKept /\ DrainsHaveRead'
      BY <1>1, <2>1 DEF HandlerFails, HandlerThrowsLate, BookingFails, drainVars
    <2>2. ASSUME NEW c \in Calls, LoseAnswer(c) PROVE QueuesKept /\ DrainsHaveRead'
      <3>1. call[c].by \in Drains /\ drain[call[c].by].at = "waiting"
        BY <1>0, <2>2 DEF LoseAnswer, CallType, CallRecord, Waits
      <3>2. loading = "yes" /\ UNCHANGED phoneVars
        BY <1>0, <2>2, <3>1 DEF DrainsHaveRead, LoseAnswer, HearsNothing, Keep
      <3> QED BY <3>2, <1>a, <1>b
    <2>3. ASSUME NEW d \in Drains, UploadFails(d) PROVE QueuesKept /\ DrainsHaveRead'
      <3>1. loading = "yes"
        BY <1>0, <2>3 DEF UploadFails, DrainsHaveRead
      <3>2. QueuesKept /\ loading' = loading
        BY <1>0, <2>3, <3>1, MarkFailedStores DEF UploadFails, MarkFailed
      <3> QED BY <3>1, <3>2, <1>b
    <2>4. CASE ServerCrashes
      <3>1. UNCHANGED phoneVars /\ \A d \in Drains : drain'[d] = drain[d] \/ drain'[d] = Off
        BY <2>4 DEF ServerCrashes, Keep
      <3> QED BY <3>1, <1>a, <1>b, OffType
    <2>5. CASE AppRestarts
      <3>1. \A d \in Drains : drain'[d].at = "off"
        BY <2>5, OffType DEF AppRestarts
      <3>2. \A w \in Writes : write'[w] = "queued" => write[w] = "queued"
        BY <2>5 DEF AppRestarts
      <3>3. loading' = "no" /\ entries' = <<>> /\ stored' = stored
        BY <2>5 DEF AppRestarts
      <3> QED BY <1>0, <3>1, <3>2, <3>3 DEF SameQueues, StillQueued, DrainsHaveRead
    <2> QED BY <1>7, <2>1, <2>2, <2>3, <2>4, <2>5 DEF Fails
  <1>8. CASE UNCHANGED vars
    BY <1>1, <1>8 DEF vars, drainVars
  <1>9. CASE ShowQueued
    BY <1>0, <1>9 DEF ShowQueued, StartsLoading, SameQueues, StillQueued, DrainsHaveRead, drainVars
  <1> QED BY <1>2, <1>3, <1>4, <1>5, <1>6, <1>7, <1>8, <1>9 DEF Next

\* A queued write stays in the phone's storage until the server has answered
\* about it, unless one was queued while the storage was first being read.
THEOREM StorageKeeps == Spec => []KeptUntilAnswered
  <1>1. Init => Stores
    BY DEF Init, Stores, SameQueues, DrainsHaveRead, StillQueued, Off
  <1>2. Types /\ Waits /\ Stores /\ [Next]_vars => Stores'
    BY StoresStep
  <1>3. Stores => KeptUntilAnswered
    BY DEF Stores, StillQueued, KeptUntilAnswered
  <1> QED BY <1>1, <1>2, <1>3, TypesAlways, PTL DEF Spec

---------------------------------------------------------------------------
(* The order of writes                                                     *)

\* What need not be waited for any more, and what no queue holds yet.
Past == {w \in Writes : ran[w] > 0} \cup answered
Fresh == {w \in Writes : write[w] \in {"unmade", "unsent", "loading"}}

\* A queue in order: what was queued before an entry is past, or before it.
Ordered(q, A, P, F) ==
  \A i \in 1..Len(q) :
    q[i] \notin F /\ \A v \in A[q[i]] : v \in P \/ \E j \in 1..(i - 1) : q[j] = v

Line(q) == Ordered(q, ahead, Past, Fresh)
CallsInOrder ==
  \A c \in Calls : call[c].step # "free" => call[c].write \notin Fresh /\ ahead[call[c].write] \subseteq Past
LinesInOrder ==
  /\ Line(entries) /\ Line(stored) /\ Line(reading)
  /\ \A d \in Drains : Line(drain[d].todo)
  /\ CallsInOrder

LEMMA OrderedLater ==
  ASSUME NEW q \in Seq(Writes), NEW A, NEW P, NEW F, NEW P2, NEW F2,
         Ordered(q, A, P, F), P \subseteq P2, F2 \subseteq F
  PROVE  Ordered(q, A, P2, F2)
  BY DEF Ordered

LEMMA OrderedEmpty ==
  ASSUME NEW A, NEW P, NEW F
  PROVE  Ordered(<<>>, A, P, F)
  BY DEF Ordered

LEMMA OrderedHead ==
  ASSUME NEW q \in Seq(Writes), q # <<>>, NEW A, NEW P, NEW F, Ordered(q, A, P, F)
  PROVE  Head(q) \notin F /\ A[Head(q)] \subseteq P
  <1>1. 1 \in 1..Len(q) /\ Head(q) = q[1] /\ 1..(1 - 1) = {}
    OBVIOUS
  <1> QED BY <1>1 DEF Ordered

LEMMA OrderedTail ==
  ASSUME NEW q \in Seq(Writes), q # <<>>, NEW A, NEW P, NEW F, Ordered(q, A, P, F), Head(q) \in P
  PROVE  Ordered(Tail(q), A, P, F)
  <1> SUFFICES ASSUME NEW i \in 1..Len(Tail(q))
               PROVE  Tail(q)[i] \notin F /\
                      \A v \in A[Tail(q)[i]] : v \in P \/ \E j \in 1..(i - 1) : Tail(q)[j] = v
    BY DEF Ordered
  <1>1. i + 1 \in 1..Len(q) /\ Tail(q)[i] = q[i + 1]
    OBVIOUS
  <1>2. q[i + 1] \notin F /\ \A v \in A[q[i + 1]] : v \in P \/ \E j \in 1..i : q[j] = v
    BY <1>1 DEF Ordered
  <1>3. ASSUME NEW v, NEW j \in 1..i, q[j] = v
        PROVE  v \in P \/ \E k \in 1..(i - 1) : Tail(q)[k] = v
    <2>1. CASE j = 1
      BY <1>3, <2>1
    <2>2. CASE j # 1
      <3>1. j - 1 \in 1..(i - 1) /\ j - 1 \in 1..Len(Tail(q)) /\ (j - 1) + 1 = j
        BY <2>2
      <3>2. Tail(q)[j - 1] = q[j]
        BY <3>1
      <3> QED BY <1>3, <3>1, <3>2
    <2> QED BY <2>1, <2>2
  <1> QED BY <1>1, <1>2, <1>3

LEMMA OrderedWithout ==
  ASSUME NEW q \in Seq(Writes), NEW w, NEW A, NEW P, NEW F, Ordered(q, A, P, F), w \in P
  PROVE  Ordered(Without(q, w), A, P, F)
  <1>1. CASE w \notin Queued(q)
    BY <1>1 DEF Without
  <1>2. CASE w \in Queued(q)
    <2> DEFINE r == Without(q, w)
    <2>1. PICK m \in 1..Len(q) :
            q[m] = w /\ r = [j \in 1..(Len(q) - 1) |-> q[IF j < m THEN j ELSE j + 1]]
      BY <1>2, WithoutShape
    <2>2. r \in Seq(Writes) /\ Len(r) = Len(q) - 1
      <3>1. r \in Seq(Writes)
        BY WithoutSeq
      <3>2. DOMAIN r = 1..(Len(q) - 1) /\ Len(q) - 1 \in Nat
        BY <2>1
      <3> HIDE DEF r
      <3> QED BY <3>1, <3>2
    <2> DEFINE from(j) == IF j < m THEN j ELSE j + 1
    <2>3. \A j \in 1..(Len(q) - 1) : from(j) \in 1..Len(q) /\ r[j] = q[from(j)]
      BY <2>1
    <2>4. ASSUME NEW i \in 1..Len(r)
          PROVE  r[i] \notin F /\ \A v \in A[r[i]] : v \in P \/ \E j \in 1..(i - 1) : r[j] = v
      <3>1. i \in 1..(Len(q) - 1)
        BY <2>2
      <3> DEFINE k == from(i)
      <3>2. k \in 1..Len(q) /\ r[i] = q[k]
        BY <2>3, <3>1
      <3>3. q[k] \notin F /\ \A v \in A[q[k]] : v \in P \/ \E j \in 1..(k - 1) : q[j] = v
        BY <3>2 DEF Ordered
      <3>4. ASSUME NEW v, NEW j \in 1..(k - 1), q[j] = v
            PROVE  v \in P \/ \E l \in 1..(i - 1) : r[l] = v
        <4>1. CASE j = m
          BY <2>1, <3>4, <4>1
        <4>2. CASE j # m
          <5> DEFINE l == IF j < m THEN j ELSE j - 1
          <5>1. l \in 1..(i - 1) /\ l \in 1..(Len(q) - 1) /\ from(l) = j
            BY <3>1, <3>2, <4>2
          <5>2. r[l] = q[j]
            BY <2>3, <5>1
          <5> QED BY <3>4, <5>1, <5>2
        <4> QED BY <4>1, <4>2
      <3> HIDE DEF k, r
      <3> QED BY <3>2, <3>3, <3>4
    <2> HIDE DEF r
    <2> QED BY <2>4 DEF Ordered, r
  <1> QED BY <1>1, <1>2

\* A new write w joins the end: what is in the queue is ahead of it.
LEMMA OrderedAppend ==
  ASSUME NEW q \in Seq(Writes), NEW A \in [Writes -> SUBSET Writes], NEW P, NEW F, NEW w \in F, w \in Writes,
         Ordered(q, A, P, F)
  PROVE  Ordered(Append(q, w), [A EXCEPT ![w] = Queued(q)], P, F \ {w})
  <1> DEFINE B == [A EXCEPT ![w] = Queued(q)]
             r == Append(q, w)
  <1>1. Len(r) = Len(q) + 1 /\ r[Len(q) + 1] = w /\ \A i \in 1..Len(q) : r[i] = q[i] /\ q[i] \in Writes
    OBVIOUS
  <1>2. ASSUME NEW i \in 1..Len(q)
        PROVE  r[i] \notin F \ {w} /\ \A v \in B[r[i]] : v \in P \/ \E j \in 1..(i - 1) : r[j] = v
    <2>1. q[i] \notin F /\ \A v \in A[q[i]] : v \in P \/ \E j \in 1..(i - 1) : q[j] = v
      BY DEF Ordered
    <2>2. q[i] # w /\ B[q[i]] = A[q[i]]
      BY <1>1, <2>1
    <2>3. \A j \in 1..(i - 1) : r[j] = q[j]
      BY <1>1
    <2> HIDE DEF B, r
    <2> QED BY <1>1, <2>1, <2>2, <2>3
  <1>3. r[Len(q) + 1] \notin F \ {w} /\
          \A v \in B[r[Len(q) + 1]] : v \in P \/ \E j \in 1..((Len(q) + 1) - 1) : r[j] = v
    <2>1. B[w] = Queued(q)
      OBVIOUS
    <2>2. \A v \in Queued(q) : \E j \in 1..Len(q) : r[j] = v
      BY <1>1 DEF Queued
    <2>3. (Len(q) + 1) - 1 = Len(q)
      OBVIOUS
    <2> HIDE DEF B, r
    <2> QED BY <1>1, <2>1, <2>2, <2>3
  <1>4. \A i \in 1..Len(r) : i \in 1..Len(q) \/ i = Len(q) + 1
    BY <1>1
  <1> HIDE DEF B, r
  <1>5. Ordered(r, B, P, F \ {w})
    BY <1>2, <1>3, <1>4 DEF Ordered
  <1> QED BY <1>5 DEF B, r

\* Another queue does not hold w, so it is not disturbed.
LEMMA OrderedBeside ==
  ASSUME NEW q \in Seq(Writes), NEW A \in [Writes -> SUBSET Writes], NEW P, NEW F, NEW w \in F, w \in Writes,
         NEW S, Ordered(q, A, P, F)
  PROVE  Ordered(q, [A EXCEPT ![w] = S], P, F \ {w})
  <1>1. ASSUME NEW i \in 1..Len(q)
        PROVE  q[i] \notin F /\ [A EXCEPT ![w] = S][q[i]] = A[q[i]]
    BY DEF Ordered
  <1> QED BY <1>1 DEF Ordered

\* What is past stays past, and no write is new twice.
LEMMA PastGrows == Types /\ [Next]_vars => Past \subseteq Past' /\ Fresh' \subseteq Fresh
  <1> SUFFICES ASSUME Types, [Next]_vars PROVE Past \subseteq Past' /\ Fresh' \subseteq Fresh
    OBVIOUS
  <1>0. PhoneType
    BY DEF Types
  <1>1. \A w \in Writes : ran'[w] >= ran[w] /\ ran'[w] \in Nat /\ ran[w] \in Nat
    BY RanGrows DEF Types, KeyType
  <1>2. ASSUME answered \subseteq answered' PROVE Past \subseteq Past'
    BY <1>1, <1>2 DEF Past
  <1>3. UNCHANGED write => Fresh' \subseteq Fresh
    BY DEF Fresh
  <1>4. ASSUME NEW w \in Writes, NEW status \in {"sent", "dropped"}, Remove(w, status) PROVE Fresh' \subseteq Fresh
    BY <1>0, <1>4 DEF Remove, Fresh, PhoneType
  <1>5. CASE UNCHANGED vars \/ LoadEnds \/ ShowQueued \/ ServerCrashes
    BY <1>2, <1>3, <1>5 DEF vars, phoneVars, drainVars, LoadEnds, ShowQueued, ServerCrashes, Keep
  <1>6. ASSUME NEW w \in Writes, NotAnswered(w) \/ QueueWrite(w) PROVE Past \subseteq Past' /\ Fresh' \subseteq Fresh
    <2>1. answered' = answered
      BY <1>6 DEF NotAnswered, QueueWrite, drainVars
    <2>2. Fresh' \subseteq Fresh
      BY <1>0, <1>6 DEF NotAnswered, QueueWrite, Fresh, PhoneType
    <2> QED BY <2>1, <2>2, <1>2
  <1>7. ASSUME NEW d \in Drains, Phone(d) \/ UploadFails(d) PROVE Past \subseteq Past' /\ Fresh' \subseteq Fresh
    <2>1. answered' = answered
      BY <1>7 DEF Phone, BeginDrain, Flush, Upload, SendNext, UploadFails
    <2>2. Fresh' \subseteq Fresh
      <3>1. CASE Upload(d)
        BY <1>4, <3>1, HeadOfTodo DEF Upload, Types
      <3>2. CASE UNCHANGED write
        BY <1>3, <3>2
      <3> QED BY <1>7, <3>1, <3>2 DEF Phone, BeginDrain, Flush, SendNext, UploadFails, MarkFailed, phoneVars
    <2> QED BY <2>1, <2>2, <1>2
  <1>8. ASSUME NEW c \in Calls, Serves(c) PROVE Past \subseteq Past' /\ Fresh' \subseteq Fresh
    <2>1. CASE ClaimKey(c) \/ FindKey(c) \/ HandlerSucceeds(c) \/ BookKey(c)
      BY <1>2, <1>3, <2>1 DEF ClaimKey, FindKey, HandlerSucceeds, BookKey, phoneVars, drainVars
    <2>2. CASE Answer(c)
      <3>1. KeyOf(c) \in Writes /\ Hears(call[c].by, KeyOf(c), call[c].result)
        BY <2>2 DEF Answer, Types, CallType, KeyOf
      <3>2. answered \subseteq answered'
        BY <3>1 DEF Hears
      <3>3. Fresh' \subseteq Fresh
        BY <1>3, <1>4, <3>1 DEF Hears, Keep, MarkFailed, phoneVars
      <3> QED BY <1>2, <3>2, <3>3
    <2> QED BY <1>8, <2>1, <2>2 DEF Serves
  <1>9. ASSUME NEW c \in Calls, HandlerFails(c) \/ HandlerThrowsLate(c) \/ BookingFails(c) \/ LoseAnswer(c)
        PROVE  Past \subseteq Past' /\ Fresh' \subseteq Fresh
    BY <1>2, <1>3, <1>9 DEF HandlerFails, HandlerThrowsLate, BookingFails, LoseAnswer, HearsNothing, Keep, phoneVars, drainVars
  <1>10. CASE AppRestarts
    <2>1. answered' = answered
      BY <1>10 DEF AppRestarts
    <2>2. Fresh' \subseteq Fresh
      BY <1>10 DEF AppRestarts, Fresh
    <2> QED BY <2>1, <2>2, <1>2
  <1> QED BY <1>5, <1>6, <1>7, <1>8, <1>9, <1>10 DEF Next, Fails

\* An entry whose turn is over is taken off, or stays; the queues keep order.
LEMMA HearsLine ==
  ASSUME Types, Line(entries), Line(stored), Line(reading), Past \subseteq Past', Fresh' \subseteq Fresh,
         NEW w \in Writes, w \in Past',
         Keep \/ MarkFailed \/ \E status \in {"sent", "dropped"} : Remove(w, status)
  PROVE  Line(entries)' /\ Line(stored)' /\ Line(reading)' /\ ahead' = ahead
  <1>0. PhoneType
    BY DEF Types
  <1>1. ahead' = ahead /\ reading' = reading
    BY DEF Keep, MarkFailed, Remove, phoneVars
  <1>2. Ordered(entries, ahead', Past', Fresh') /\ Ordered(stored, ahead', Past', Fresh')
          /\ Ordered(reading, ahead', Past', Fresh')
    BY <1>0, <1>1, OrderedLater DEF Line, PhoneType
  <1>3. Ordered(Without(entries, w), ahead', Past', Fresh')
    BY <1>0, <1>2, OrderedWithout DEF PhoneType
  <1>4. entries' \in {entries, Without(entries, w)} /\ stored' \in {stored, entries, Without(entries, w)}
    BY DEF Keep, MarkFailed, Remove, phoneVars
  <1> QED BY <1>1, <1>2, <1>3, <1>4 DEF Line

LEMMA LinesStep == Types /\ Waits /\ WordIsTrue /\ LinesInOrder /\ [Next]_vars => LinesInOrder'
  <1> SUFFICES ASSUME Types, Waits, WordIsTrue, LinesInOrder, [Next]_vars PROVE LinesInOrder'
    OBVIOUS
  <1>0. PhoneType /\ DrainType /\ CallType /\ KeyType
    BY DEF Types
  <1>1. Past \subseteq Past' /\ Fresh' \subseteq Fresh
    BY PastGrows
  <1>2. Line(entries) /\ Line(stored) /\ Line(reading) /\ CallsInOrder
    BY DEF LinesInOrder
  <1>3. \A d \in Drains : drain[d].todo \in Seq(Writes) /\ Line(drain[d].todo)
    BY <1>0 DEF LinesInOrder, DrainType, DrainRecord
  <1>e. \A A, P, F : Ordered(<<>>, A, P, F)
    BY OrderedEmpty
  <1>m. ASSUME NEW q \in Seq(Writes), Line(q), ahead' = ahead
        PROVE  Ordered(q, ahead', Past', Fresh')
    BY <1>1, <1>m, OrderedLater DEF Line
  <1>a. UNCHANGED phoneVars => Line(entries)' /\ Line(stored)' /\ Line(reading)' /\ ahead' = ahead
    BY <1>0, <1>2, <1>m DEF phoneVars, PhoneType, Line
  <1>b. ASSUME ahead' = ahead,
               \A d \in Drains : \/ drain'[d].todo = drain[d].todo \/ drain'[d].todo = entries \/ drain'[d].todo = <<>>
                                 \/ /\ drain[d].todo # <<>> /\ Head(drain[d].todo) \in Past'
                                    /\ drain'[d].todo = Tail(drain[d].todo)
        PROVE  \A d \in Drains : Line(drain[d].todo)'
    <2> SUFFICES ASSUME NEW d \in Drains PROVE Ordered(drain'[d].todo, ahead', Past', Fresh')
      BY DEF Line
    <2>1. Ordered(drain[d].todo, ahead', Past', Fresh') /\ Ordered(entries, ahead', Past', Fresh')
      BY <1>0, <1>2, <1>3, <1>b, <1>m DEF PhoneType
    <2>2. CASE /\ drain[d].todo # <<>> /\ Head(drain[d].todo) \in Past' /\ drain'[d].todo = Tail(drain[d].todo)
      BY <1>3, <2>1, <2>2, OrderedTail
    <2>3. CASE drain'[d].todo = drain[d].todo \/ drain'[d].todo = entries \/ drain'[d].todo = <<>>
      BY <2>1, <2>3, <1>e
    <2> QED BY <1>b, <2>2, <2>3
  <1>c. ASSUME ahead' = ahead,
               \A b \in Calls : call'[b].step # "free" =>
                 call[b].step # "free" /\ call'[b].write = call[b].write
        PROVE  CallsInOrder'
    BY <1>1, <1>2, <1>c DEF CallsInOrder
  <1>d. UNCHANGED drain => \A d \in Drains : drain'[d].todo = drain[d].todo
    OBVIOUS
  <1>f. UNCHANGED call => \A b \in Calls : call'[b] = call[b]
    OBVIOUS
  <1>4. CASE UNCHANGED vars
    BY <1>4, <1>a, <1>b, <1>c DEF vars, drainVars, LinesInOrder
  <1>5. ASSUME NEW w \in Writes, NotAnswered(w) \/ QueueWrite(w) PROVE LinesInOrder'
    <2>0. UNCHANGED <<drain, call, ran, answered>>
      BY <1>5 DEF NotAnswered, QueueWrite, drainVars, keyVars
    <2>1. CASE ahead' = ahead /\ entries' = entries /\ stored' = stored /\ reading' \in {reading, stored}
      <3>1. Line(entries)' /\ Line(stored)' /\ Line(reading)'
        BY <1>0, <1>2, <1>m, <2>1 DEF PhoneType, Line
      <3> QED BY <2>0, <2>1, <3>1, <1>b, <1>c DEF LinesInOrder
    <2>2. CASE Enqueue(w) /\ write[w] \in {"unsent", "loading"} /\ write' = [write EXCEPT ![w] = "queued"]
                 /\ UNCHANGED <<loading, reading>>
      <3>1. w \in Fresh /\ Fresh' = Fresh \ {w} /\ Past' = Past
        BY <1>0, <2>0, <2>2 DEF Fresh, Past, PhoneType
      <3>2. ahead' = [ahead EXCEPT ![w] = Queued(entries)] /\ entries' = Append(entries, w)
              /\ stored' = Append(entries, w) /\ reading' = reading
        BY <2>2 DEF Enqueue
      <3>3. Ordered(Append(entries, w), ahead', Past', Fresh')
        BY <1>0, <1>2, <3>1, <3>2, OrderedAppend DEF PhoneType, Line
      <3>4. ASSUME NEW q \in Seq(Writes), Line(q) PROVE Ordered(q, ahead', Past', Fresh')
        BY <1>0, <3>1, <3>2, <3>4, OrderedBeside DEF PhoneType, Line
      <3>5. Line(entries)' /\ Line(stored)' /\ Line(reading)'
        BY <1>0, <1>2, <3>2, <3>3, <3>4 DEF PhoneType, Line
      <3>6. \A d \in Drains : Line(drain[d].todo)'
        BY <1>3, <2>0, <3>4 DEF Line
      <3>7. CallsInOrder'
        <4> SUFFICES ASSUME NEW c \in Calls, call[c].step # "free"
                     PROVE  call[c].write \notin Fresh' /\ ahead'[call[c].write] \subseteq Past'
          BY <2>0 DEF CallsInOrder
        <4>1. call[c].write \in Writes /\ call[c].write \notin Fresh /\ ahead[call[c].write] \subseteq Past
          BY <1>0, <1>2 DEF CallType, CallsInOrder
        <4>2. ahead'[call[c].write] = ahead[call[c].write]
          BY <1>0, <3>1, <3>2, <4>1 DEF PhoneType
        <4> QED BY <1>1, <4>1, <4>2
      <3> QED BY <3>5, <3>6, <3>7 DEF LinesInOrder
    <2> QED BY <1>5, <2>1, <2>2 DEF NotAnswered, QueueWrite, StartsLoading
  <1>6. CASE LoadEnds
    <2>1. ahead' = ahead /\ entries' = reading /\ stored' = stored /\ reading' = <<>> /\ UNCHANGED <<drain, call>>
      BY <1>6 DEF LoadEnds, drainVars
    <2>2. Line(entries)' /\ Line(stored)' /\ Line(reading)'
      BY <1>0, <1>2, <1>e, <1>m, <2>1 DEF PhoneType, Line
    <2> QED BY <2>1, <2>2, <1>b, <1>c DEF LinesInOrder
  <1>7. ASSUME NEW d \in Drains, Phone(d) PROVE LinesInOrder'
    <2>1. CASE BeginDrain(d)
      <3>1. ahead' = ahead /\ entries' = entries /\ stored' = stored /\ reading' \in {reading, stored} /\ call' = call
        BY <2>1 DEF BeginDrain, StartsLoading
      <3>2. \A e \in Drains : drain'[e].todo = drain[e].todo
        <4>1. PICK at \in {"loading", "starting"} : drain' = [drain EXCEPT ![d].at = at]
          BY <2>1 DEF BeginDrain
        <4> QED BY <1>0, <4>1 DEF DrainType, DrainRecord
      <3>3. Line(entries)' /\ Line(stored)' /\ Line(reading)'
        BY <1>0, <1>2, <1>m, <3>1 DEF PhoneType, Line
      <3> QED BY <3>1, <3>2, <3>3, <1>b, <1>c DEF LinesInOrder
    <2>2. CASE Flush(d)
      <3>1. UNCHANGED phoneVars /\ call' = call
        BY <2>2 DEF Flush
      <3>2. \A e \in Drains : drain'[e].todo \in {drain[e].todo, entries, <<>>}
        BY <1>0, <2>2 DEF Flush, Off, DrainType
      <3> QED BY <3>1, <3>2, <1>a, <1>b, <1>c DEF LinesInOrder
    <2>3. CASE Upload(d)
      <3> DEFINE w == Head(drain[d].todo)
      <3>1. w \in Writes /\ drain[d].todo # <<>>
        BY <1>0, <2>3, HeadOfTodo DEF Upload
      <3>2. w \in Past'
        BY <1>1, <2>3, <3>1 DEF Upload, WordIsTrue, UploadsTrue, Past
      <3>3. Remove(w, "sent") /\ Advance(d) /\ call' = call
        BY <2>3 DEF Upload
      <3>4. Line(entries)' /\ Line(stored)' /\ Line(reading)' /\ ahead' = ahead
        BY <1>1, <1>2, <3>1, <3>2, <3>3, HearsLine
      <3>5. \A e \in Drains : drain'[e].todo = drain[e].todo \/ (e = d /\ drain'[e].todo \in {<<>>, Tail(drain[d].todo)})
        BY <1>0, <3>3, AdvanceEffect
      <3> QED BY <3>1, <3>2, <3>3, <3>4, <3>5, <1>b, <1>c DEF LinesInOrder
    <2>4. ASSUME NEW c \in Calls, SendNext(d, c) PROVE LinesInOrder'
      <3> DEFINE k == [Free EXCEPT !.step = "sent", !.write = Head(drain[d].todo), !.by = d]
      <3>1. k.write = Head(drain[d].todo)
        BY DEF Free
      <3>2. \A b \in Calls : call'[b] = IF b = c THEN k ELSE call[b]
        BY <1>0, <2>4 DEF SendNext, CallType
      <3>3. Head(drain[d].todo) \notin Fresh /\ ahead[Head(drain[d].todo)] \subseteq Past
        BY <1>0, <1>3, <2>4, HeadOfTodo, OrderedHead DEF SendNext, Line
      <3>4. UNCHANGED phoneVars /\ \A e \in Drains : drain'[e].todo = drain[e].todo
        BY <1>0, <2>4 DEF SendNext, DrainType, DrainRecord
      <3>5. CallsInOrder'
        <4> HIDE DEF k
        <4> QED BY <1>1, <1>2, <3>1, <3>2, <3>3, <3>4, <1>a DEF CallsInOrder
      <3> QED BY <3>4, <3>5, <1>a, <1>b DEF LinesInOrder
    <2> QED BY <1>7, <2>1, <2>2, <2>3, <2>4 DEF Phone
  <1>8. ASSUME UNCHANGED ahead, NEW c \in Calls, NEW k \in CallRecord, k.write = call[c].write,
               k.step # "free" => call[c].step # "free",
               call' = [call EXCEPT ![c] = k] \/ call' = [call EXCEPT ![c] = Settled(k)]
                 \/ call' = [call EXCEPT ![c] = Free]
        PROVE  CallsInOrder'
    <2>1. PICK r \in {k, Free} : call' = [call EXCEPT ![c] = r]
      BY <1>8, SettledType
    <2>2. \A b \in Calls : call'[b] = IF b = c THEN r ELSE call[b]
      BY <1>0, <2>1 DEF CallType
    <2> QED BY <1>8, <1>c, <2>1, <2>2, FreeType
  <1>9. ASSUME NEW c \in Calls, Serves(c) PROVE LinesInOrder'
    <2>0. call[c] \in CallRecord /\ (call[c].step # "free" => KeyOf(c) \in Writes)
      BY <1>0 DEF CallType, KeyOf
    <2>1. CASE ClaimKey(c) \/ FindKey(c) \/ HandlerSucceeds(c) \/ BookKey(c)
      <3>1. UNCHANGED phoneVars /\ UNCHANGED drain
        BY <2>1 DEF ClaimKey, FindKey, HandlerSucceeds, BookKey, drainVars
      <3> DEFINE at(step) == [call[c] EXCEPT !.step = step]
                 done(result, book) == [call[c] EXCEPT !.step = "done", !.result = result, !.book = book]
                 booked == [call[c] EXCEPT !.book = "none"]
      <3>2. \A step \in {"taken", "running"} :
              at(step) \in CallRecord /\ at(step).write = call[c].write
        BY <2>0 DEF CallRecord
      <3>3. \A result \in {"ok", "in_flight"}, book \in {"none", "record"} :
              done(result, book) \in CallRecord /\ done(result, book).write = call[c].write
        BY <2>0 DEF CallRecord
      <3>4. booked \in CallRecord /\ booked.write = call[c].write /\ booked.step = call[c].step
        BY <2>0 DEF CallRecord
      <3>5. \/ call[c].step # "free" /\ \E step \in {"taken", "running"} : call' = [call EXCEPT ![c] = at(step)]
            \/ call[c].step # "free" /\ \E result \in {"ok", "in_flight"}, book \in {"none", "record"} :
                 call' = [call EXCEPT ![c] = Settled(done(result, book))]
            \/ call' = [call EXCEPT ![c] = Settled(booked)]
        BY <2>1 DEF ClaimKey, FindKey, HandlerSucceeds, BookKey, Goto, Finish
      <3>6. CallsInOrder'
        <4> HIDE DEF at, done, booked
        <4> QED BY <3>1, <3>2, <3>3, <3>4, <3>5, <1>8, <1>a
      <3> QED BY <3>1, <3>6, <1>a, <1>b DEF LinesInOrder
    <2>2. CASE Answer(c)
      <3> DEFINE d == call[c].by
                 w == KeyOf(c)
                 k == [call[c] EXCEPT !.by = NoOne]
      <3>1. d \in Drains /\ w \in Writes /\ Hears(d, w, call[c].result)
              /\ drain[d].at = "waiting" /\ w = Head(drain[d].todo)
        BY <2>0, <2>2 DEF Answer, CallRecord, Waits, KeyOf
      <3>2. w \in Past'
        <4>1. CASE call[c].result = "ok"
          <5>1. ran[w] > 0
            BY <4>1 DEF WordIsTrue, AnswersTrue, KeyOf
          <5> QED BY <1>1, <3>1, <5>1 DEF Past
        <4>2. CASE call[c].result # "ok"
          BY <3>1, <4>2 DEF Hears, Past
        <4> QED BY <4>1, <4>2
      <3>3. Keep \/ MarkFailed \/ \E status \in {"sent", "dropped"} : Remove(w, status)
        BY <3>1 DEF Hears
      <3>4. Line(entries)' /\ Line(stored)' /\ Line(reading)' /\ ahead' = ahead
        BY <1>1, <1>2, <3>1, <3>2, <3>3, HearsLine
      <3>5. \A e \in Drains : drain'[e].todo = drain[e].todo \/ (e = d /\ drain'[e].todo \in {<<>>, Tail(drain[d].todo)})
        BY <1>0, <3>1, HearsEffect
      <3>6. drain[d].todo # <<>>
        BY <1>0, <3>1, HeadOfTodo
      <3>7. k \in CallRecord /\ k.write = call[c].write /\ k.step = call[c].step
        BY <2>0 DEF CallRecord
      <3>8. CallsInOrder'
        <4>1. call' = [call EXCEPT ![c] = Settled(k)]
          BY <2>2 DEF Answer
        <4> HIDE DEF k
        <4> QED BY <3>4, <3>7, <4>1, <1>8
      <3> QED BY <3>1, <3>2, <3>4, <3>5, <3>6, <3>8, <1>b DEF LinesInOrder
    <2> QED BY <1>9, <2>1, <2>2 DEF Serves
  <1>10. CASE Fails
    <2>1. ASSUME NEW c \in Calls, HandlerFails(c) PROVE LinesInOrder'
      <3>1. PICK result \in {"refused", "not_ready"} : Finish(c, result, "release")
        BY <2>1 DEF HandlerFails
      <3> DEFINE k == [call[c] EXCEPT !.step = "done", !.result = result, !.book = "release"]
      <3>0. call[c] \in CallRecord /\ call[c].step = "running"
        BY <1>0, <2>1 DEF CallType, HandlerFails
      <3>2. k \in CallRecord /\ k.write = call[c].write
        BY <3>0 DEF CallRecord
      <3>3. call' = [call EXCEPT ![c] = Settled(k)] /\ UNCHANGED phoneVars /\ UNCHANGED drain
        BY <2>1, <3>1 DEF HandlerFails, Finish, drainVars
      <3> HIDE DEF k
      <3> QED BY <3>0, <3>2, <3>3, <1>8, <1>a, <1>b DEF LinesInOrder
    <2>1a. ASSUME NEW c \in Calls, HandlerThrowsLate(c) PROVE LinesInOrder'
      <3> DEFINE k == [call[c] EXCEPT !.step = "done", !.result = "refused", !.book = "release"]
      <3>0. call[c] \in CallRecord /\ call[c].step = "running"
        BY <1>0, <2>1a DEF CallType, HandlerThrowsLate
      <3>1. k \in CallRecord /\ k.write = call[c].write
        BY <3>0 DEF CallRecord
      <3>2. call' = [call EXCEPT ![c] = Settled(k)] /\ UNCHANGED phoneVars /\ UNCHANGED drain
        BY <2>1a DEF HandlerThrowsLate, Finish, drainVars
      <3> HIDE DEF k
      <3> QED BY <3>0, <3>1, <3>2, <1>8, <1>a, <1>b DEF LinesInOrder
    <2>2. ASSUME NEW c \in Calls, BookingFails(c) PROVE LinesInOrder'
      <3> DEFINE k == [call[c] EXCEPT !.book = "none"]
      <3>0. call[c] \in CallRecord
        BY <1>0 DEF CallType
      <3>1. k \in CallRecord /\ k.write = call[c].write /\ k.step = call[c].step
        BY <3>0 DEF CallRecord
      <3>2. call' = [call EXCEPT ![c] = Settled(k)] /\ UNCHANGED phoneVars /\ UNCHANGED drain
        BY <2>2 DEF BookingFails, drainVars
      <3> HIDE DEF k
      <3> QED BY <3>1, <3>2, <1>8, <1>a, <1>b DEF LinesInOrder
    <2>3. ASSUME NEW c \in Calls, LoseAnswer(c) PROVE LinesInOrder'
      <3> DEFINE k == [call[c] EXCEPT !.by = NoOne]
      <3>0. call[c] \in CallRecord
        BY <1>0 DEF CallType
      <3>1. k \in CallRecord /\ k.write = call[c].write /\ k.step = call[c].step
        BY <3>0 DEF CallRecord
      <3>2. call' = [call EXCEPT ![c] = Settled(k)] \/ call' = [call EXCEPT ![c] = Free]
        BY <2>3 DEF LoseAnswer
      <3>3. UNCHANGED phoneVars /\ call[c].by \in Drains /\ Stop(call[c].by)
        BY <2>3, <3>0 DEF LoseAnswer, HearsNothing, Keep, CallRecord
      <3>4. \A e \in Drains : drain'[e].todo \in {drain[e].todo, <<>>}
        BY <1>0, <3>3, StopEffect DEF Off
      <3> HIDE DEF k
      <3> QED BY <3>1, <3>2, <3>3, <3>4, <1>8, <1>a, <1>b DEF LinesInOrder
    <2>4. ASSUME NEW d \in Drains, UploadFails(d) PROVE LinesInOrder'
      <3> DEFINE w == Head(drain[d].todo)
      <3>1. w \in Writes /\ drain[d].todo # <<>>
        BY <1>0, <2>4, HeadOfTodo DEF UploadFails
      <3>2. w \in Past'
        BY <1>1, <2>4, <3>1 DEF UploadFails, WordIsTrue, UploadsTrue, Past
      <3>3. MarkFailed /\ Advance(d) /\ call' = call
        BY <2>4 DEF UploadFails
      <3>4. Line(entries)' /\ Line(stored)' /\ Line(reading)' /\ ahead' = ahead
        BY <1>1, <1>2, <3>1, <3>2, <3>3, HearsLine
      <3>5. \A e \in Drains : drain'[e].todo = drain[e].todo \/ (e = d /\ drain'[e].todo \in {<<>>, Tail(drain[d].todo)})
        BY <1>0, <3>3, AdvanceEffect
      <3> QED BY <3>1, <3>2, <3>3, <3>4, <3>5, <1>b, <1>c DEF LinesInOrder
    <2>5. CASE ServerCrashes
      <3>1. UNCHANGED phoneVars /\ \A d \in Drains : drain'[d].todo \in {drain[d].todo, <<>>}
        BY <2>5 DEF ServerCrashes, Keep, Off
      <3>2. \A b \in Calls : call'[b] = Free
        BY <2>5 DEF ServerCrashes
      <3> QED BY <3>1, <3>2, <1>a, <1>b, <1>c, FreeType DEF LinesInOrder
    <2>6. CASE AppRestarts
      <3>1. ahead' = ahead /\ entries' = <<>> /\ stored' = stored /\ reading' = <<>>
              /\ \A d \in Drains : drain'[d].todo = <<>>
        BY <2>6 DEF AppRestarts, Off
      <3>2. Line(entries)' /\ Line(stored)' /\ Line(reading)'
        BY <1>0, <1>2, <1>e, <1>m, <3>1 DEF PhoneType, Line
      <3> DEFINE k(b) == [call[b] EXCEPT !.by = NoOne]
      <3>3. \A b \in Calls : k(b) \in CallRecord /\ k(b).write = call[b].write /\ k(b).step = call[b].step
        BY <1>0 DEF CallType, CallRecord
      <3>4. call' = [b \in Calls |-> Settled(k(b))]
        BY <2>6 DEF AppRestarts
      <3> HIDE DEF k
      <3>5. \A b \in Calls : call'[b] = k(b) \/ call'[b] = Free
        BY <3>3, <3>4, SettledType
      <3>6. CallsInOrder'
        BY <1>c, <3>1, <3>3, <3>5, FreeType
      <3> QED BY <3>1, <3>2, <3>6, <1>b DEF LinesInOrder
    <2> QED BY <1>10, <2>1, <2>1a, <2>2, <2>3, <2>4, <2>5, <2>6 DEF Fails
  <1>11. CASE ShowQueued
    <2>1. UNCHANGED <<ahead, entries, stored, drain, call>> /\ reading' = stored
      BY <1>11 DEF ShowQueued, StartsLoading, drainVars
    <2>2. Line(entries)' /\ Line(stored)' /\ Line(reading)'
      BY <1>0, <1>2, <1>m, <2>1 DEF PhoneType, Line
    <2> QED BY <2>1, <2>2, <1>b, <1>c DEF LinesInOrder
  <1> QED BY <1>4, <1>5, <1>6, <1>7, <1>9, <1>10, <1>11 DEF Next

\* Writes are done in the order they were queued: none is done under its key
\* while one queued before it is neither done nor answered.
THEOREM KeepsOrder == Spec => InOrder
  <1>1. Init => LinesInOrder
    <2> SUFFICES ASSUME Init PROVE LinesInOrder
      OBVIOUS
    <2>1. entries = <<>> /\ stored = <<>> /\ reading = <<>> /\ \A d \in Drains : drain[d].todo = <<>>
      BY DEF Init, Off
    <2>2. \A c \in Calls : call[c].step = "free"
      BY FreeType DEF Init
    <2> QED BY <2>1, <2>2, OrderedEmpty DEF LinesInOrder, Line, CallsInOrder
  <1>2. Types /\ Waits /\ WordIsTrue /\ LinesInOrder /\ [Next]_vars => LinesInOrder'
    BY LinesStep
  <1>3. Types /\ LinesInOrder /\ [Next]_vars =>
          [\A w \in Writes : ran'[w] > ran[w] => \A v \in ahead[w] : ran[v] > 0 \/ v \in answered]_vars
    <2> SUFFICES ASSUME Types, LinesInOrder, [Next]_vars, NEW w \in Writes, ran'[w] > ran[w],
                        NEW v \in ahead[w]
                 PROVE  ran[v] > 0 \/ v \in answered
      OBVIOUS
    <2>1. KeyType
      BY DEF Types
    <2>2. PICK c \in Calls : HandlerSucceeds(c) \/ HandlerThrowsLate(c)
      BY <2>1, RanGrows DEF KeyType
    <2>3. w = KeyOf(c) /\ call[c].step = "running"
      BY <2>1, <2>2 DEF HandlerSucceeds, HandlerThrowsLate, KeyType
    <2>4. ahead[w] \subseteq Past
      BY <2>3 DEF LinesInOrder, CallsInOrder, KeyOf
    <2> QED BY <2>4 DEF Past
  <1> QED BY <1>1, <1>2, <1>3, WordAlways, PTL DEF Spec, InOrder

===============================================================================
