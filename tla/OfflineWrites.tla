---------------------------- MODULE OfflineWrites -----------------------------
(***************************************************************************)
(* Writes made on a phone with a bad connection: the app's outbox, and the *)
(* idempotency keys by which the server runs a repeated write once.        *)
(*                                                                         *)
(* A write is sent at once, without a key: no row of the server knows of   *)
(* that request, and the model begins where no answer to it came.  The     *)
(* write is queued under a new key, and a drain sends it with that key,    *)
(* again and again, until the server answers.  Whoever does not hear the   *)
(* answer cannot tell whether the write ran.  A photo is queued with its   *)
(* images: its drain registers the capture (a keyed write like the         *)
(* others), then uploads them.                                             *)
(*                                                                         *)
(* Not modelled: sign-out, an expired session (it stops a drain like a     *)
(* lost answer), a full storage, and a key used for two requests.          *)
(***************************************************************************)
EXTENDS Naturals, Sequences, FiniteSets

CONSTANTS
  Writes,     \* the writes a person makes; also the keys they are queued under
  Photos,     \* those that are captures, the others being JSON writes
  Drains,     \* drains of the queue that one process may run
  Calls,      \* keyed requests on their way or at the server
  NoWrite, NoOne,
  MaxFaults   \* bound: answers lost, refusals, failed bookkeeping, crashes, restarts

ASSUME ConstantsAssumption ==
  /\ Photos \subseteq Writes
  /\ NoWrite \notin Writes
  /\ NoOne \notin Drains
  /\ IsFiniteSet(Calls)
  /\ MaxFaults \in Nat

VARIABLES
  write,      \* what has become of a write, as the phone knows it
  ahead,      \* the writes that were in the queue when a write was queued
  entries,    \* outbox.ts entries: the queue in memory
  stored,     \* the queue in AsyncStorage
  loading,    \* outbox.ts loaded, and whether the read is still under way
  reading,    \* what that read will return
  overwrote,  \* a write was queued while the first read was under way
  drain,      \* a drain: where it is, and the rest of its copy of the queue
  draining,   \* http.ts draining
  call,       \* requests: where they are, and who waits for the answer
  row,        \* idempotency_keys: none, claimed (no response_code), recorded
  ran,        \* how often the handler has done a write under its key
  gone,       \* how often claimKey found a row that had just been deleted
  threw,      \* how often its handler did the write and then failed
  answered,   \* the writes a drain has been answered about other than with success
  faults

phoneVars == <<write, ahead, entries, stored, loading, reading, overwrote>>
drainVars == <<drain, draining, answered>>
keyVars == <<row, ran, gone, threw>>
vars == <<phoneVars, drainVars, call, keyVars, faults>>

---------------------------------------------------------------------------

Off == [at |-> "off", todo |-> <<>>]
Free == [step |-> "free", write |-> NoWrite, by |-> NoOne, result |-> "none", book |-> "none"]

DrainRecord ==
  [at : {"off", "loading", "starting", "next", "waiting", "uploading"}, todo : Seq(Writes)]

CallRecord ==
  [step : {"free", "sent", "taken", "running", "done"},
   write : Writes \cup {NoWrite}, by : Drains \cup {NoOne},
   result : {"none", "ok", "refused", "not_ready", "in_flight"},
   book : {"none", "record", "release"}]

TypeOK ==
  /\ write \in [Writes -> {"unmade", "unsent", "loading", "forgotten", "queued", "sent", "dropped"}]
  /\ ahead \in [Writes -> SUBSET Writes]
  /\ entries \in Seq(Writes) /\ stored \in Seq(Writes) /\ reading \in Seq(Writes)
  /\ loading \in {"no", "reading", "yes"}
  /\ overwrote \in BOOLEAN
  /\ drain \in [Drains -> DrainRecord]
  /\ \A d \in Drains : drain[d].at \in {"next", "waiting", "uploading"} => drain[d].todo # <<>>
  /\ draining \in BOOLEAN
  /\ call \in [Calls -> CallRecord]
  /\ \A c \in Calls : call[c].step # "free" => call[c].write \in Writes
  /\ row \in [Writes -> {"none", "claimed", "recorded"}]
  /\ ran \in [Writes -> Nat] /\ gone \in [Writes -> Nat] /\ threw \in [Writes -> Nat]
  /\ answered \subseteq Writes
  /\ faults \in 0..MaxFaults

Init ==
  /\ write = [w \in Writes |-> "unmade"]
  /\ ahead = [w \in Writes |-> {}]
  /\ entries = <<>> /\ stored = <<>> /\ reading = <<>>
  /\ loading = "no" /\ overwrote = FALSE
  /\ drain = [d \in Drains |-> Off] /\ draining = FALSE /\ answered = {}
  /\ call = [c \in Calls |-> Free]
  /\ row = [w \in Writes |-> "none"]
  /\ ran = [w \in Writes |-> 0] /\ gone = [w \in Writes |-> 0] /\ threw = [w \in Writes |-> 0]
  /\ faults = 0

Queued(q) == {q[i] : i \in DOMAIN q}

\* The queue without w, which is in it once at most: an id is minted once.
Without(q, w) ==
  IF w \notin Queued(q) THEN q
  ELSE LET i == CHOOSE i \in DOMAIN q : q[i] = w
       IN  [j \in 1..(Len(q) - 1) |-> q[IF j < i THEN j ELSE j + 1]]

Fault == faults < MaxFaults /\ faults' = faults + 1

---------------------------------------------------------------------------
(* The outbox                                                              *)

\* enqueue: the entry goes to the end of the memory's queue, and that queue
\* over the stored one.
Enqueue(w) ==
  /\ entries' = Append(entries, w)
  /\ stored' = Append(entries, w)
  /\ ahead' = [ahead EXCEPT ![w] = Queued(entries)]
  /\ overwrote' = (overwrote \/ loading = "reading")

\* remove: out of the memory's queue, and that queue over the stored one.
Remove(w, status) ==
  /\ entries' = Without(entries, w)
  /\ stored' = Without(entries, w)
  /\ write' = IF write[w] = "queued" THEN [write EXCEPT ![w] = status] ELSE write
  /\ UNCHANGED <<ahead, loading, reading, overwrote>>

\* markFailed: the entry stays, and the memory's queue goes over the stored one.
MarkFailed ==
  /\ stored' = entries
  /\ UNCHANGED <<write, ahead, entries, loading, reading, overwrote>>

\* loadOutbox: whoever comes first starts the read, and waits for it; the
\* others find `loaded` set and go on at once.
StartsLoading ==
  /\ loading = "no"
  /\ loading' = "reading" /\ reading' = stored

\* pendingWrites, which the capture screen asks for when it opens.
ShowQueued ==
  /\ StartsLoading
  /\ UNCHANGED <<write, ahead, entries, stored, overwrote, drainVars, call, keyVars, faults>>

LoadEnds ==
  /\ loading = "reading"
  /\ loading' = "yes"
  /\ entries' = reading /\ reading' = <<>>
  /\ UNCHANGED <<write, ahead, stored, overwrote, drainVars, call, keyVars, faults>>

---------------------------------------------------------------------------
(* A person's write                                                        *)

\* request(), whose only caller with an idempotencyKey is the drain: no answer
\* comes, or the correction came too early (correctCaptureDocument).
NotAnswered(w) ==
  /\ write[w] = "unmade"
  /\ write' = [write EXCEPT ![w] = "unsent"]
  /\ UNCHANGED <<ahead, entries, stored, loading, reading, overwrote,
                 drainVars, call, keyVars, faults>>

\* Variant: the outbox is not read first.
QueuesUnread(w) ==
  /\ write[w] = "unsent"
  /\ Enqueue(w)
  /\ write' = [write EXCEPT ![w] = "queued"]
  /\ UNCHANGED <<loading, reading, drainVars, call, keyVars, faults>>

\* No answer came: loadOutbox, then enqueue under a key of its own.  A photo
\* is queued without it (queueCapture), from a screen that has asked before.
QueueWrite(w) ==
  /\ \/ /\ write[w] = "unsent" /\ w \notin Photos /\ StartsLoading
        /\ write' = [write EXCEPT ![w] = "loading"]
        /\ UNCHANGED <<entries, stored, ahead, overwrote>>
     \/ /\ \/ write[w] = "unsent" /\ loading # "no"
           \/ write[w] = "loading" /\ loading = "yes"
        /\ Enqueue(w)
        /\ write' = [write EXCEPT ![w] = "queued"]
        /\ UNCHANGED <<loading, reading>>
  /\ UNCHANGED <<drainVars, call, keyVars, faults>>

---------------------------------------------------------------------------
(* The server                                                              *)

\* A request is over once it has been answered and its key is booked.
Settled(k) == IF k.step = "done" /\ k.by = NoOne /\ k.book = "none" THEN Free ELSE k

KeyOf(c) == call[c].write
Goto(c, step) == call' = [call EXCEPT ![c].step = step]
Finish(c, result, book) ==
  call' = [call EXCEPT ![c] =
    Settled([@ EXCEPT !.step = "done", !.result = result, !.book = book])]

\* claimKey's insert: the first request under the key wins.
ClaimKey(c) ==
  /\ call[c].step = "sent"
  /\ IF row[KeyOf(c)] = "none"
     THEN row' = [row EXCEPT ![KeyOf(c)] = "claimed"] /\ Goto(c, "running")
     ELSE row' = row /\ Goto(c, "taken")
  /\ UNCHANGED <<phoneVars, drainVars, ran, gone, threw, faults>>

\* Variant: a claim without an outcome is taken over.
TakesOver(c) ==
  /\ call[c].step = "taken"
  /\ IF row[KeyOf(c)] = "recorded" THEN Finish(c, "ok", "none") ELSE Goto(c, "running")
  /\ UNCHANGED <<phoneVars, drainVars, keyVars, faults>>

\* Its select, a statement later: a row that is gone by then is taken for one
\* that was swept, and the request runs without a row.
FindKey(c) ==
  /\ call[c].step = "taken"
  /\ \/ /\ row[KeyOf(c)] = "none"
        /\ gone' = [gone EXCEPT ![KeyOf(c)] = @ + 1]
        /\ Goto(c, "running")
     \/ row[KeyOf(c)] = "claimed" /\ Finish(c, "in_flight", "none") /\ UNCHANGED gone
     \/ row[KeyOf(c)] = "recorded" /\ Finish(c, "ok", "none") /\ UNCHANGED gone
  /\ UNCHANGED <<phoneVars, drainVars, row, ran, threw, faults>>

HandlerSucceeds(c) ==
  /\ call[c].step = "running"
  /\ Finish(c, "ok", "record")
  /\ ran' = [ran EXCEPT ![KeyOf(c)] = @ + 1]
  /\ UNCHANGED <<phoneVars, drainVars, row, gone, threw, faults>>

\* The handler throws and has done nothing: refused, or too early
\* (document_not_ready).
HandlerFails(c) ==
  /\ call[c].step = "running" /\ Fault
  /\ \E result \in {"refused", "not_ready"} : Finish(c, result, "release")
  /\ UNCHANGED <<phoneVars, drainVars, keyVars>>

\* The handler throws after its transaction has committed: `contribute` reads
\* the goals for its answer, a capture over the daily budget is refused once
\* it is stored.  The key is released all the same.
HandlerThrowsLate(c) ==
  /\ call[c].step = "running" /\ Fault
  /\ Finish(c, "refused", "release")
  /\ ran' = [ran EXCEPT ![KeyOf(c)] = @ + 1]
  /\ threw' = [threw EXCEPT ![KeyOf(c)] = @ + 1]
  /\ UNCHANGED <<phoneVars, drainVars, row, gone>>

\* Variant: what failed is recorded as an outcome too.
RecordsFailure(c) ==
  /\ call[c].book # "none"
  /\ row' = [row EXCEPT ![KeyOf(c)] = IF @ = "none" THEN "none" ELSE "recorded"]
  /\ call' = [call EXCEPT ![c] = Settled([@ EXCEPT !.book = "none"])]
  /\ UNCHANGED <<phoneVars, drainVars, ran, gone, threw, faults>>

\* recordOutcome and releaseKey, which the answer does not wait for: an
\* update of the row that is there, a delete of one without an outcome.
BookKey(c) ==
  /\ call[c].book # "none"
  /\ row' = [row EXCEPT ![KeyOf(c)] =
       IF @ = "none" THEN "none"
       ELSE IF call[c].book = "record" THEN "recorded"
       ELSE IF @ = "claimed" THEN "none" ELSE @]
  /\ call' = [call EXCEPT ![c] = Settled([@ EXCEPT !.book = "none"])]
  /\ UNCHANGED <<phoneVars, drainVars, ran, gone, threw, faults>>

BookingFails(c) ==
  /\ call[c].book # "none" /\ Fault
  /\ call' = [call EXCEPT ![c] = Settled([@ EXCEPT !.book = "none"])]
  /\ UNCHANGED <<phoneVars, drainVars, keyVars>>

---------------------------------------------------------------------------
(* The drain                                                               *)

\* Every success starts one, unless one is marked as running.  A drain that
\* would find the queue empty is not a step.
BeginDrain(d) ==
  /\ drain[d].at = "off" /\ ~draining
  /\ \/ StartsLoading /\ drain' = [drain EXCEPT ![d].at = "loading"]
     \/ /\ loading # "no" /\ entries # <<>>
        /\ drain' = [drain EXCEPT ![d].at = "starting"]
        /\ UNCHANGED <<loading, reading>>
  /\ UNCHANGED <<write, ahead, entries, stored, overwrote, draining, answered,
                 call, keyVars, faults>>

\* Variant: an empty queue is flushed as well.
FlushesEmpty(d) ==
  /\ drain[d].at = "starting" \/ (drain[d].at = "loading" /\ loading = "yes")
  /\ drain' = [drain EXCEPT ![d] = [at |-> "next", todo |-> entries]] /\ draining' = TRUE
  /\ UNCHANGED <<phoneVars, answered, call, keyVars, faults>>

\* After the await: the mark is set without a second look at it, and flush
\* copies the queue.
Flush(d) ==
  /\ drain[d].at = "starting" \/ (drain[d].at = "loading" /\ loading = "yes")
  /\ IF entries = <<>>
     THEN drain' = [drain EXCEPT ![d] = Off] /\ draining' = draining
     ELSE drain' = [drain EXCEPT ![d] = [at |-> "next", todo |-> entries]] /\ draining' = TRUE
  /\ UNCHANGED <<phoneVars, answered, call, keyVars, faults>>

SendNext(d, c) ==
  /\ drain[d].at = "next"
  /\ call[c] = Free
  /\ call' = [call EXCEPT ![c] = [Free EXCEPT !.step = "sent", !.write = Head(drain[d].todo), !.by = d]]
  /\ drain' = [drain EXCEPT ![d].at = "waiting"]
  /\ UNCHANGED <<phoneVars, draining, answered, keyVars, faults>>

Stop(d) == drain' = [drain EXCEPT ![d] = Off] /\ draining' = FALSE

\* On to the next entry of the copy.
Advance(d) ==
  LET rest == Tail(drain[d].todo) IN
  IF rest = <<>> THEN Stop(d)
  ELSE drain' = [drain EXCEPT ![d] = [at |-> "next", todo |-> rest]] /\ UNCHANGED draining

Keep == UNCHANGED phoneVars

\* What the drain makes of an answer.
Hears(d, w, result) ==
  /\ answered' = IF result = "ok" THEN answered ELSE answered \cup {w}
  /\ \/ /\ result = "ok" /\ w \in Photos
        /\ drain' = [drain EXCEPT ![d].at = "uploading"]
        /\ Keep /\ UNCHANGED draining
     \/ result = "ok" /\ w \notin Photos /\ Remove(w, "sent") /\ Advance(d)
     \* A write the server refuses, or is still busy with, is dropped.
     \/ result \in {"refused", "in_flight"} /\ w \notin Photos
        /\ Remove(w, "dropped") /\ Advance(d)
     \* document_not_ready, and whatever stops a photo, is tried again later.
     \/ /\ result # "ok" /\ (result = "not_ready" \/ w \in Photos)
        /\ MarkFailed /\ Advance(d)

\* The uploads after a registered capture.
Upload(d) ==
  /\ drain[d].at = "uploading"
  /\ Remove(Head(drain[d].todo), "sent")
  /\ Advance(d)
  /\ UNCHANGED <<answered, call, keyVars, faults>>

UploadFails(d) ==
  /\ drain[d].at = "uploading" /\ Fault
  /\ MarkFailed /\ Advance(d)
  /\ UNCHANGED <<answered, call, keyVars>>

---------------------------------------------------------------------------
(* Answers, and their loss                                                 *)

Answer(c) ==
  /\ call[c].step = "done" /\ call[c].by # NoOne
  /\ call' = [call EXCEPT ![c] = Settled([@ EXCEPT !.by = NoOne])]
  /\ Hears(call[c].by, KeyOf(c), call[c].result)
  /\ UNCHANGED <<keyVars, faults>>

\* Variants: the next entry is sent although this one was not heard of; the
\* mark stays set.
GoesOn(c) == Advance(call[c].by) /\ Keep /\ UNCHANGED answered

StaysMarked(c) ==
  drain' = [drain EXCEPT ![call[c].by] = Off] /\ UNCHANGED <<draining, answered>> /\ Keep

\* No answer: the drain stops for now.
HearsNothing(c) == Stop(call[c].by) /\ Keep /\ UNCHANGED answered

\* The phone gives a request up that never arrives, or that runs on.
LoseAnswer(c) ==
  /\ call[c].by # NoOne /\ Fault
  /\ HearsNothing(c)
  /\ \/ call[c].step = "sent" /\ call' = [call EXCEPT ![c] = Free]
     \/ call' = [call EXCEPT ![c] = Settled([@ EXCEPT !.by = NoOne])]
  /\ UNCHANGED keyVars

\* The server stops: the drains that wait see their connections break.
ServerCrashes ==
  /\ Fault
  /\ \E c \in Calls : call[c] # Free
  /\ call' = [c \in Calls |-> Free]
  /\ drain' = [d \in Drains |-> IF drain[d].at = "waiting" THEN Off ELSE drain[d]]
  /\ draining' = (draining /\ \A d \in Drains : drain[d].at # "waiting")
  /\ Keep /\ UNCHANGED <<answered, keyVars>>

\* The app is closed: the memory is lost, and what was not queued yet.
AppRestarts ==
  /\ Fault
  /\ write' = [w \in Writes |->
       IF write[w] \in {"unsent", "loading"} THEN "forgotten" ELSE write[w]]
  /\ entries' = <<>> /\ loading' = "no" /\ reading' = <<>>
  /\ drain' = [d \in Drains |-> Off] /\ draining' = FALSE
  /\ call' = [c \in Calls |-> Settled([call[c] EXCEPT !.by = NoOne])]
  /\ UNCHANGED <<ahead, stored, overwrote, answered, keyVars>>

---------------------------------------------------------------------------

Phone(d) == BeginDrain(d) \/ Flush(d) \/ Upload(d) \/ \E c \in Calls : SendNext(d, c)

Serves(c) ==
  ClaimKey(c) \/ FindKey(c) \/ HandlerSucceeds(c) \/ BookKey(c) \/ Answer(c)

Fails ==
  \/ \E c \in Calls :
       HandlerFails(c) \/ HandlerThrowsLate(c) \/ BookingFails(c) \/ LoseAnswer(c)
  \/ \E d \in Drains : UploadFails(d)
  \/ ServerCrashes \/ AppRestarts

Next ==
  \/ \E w \in Writes : NotAnswered(w) \/ QueueWrite(w)
  \/ ShowQueued \/ LoadEnds
  \/ \E d \in Drains : Phone(d)
  \/ \E c \in Calls : Serves(c)
  \/ Fails

Spec == Init /\ [][Next]_vars

\* The app is used while there is a connection, so drains begin and go on; a
\* request that arrives is worked on, and answered.
FairSpec ==
  /\ Spec
  /\ WF_vars(LoadEnds)
  /\ \A d \in Drains : WF_vars(Phone(d))
  /\ \A c \in Calls : WF_vars(Serves(c))

---------------------------------------------------------------------------
(* Properties                                                              *)

\* A queued write is done at most once, however often it is sent, and once more
\* at most for each request that found its row deleted (claimKey) and for each
\* handler that failed after its commit, since its key is released (interceptor).
\* Every other repeat, a second drain's or one after a crash, does nothing.
KeyRunsOnce == \A w \in Writes : ran[w] <= 1 + gone[w] + threw[w]

\* What the phone counts as sent the server has done: no replayed answer, no
\* second drain and no upload makes up an outcome (drain, flush).
SentIsDone == \A w \in Writes : write[w] = "sent" => ran[w] > 0

\* A queued write is in the storage until the server has answered, through
\* restarts and drains, unless one was queued during the first read (outbox.ts).
KeptUntilAnswered ==
  overwrote \/ \A w \in Writes : write[w] = "queued" => w \in Queued(stored)

\* Writes are done in the order they were queued: a write is not done under
\* its key while one queued before it is neither done nor answered (flush).
InOrder ==
  [][\A w \in Writes : ran'[w] > ran[w] =>
       \A v \in ahead[w] : ran[v] > 0 \/ v \in answered]_vars

\* A claim that no request under way will ever write an outcome to.
Stranded(w) ==
  /\ row[w] = "claimed"
  /\ \A c \in Calls : call[c].write = w => call[c].step # "running" /\ call[c].book = "none"

\* Every queued write leaves the queue, unless it is a photo whose key is
\* stranded (or the storage was overwritten).
QueueEmpties ==
  \A w \in Writes :
    write[w] = "queued" ~>
      write[w] # "queued" \/ overwrote \/ (w \in Photos /\ Stranded(w))

===============================================================================
