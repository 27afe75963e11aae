------------------------- MODULE CreditPurchasesProofs -------------------------
(***************************************************************************)
(* What holds of CreditPurchases for any numbers of orders, sessions, Play *)
(* purchases, requests, scans and faults, and for packs of any size.       *)
(***************************************************************************)
EXTENDS CreditPurchases, FiniteSetTheorems, TLAPS

---------------------------------------------------------------------------
(* The inductive invariant                                                 *)

\* A session is of an order that was started, and is the order's own by the
\* time the buyer sees it.
Attached ==
  \A s \in Sessions : checkout[s].state # "none" =>
    /\ checkout[s].of \in Orders /\ status[checkout[s].of] # "none"
    /\ checkout[s].state \in Shown => session[checkout[s].of] = s

\* What a request under way has read still stands, but for a void.
AskingOf(r) ==
  /\ req[r].step \in {"create", "attach"} =>
       req[r].of \in Orders /\ status[req[r].of] # "none"
  /\ req[r].step = "attach" =>
       /\ req[r].ref \in Sessions
       /\ checkout[req[r].ref].of = req[r].of /\ checkout[req[r].ref].state = "made"
  /\ req[r].step \in {"grant", "consume"} =>
       req[r].of \in Tokens /\ play[req[r].of] \in {"purchased", "voided"}
  /\ req[r].step = "consume" => status[req[r].of] \in {"paid", "refunded"}

Asking == \A r \in Requests : AskingOf(r)

OwnSessions ==
  \A r, q \in Requests :
    req[r].step = "attach" /\ req[q].step = "attach" /\ req[r].ref = req[q].ref => r = q

\* A settled order was settled by its own session.
CardRow(o) ==
  status[o] \in {"paid", "refunded"} =>
    /\ session[o] \in Sessions /\ checkout[session[o]].of = o
    /\ status[o] = "paid" =>
         payment[o] = session[o] /\ checkout[session[o]].state \in {"paid", "refunded"}
    /\ status[o] = "refunded" => checkout[session[o]].state = "refunded"

CardRows == \A o \in Orders : CardRow(o)

\* An event tells what happened, and until it has been answered a refund may
\* still be unheard of.
HeardOf(s) ==
  /\ <<"completed", s>> \in events => checkout[s].state \in {"paid", "refunded"}
  /\ <<"refunded", s>> \in events => checkout[s].state = "refunded"
  /\ checkout[s].state = "refunded" /\ <<"refunded", s>> \notin events =>
       status[checkout[s].of] = "refunded"

Heard == \A s \in Sessions : HeardOf(s)

PlayRow(t) ==
  /\ status[t] \in {"none", "paid", "refunded"}
  /\ status[t] # "none" => payment[t] = t /\ play[t] \in {"purchased", "voided"}
  /\ status[t] = "refunded" => play[t] = "voided"
  /\ t \in notices => play[t] = "voided"
  /\ t \in consumed => status[t] # "none"
  /\ play[t] = "voided" /\ t \notin notices \cup stale => status[t] # "paid"

PlayRows == \A t \in Tokens : PlayRow(t)

Untouched(p) == left[p] = 0 /\ \A x \in Scans : scan[x] # p

\* A grant is live while its purchase is paid; a purchase refunded before it
\* was granted has none.
GrantOf(p) ==
  /\ status[p] = "paid" => p \notin expired
  /\ status[p] = "refunded" => p \in expired \/ Untouched(p)
  /\ status[p] \in {"none", "pending"} => p \notin expired /\ Untouched(p)

Granted == \A p \in Purchases : GrantOf(p)

IInv == TypeOK /\ Attached /\ Asking /\ OwnSessions /\ CardRows /\ Heard /\ PlayRows /\ Granted


---------------------------------------------------------------------------
(* Frames: what a step that leaves some of the state alone preserves       *)

\* Events stay true while sessions, events and card orders stand.
LEMMA HeardStands ==
  ASSUME Attached, Heard, UNCHANGED <<checkout, events>>,
         \A o \in Orders : status'[o] = status[o]
  PROVE  Heard'
<1> SUFFICES ASSUME NEW s \in Sessions PROVE HeardOf(s)'
  BY DEF Heard
<1>1. HeardOf(s) /\ (checkout[s].state = "refunded" => checkout[s].of \in Orders)
  BY DEF Heard, Attached
<1> QED BY <1>1 DEF HeardOf

\* Sessions that no event speaks of may move.
LEMMA HeardMoves ==
  ASSUME Heard, UNCHANGED <<status, events>>,
         \A s \in Sessions :
           \/ checkout'[s] = checkout[s]
           \/ {checkout[s].state, checkout'[s].state} \cap {"paid", "refunded"} = {}
  PROVE  Heard'
<1> SUFFICES ASSUME NEW s \in Sessions PROVE HeardOf(s)'
  BY DEF Heard
<1>1. HeardOf(s)
  BY DEF Heard
<1>2. CASE checkout'[s] = checkout[s]
  BY <1>1, <1>2 DEF HeardOf
<1>3. CASE {checkout[s].state, checkout'[s].state} \cap {"paid", "refunded"} = {}
  BY <1>1, <1>3 DEF HeardOf
<1> QED BY <1>2, <1>3

\* A request whose session has been made.
LEMMA RequestTyped ==
  ASSUME NEW q \in [step : {"idle", "create", "attach", "grant", "consume"},
                    of : Purchases \cup {NoRef}, ref : Sessions \cup {NoRef}],
         NEW s \in Sessions
  PROVE  [q EXCEPT !.step = "attach", !.ref = s]
           \in [step : {"idle", "create", "attach", "grant", "consume"},
               of : Purchases \cup {NoRef}, ref : Sessions \cup {NoRef}]
OBVIOUS

\* What Delivered does to the events.
LEMMA DeliveredOnly ==
  ASSUME NEW e, Delivered(e)
  PROVE  /\ e \in events /\ events' \subseteq events
         /\ \A f \in events : f # e => f \in events'
         /\ faults \in 0..MaxFaults => faults' \in 0..MaxFaults
         /\ UNCHANGED <<scanVars, checkout, playVars, req, stale>>
BY ConstantsAssumption DEF Delivered, Fault

---------------------------------------------------------------------------
(* Every step keeps the invariant                                          *)

LEMMA StartCreditPurchaseKeeps ==
  ASSUME IInv, NEW o \in Orders, StartCreditPurchase(o)
  PROVE  IInv'
<1> USE ConstantsAssumption DEF StartCreditPurchase,
      rowVars, grantVars, scanVars, stripeVars, playVars, IInv, Purchases
<1>1. TypeOK'
  BY DEF TypeOK
<1>2. Attached'
  BY DEF TypeOK, Attached
<1>3. Asking'
  BY DEF TypeOK, Asking, AskingOf
<1>4. OwnSessions'
  BY DEF TypeOK, OwnSessions
<1>5. CardRows'
  BY DEF TypeOK, CardRows, CardRow
<1>6. Heard'
  BY DEF TypeOK, Heard, HeardOf, Attached
<1>7. PlayRows'
  BY DEF TypeOK, PlayRows, PlayRow
<1>8. Granted'
  BY DEF TypeOK, Granted, GrantOf, Untouched
<1> QED BY <1>1, <1>2, <1>3, <1>4, <1>5, <1>6, <1>7, <1>8

LEMMA BeginCheckoutKeeps ==
  ASSUME IInv, NEW r \in Requests, NEW o \in Orders, BeginCheckout(r, o)
  PROVE  IInv'
<1> USE ConstantsAssumption DEF BeginCheckout, Begin, Idle,
      rowVars, grantVars, scanVars, stripeVars, playVars, IInv, Purchases
<1>1. TypeOK'
  BY DEF TypeOK
<1>2. Attached'
  BY DEF TypeOK, Attached
<1>3. Asking'
  BY DEF TypeOK, Asking, AskingOf
<1>4. OwnSessions'
  BY DEF TypeOK, OwnSessions
<1>5. CardRows'
  BY DEF TypeOK, CardRows, CardRow
<1>6. Heard'
  BY DEF TypeOK, Heard, HeardOf
<1>7. PlayRows'
  BY DEF TypeOK, PlayRows, PlayRow
<1>8. Granted'
  BY DEF TypeOK, Granted, GrantOf, Untouched
<1> QED BY <1>1, <1>2, <1>3, <1>4, <1>5, <1>6, <1>7, <1>8

LEMMA CreateCheckoutKeeps ==
  ASSUME IInv, NEW r \in Requests, NEW s \in Sessions, CreateCheckout(r, s)
  PROVE  IInv'
<1> USE ConstantsAssumption DEF CreateCheckout,
      rowVars, grantVars, scanVars, stripeVars, playVars, IInv, Purchases
<1>1. TypeOK'
  <2>1. checkout' \in [Sessions -> [of : Orders \cup {NoRef}, state : {"none", "made"} \cup Shown]]
    BY DEF TypeOK, Asking, AskingOf
  <2>2. [req[r] EXCEPT !.step = "attach", !.ref = s]
          \in [step : {"idle", "create", "attach", "grant", "consume"},
              of : Purchases \cup {NoRef}, ref : Sessions \cup {NoRef}]
    BY RequestTyped DEF TypeOK
  <2>3. req' = [req EXCEPT ![r] = [req[r] EXCEPT !.step = "attach", !.ref = s]]
    BY DEF TypeOK
  <2>4. req' \in [Requests -> [step : {"idle", "create", "attach", "grant", "consume"},
                              of : Purchases \cup {NoRef}, ref : Sessions \cup {NoRef}]]
    BY <2>2, <2>3 DEF TypeOK
  <2> QED BY <2>1, <2>4 DEF TypeOK
<1>2. Attached'
  BY DEF TypeOK, Attached, Asking, AskingOf, Shown, Charged
<1>3. Asking'
  BY DEF TypeOK, Asking, AskingOf
<1>4. OwnSessions'
  BY DEF TypeOK, OwnSessions, Asking, AskingOf
<1>5. CardRows'
  BY DEF TypeOK, CardRows, CardRow
<1>6. Heard'
  BY HeardMoves DEF TypeOK
<1>7. PlayRows'
  BY DEF TypeOK, PlayRows, PlayRow
<1>8. Granted'
  BY DEF TypeOK, Granted, GrantOf, Untouched
<1> QED BY <1>1, <1>2, <1>3, <1>4, <1>5, <1>6, <1>7, <1>8

LEMMA AttachCheckoutSessionKeeps ==
  ASSUME IInv, NEW r \in Requests, AttachCheckoutSession(r)
  PROVE  IInv'
<1> USE ConstantsAssumption DEF AttachCheckoutSession, MayAttach, Idle, Fault,
      rowVars, grantVars, scanVars, stripeVars, playVars, IInv, Purchases
<1>1. TypeOK'
  <2>1. req[r].of \in Orders /\ req[r].ref \in Sessions
    BY DEF Asking, AskingOf
  <2>2. session' \in [Orders -> Sessions \cup {NoRef}]
    BY <2>1 DEF TypeOK
  <2>3. checkout' \in [Sessions -> [of : Orders \cup {NoRef}, state : {"none", "made"} \cup Shown]]
    <3>1. "open" \in Shown
      BY DEF Shown
    <3>2. checkout' = checkout \/ checkout' = [checkout EXCEPT ![req[r].ref].state = "open"]
      OBVIOUS
    <3> QED BY <2>1, <3>1, <3>2 DEF TypeOK
  <2>4. req' \in [Requests -> [step : {"idle", "create", "attach", "grant", "consume"},
                              of : Purchases \cup {NoRef}, ref : Sessions \cup {NoRef}]]
    BY DEF TypeOK
  <2> QED BY <2>2, <2>3, <2>4 DEF TypeOK
<1>2. Attached'
  BY DEF TypeOK, Attached, Asking, AskingOf
<1>3. Asking'
  <2> SUFFICES ASSUME NEW q \in Requests PROVE AskingOf(q)'
    BY DEF Asking
  <2>1. CASE q = r
    BY <2>1 DEF AskingOf, TypeOK
  <2>2. CASE q # r
    <3>1. req'[q] = req[q] /\ AskingOf(q)
      BY <2>2 DEF Asking, TypeOK
    <3>2. req[q].step = "attach" => req[q].ref # req[r].ref
      BY <2>2 DEF OwnSessions
    <3>3. req[q].step = "attach" => checkout'[req[q].ref] = checkout[req[q].ref]
      BY <3>1, <3>2 DEF AskingOf, TypeOK
    <3> QED BY <3>1, <3>3 DEF AskingOf
  <2> QED BY <2>1, <2>2
<1>4. OwnSessions'
  BY DEF TypeOK, OwnSessions
<1>5. CardRows'
  BY DEF TypeOK, CardRows, CardRow, Asking, AskingOf
<1>6. Heard'
  <2>1. \A u \in Sessions : checkout'[u] # checkout[u] =>
          checkout[u].state = "made" /\ checkout'[u].state = "open"
    BY DEF TypeOK, Asking, AskingOf
  <2> QED BY <2>1, HeardMoves
<1>7. PlayRows'
  BY DEF TypeOK, PlayRows, PlayRow
<1>8. Granted'
  BY DEF TypeOK, Granted, GrantOf, Untouched
<1> QED BY <1>1, <1>2, <1>3, <1>4, <1>5, <1>6, <1>7, <1>8

LEMMA BuyerKeeps ==
  ASSUME IInv, NEW s \in Sessions, Buyer(s)
  PROVE  IInv'
<1> USE ConstantsAssumption DEF Buyer, Pays, PaysLater, Clears, Refunds, Stripe,
      rowVars, grantVars, scanVars, stripeVars, playVars, IInv, Purchases
<1>1. TypeOK'
  <2>1. PICK from \in {"open", "unpaid", "paid", "cleared"}, to \in Shown,
             new \in SUBSET {<<"completed", s>>, <<"unpaid", s>>, <<"refunded", s>>} : Stripe(s, from, to, new)
    BY DEF Shown, Charged
  <2>2. checkout' \in [Sessions -> [of : Orders \cup {NoRef}, state : {"none", "made"} \cup Shown]]
    BY <2>1 DEF TypeOK
  <2>3. events' \subseteq {"completed", "unpaid", "refunded"} \X Sessions
    BY <2>1 DEF TypeOK
  <2> QED BY <2>1, <2>2, <2>3 DEF TypeOK
<1>2. Attached'
  <2>1. PICK from \in {"open", "unpaid", "paid", "cleared"},
             to \in {"unpaid", "paid", "cleared", "refunded"},
             new \in SUBSET {<<"completed", s>>, <<"unpaid", s>>, <<"refunded", s>>} :
          Stripe(s, from, to, new) /\ (from \in Charged => to = "refunded")
    BY DEF Shown, Charged
  <2>2. checkout'[s].of = checkout[s].of /\ checkout[s].state \in Shown \ {"refunded"}
    BY <2>1 DEF TypeOK, Shown, Charged
  <2>3. \A u \in Sessions \ {s} : checkout'[u] = checkout[u]
    BY <2>1 DEF TypeOK
  <2> QED BY <2>1, <2>2, <2>3 DEF Attached, Shown
<1>3. Asking'
  BY DEF TypeOK, Asking, AskingOf, PlayRows, PlayRow
<1>4. OwnSessions'
  BY DEF TypeOK, OwnSessions
<1>5. CardRows'
  <2>1. PICK from \in {"open", "unpaid", "paid", "cleared"},
             to \in {"unpaid", "paid", "cleared", "refunded"},
             new \in SUBSET {<<"completed", s>>, <<"unpaid", s>>, <<"refunded", s>>} :
          Stripe(s, from, to, new) /\ (from \in Charged => to = "refunded")
    BY DEF Shown, Charged
  <2> SUFFICES ASSUME NEW o \in Orders PROVE CardRow(o)'
    BY DEF CardRows
  <2>2. CardRow(o) /\ UNCHANGED <<status, session, payment>>
    BY <2>1 DEF CardRows
  <2>3. checkout'[s] = [checkout[s] EXCEPT !.state = to] /\ \A u \in Sessions \ {s} : checkout'[u] = checkout[u]
    BY <2>1 DEF TypeOK
  <2>4. checkout[s].state = from /\ checkout'[s].of = checkout[s].of /\ checkout'[s].state = to
    BY <2>1, <2>3 DEF TypeOK
  <2> QED BY <2>1, <2>2, <2>3, <2>4 DEF CardRow, Charged
<1>6. Heard'
  <2> SUFFICES ASSUME NEW u \in Sessions PROVE HeardOf(u)'
    BY DEF Heard
  <2>1. HeardOf(u) /\ UNCHANGED status
    BY DEF Heard
  <2>2. CASE u # s
    <3>1. checkout'[u] = checkout[u]
      BY <2>2 DEF TypeOK
    <3>2. \A k \in {"completed", "refunded"} : <<k, u>> \in events' <=> <<k, u>> \in events
      BY <2>2
    <3> QED BY <2>1, <3>1, <3>2 DEF HeardOf
  <2>3. CASE u = s /\ Pays(s)
    BY <2>1, <2>3 DEF HeardOf, TypeOK
  <2>4. CASE u = s /\ (PaysLater(s) \/ Clears(s))
    BY <2>1, <2>4 DEF HeardOf, TypeOK
  <2>5. CASE u = s /\ Refunds(s)
    BY <2>1, <2>5 DEF HeardOf, TypeOK
  <2> QED BY <2>2, <2>3, <2>4, <2>5
<1>7. PlayRows'
  BY DEF TypeOK, PlayRows, PlayRow
<1>8. Granted'
  BY DEF TypeOK, Granted, GrantOf, Untouched
<1> QED BY <1>1, <1>2, <1>3, <1>4, <1>5, <1>6, <1>7, <1>8

LEMMA CompletedWebhookKeeps ==
  ASSUME IInv, NEW s \in Sessions, CompletedWebhook(s)
  PROVE  IInv'
<1> USE ConstantsAssumption DEF CompletedWebhook, Delivered, FulfilFromProvider, Grant, Refuse, Fault,
      rowVars, grantVars, scanVars, stripeVars, playVars, IInv, Purchases
<1>1. TypeOK'
  BY DEF TypeOK, Shown, Charged, Granted, GrantOf, Untouched, Asking, AskingOf, Attached
<1>2. Attached'
  BY DEF TypeOK, Attached
<1>3. Asking'
  BY DEF TypeOK, Asking, AskingOf
<1>4. OwnSessions'
  BY DEF TypeOK, OwnSessions
<1>5. CardRows'
  <2> SUFFICES ASSUME NEW o \in Orders PROVE CardRow(o)'
    BY DEF CardRows
  <2>1. CardRow(o) /\ UNCHANGED checkout
    BY DEF CardRows
  <2>2. checkout[s].state \in {"paid", "refunded"} /\ checkout[s].of \in Orders
    BY DEF Heard, HeardOf, Attached
  <2>3. CASE UNCHANGED rowVars \/ o # checkout[s].of
    <3>1. status'[o] = status[o] /\ session'[o] = session[o] /\ payment'[o] = payment[o]
      BY <2>3, <2>2 DEF TypeOK
    <3> QED BY <2>1, <3>1 DEF CardRow
  <2>4. CASE ~UNCHANGED rowVars /\ o = checkout[s].of
    <3>1. status'[o] = "paid" /\ session'[o] = s /\ payment'[o] = s
      BY <2>4, <2>2 DEF TypeOK
    <3> QED BY <2>1, <2>2, <2>4, <3>1 DEF CardRow
  <2> QED BY <2>3, <2>4
<1>6. Heard'
  <2> SUFFICES ASSUME NEW u \in Sessions PROVE HeardOf(u)'
    BY DEF Heard
  <2>1. HeardOf(u) /\ UNCHANGED checkout
    BY DEF Heard
  <2>2. events' \subseteq events /\ \A f \in events : f # <<"completed", s>> => f \in events'
    BY DeliveredOnly DEF CompletedWebhook
  <2>3. <<"refunded", u>> # <<"completed", s>>
    OBVIOUS
  <2>4. checkout[u].state = "refunded" /\ status[checkout[u].of] = "refunded" => status'[checkout[u].of] = "refunded"
    <3>a. checkout[u].state = "refunded" => checkout[u].of \in Purchases
      BY DEF Attached
    <3>1. status' = status \/ (status[checkout[s].of] = "pending" /\ status' = [status EXCEPT ![checkout[s].of] = "paid"])
      OBVIOUS
    <3> QED BY <3>a, <3>1 DEF TypeOK
  <2> QED BY <2>1, <2>2, <2>3, <2>4 DEF HeardOf
<1>7. PlayRows'
  BY DEF TypeOK, PlayRows, PlayRow
<1>8. Granted'
  BY DEF TypeOK, Granted, GrantOf, Untouched
<1> QED BY <1>1, <1>2, <1>3, <1>4, <1>5, <1>6, <1>7, <1>8

LEMMA UnpaidWebhookKeeps ==
  ASSUME IInv, NEW s \in Sessions, UnpaidWebhook(s)
  PROVE  IInv'
<1> USE ConstantsAssumption DEF UnpaidWebhook, Delivered, Refuse, Fault,
      rowVars, grantVars, scanVars, stripeVars, playVars, IInv, Purchases
<1>1. TypeOK'
  BY DEF TypeOK
<1>2. Attached'
  BY DEF TypeOK, Attached
<1>3. Asking'
  BY DEF TypeOK, Asking, AskingOf
<1>4. OwnSessions'
  BY DEF TypeOK, OwnSessions
<1>5. CardRows'
  BY DEF TypeOK, CardRows, CardRow
<1>6. Heard'
  <2> SUFFICES ASSUME NEW u \in Sessions PROVE HeardOf(u)'
    BY DEF Heard
  <2>1. HeardOf(u) /\ UNCHANGED <<status, checkout>>
    BY DEF Heard
  <2>2. events' \subseteq events /\ \A f \in events : f # <<"unpaid", s>> => f \in events'
    BY DeliveredOnly DEF UnpaidWebhook
  <2>3. <<"refunded", u>> # <<"unpaid", s>>
    OBVIOUS
  <2> QED BY <2>1, <2>2, <2>3 DEF HeardOf
<1>7. PlayRows'
  BY DEF TypeOK, PlayRows, PlayRow
<1>8. Granted'
  BY DEF TypeOK, Granted, GrantOf, Untouched
<1> QED BY <1>1, <1>2, <1>3, <1>4, <1>5, <1>6, <1>7, <1>8

LEMMA RefundedWebhookKeeps ==
  ASSUME IInv, NEW s \in Sessions, RefundedWebhook(s)
  PROVE  IInv'
<1> USE ConstantsAssumption DEF RefundedWebhook, Delivered, RefundFromProvider, TakeBack, Refuse, Fault,
      rowVars, grantVars, scanVars, stripeVars, playVars, IInv, Purchases
<1>1. TypeOK'
  <2>a. s \in Sessions /\ checkout[s].state = "refunded" /\ checkout[s].of \in Orders
        /\ session[checkout[s].of] = s /\ status[checkout[s].of] \in {"pending", "paid", "refunded"}
    <3>1. <<"refunded", s>> \in events
      BY DeliveredOnly DEF RefundedWebhook
    <3>2. checkout[s].state = "refunded"
      BY <3>1 DEF Heard, HeardOf
    <3>3. checkout[s].of \in Orders /\ status[checkout[s].of] # "none" /\ session[checkout[s].of] = s
      BY <3>2 DEF Attached, Shown, Charged
    <3> QED BY <3>2, <3>3 DEF TypeOK
  <2>1. status' \in [Purchases -> {"none", "pending", "paid", "refunded"}]
    BY <2>a DEF TypeOK
  <2>2. payment' \in [Purchases -> Sessions \cup Tokens \cup {NoRef}] /\ UNCHANGED session
    BY <2>a DEF TypeOK
  <2>3. left' \in [Purchases -> 0..Pack] /\ expired' \subseteq Purchases
    BY <2>a DEF TypeOK
  <2>4. events' \subseteq events /\ faults' \in 0..MaxFaults /\ UNCHANGED <<scanVars, checkout, playVars, req, stale>>
    BY DeliveredOnly DEF RefundedWebhook, TypeOK
  <2> QED BY <2>1, <2>2, <2>3, <2>4 DEF TypeOK
<1>2. Attached'
  BY DEF TypeOK, Attached
<1>3. Asking'
  BY DEF TypeOK, Asking, AskingOf
<1>4. OwnSessions'
  BY DEF TypeOK, OwnSessions
<1>5. CardRows'
  <2>a. s \in Sessions /\ checkout[s].state = "refunded" /\ checkout[s].of \in Orders
        /\ session[checkout[s].of] = s /\ status[checkout[s].of] \in {"pending", "paid", "refunded"}
    <3>1. <<"refunded", s>> \in events
      BY DeliveredOnly DEF RefundedWebhook
    <3>2. checkout[s].state = "refunded"
      BY <3>1 DEF Heard, HeardOf
    <3>3. checkout[s].of \in Orders /\ status[checkout[s].of] # "none" /\ session[checkout[s].of] = s
      BY <3>2 DEF Attached, Shown, Charged
    <3> QED BY <3>2, <3>3 DEF TypeOK
  <2> SUFFICES ASSUME NEW o \in Orders PROVE CardRow(o)'
    BY DEF CardRows
  <2>1. CardRow(o) /\ UNCHANGED <<checkout, session>>
    BY DEF CardRows
  <2>2. CASE o # checkout[s].of \/ UNCHANGED rowVars
    <3>1. status'[o] = status[o] /\ payment'[o] = payment[o]
      BY <2>2, <2>a DEF TypeOK
    <3> QED BY <2>1, <3>1 DEF CardRow
  <2>3. CASE o = checkout[s].of /\ ~UNCHANGED rowVars
    <3>1. status'[o] = "refunded"
      BY <2>3, <2>a DEF TypeOK
    <3> QED BY <2>1, <2>a, <2>3, <3>1 DEF CardRow
  <2> QED BY <2>2, <2>3
<1>6. Heard'
  <2>a. s \in Sessions /\ checkout[s].state = "refunded" /\ checkout[s].of \in Orders
        /\ session[checkout[s].of] = s /\ status[checkout[s].of] \in {"pending", "paid", "refunded"}
    <3>1. <<"refunded", s>> \in events
      BY DeliveredOnly DEF RefundedWebhook
    <3>2. checkout[s].state = "refunded"
      BY <3>1 DEF Heard, HeardOf
    <3>3. checkout[s].of \in Orders /\ status[checkout[s].of] # "none" /\ session[checkout[s].of] = s
      BY <3>2 DEF Attached, Shown, Charged
    <3> QED BY <3>2, <3>3 DEF TypeOK
  <2> SUFFICES ASSUME NEW u \in Sessions PROVE HeardOf(u)'
    BY DEF Heard
  <2>1. HeardOf(u) /\ UNCHANGED checkout
    BY DEF Heard
  <2>2. events' \subseteq events /\ \A f \in events : f # <<"refunded", s>> => f \in events'
    BY DeliveredOnly DEF RefundedWebhook
  <2>3. status'[checkout[s].of] = "refunded"
    <3>1. status[checkout[s].of] = "paid" => payment[checkout[s].of] = s
      BY <2>a DEF CardRows, CardRow
    <3> QED BY <2>a, <3>1 DEF TypeOK
  <2>4. checkout[u].state = "refunded" /\ status[checkout[u].of] = "refunded" => status'[checkout[u].of] = "refunded"
    <3>a. checkout[u].state = "refunded" => checkout[u].of \in Purchases
      BY DEF Attached
    <3>1. status' = status \/ status' = [status EXCEPT ![checkout[s].of] = "refunded"]
      OBVIOUS
    <3> QED BY <3>a, <3>1 DEF TypeOK
  <2>5. CASE u # s
    <3>1. <<"refunded", u>> # <<"refunded", s>>
      BY <2>5
    <3> QED BY <2>1, <2>2, <2>4, <3>1 DEF HeardOf
  <2>6. CASE u = s
    BY <2>a, <2>1, <2>2, <2>3, <2>6 DEF HeardOf
  <2> QED BY <2>5, <2>6
<1>7. PlayRows'
  BY DEF TypeOK, PlayRows, PlayRow
<1>8. Granted'
  BY DEF TypeOK, Granted, GrantOf, Untouched
<1> QED BY <1>1, <1>2, <1>3, <1>4, <1>5, <1>6, <1>7, <1>8

LEMMA BuysKeeps ==
  ASSUME IInv, NEW t \in Tokens, Buys(t)
  PROVE  IInv'
<1> USE ConstantsAssumption DEF Buys, Play,
      rowVars, grantVars, scanVars, stripeVars, playVars, IInv, Purchases
<1>1. TypeOK'
  BY DEF TypeOK
<1>2. Attached'
  BY DEF TypeOK, Attached
<1>3. Asking'
  BY DEF TypeOK, Asking, AskingOf
<1>4. OwnSessions'
  BY DEF TypeOK, OwnSessions
<1>5. CardRows'
  BY DEF TypeOK, CardRows, CardRow
<1>6. Heard'
  BY HeardStands
<1>7. PlayRows'
  BY DEF TypeOK, PlayRows, PlayRow
<1>8. Granted'
  BY DEF TypeOK, Granted, GrantOf, Untouched
<1> QED BY <1>1, <1>2, <1>3, <1>4, <1>5, <1>6, <1>7, <1>8

LEMMA BuyClearsKeeps ==
  ASSUME IInv, NEW t \in Tokens, BuyClears(t)
  PROVE  IInv'
<1> USE ConstantsAssumption DEF BuyClears, Play,
      rowVars, grantVars, scanVars, stripeVars, playVars, IInv, Purchases
<1>1. TypeOK'
  BY DEF TypeOK
<1>2. Attached'
  BY DEF TypeOK, Attached
<1>3. Asking'
  BY DEF TypeOK, Asking, AskingOf
<1>4. OwnSessions'
  BY DEF TypeOK, OwnSessions
<1>5. CardRows'
  BY DEF TypeOK, CardRows, CardRow
<1>6. Heard'
  BY DEF TypeOK, Heard, HeardOf
<1>7. PlayRows'
  BY DEF TypeOK, PlayRows, PlayRow
<1>8. Granted'
  BY DEF TypeOK, Granted, GrantOf, Untouched
<1> QED BY <1>1, <1>2, <1>3, <1>4, <1>5, <1>6, <1>7, <1>8

LEMMA VoidsKeeps ==
  ASSUME IInv, NEW t \in Tokens, Voids(t)
  PROVE  IInv'
<1> USE ConstantsAssumption DEF Voids, Play,
      rowVars, grantVars, scanVars, stripeVars, playVars, IInv, Purchases
<1>1. TypeOK'
  BY DEF TypeOK
<1>2. Attached'
  BY DEF TypeOK, Attached
<1>3. Asking'
  BY DEF TypeOK, Asking, AskingOf
<1>4. OwnSessions'
  BY DEF TypeOK, OwnSessions
<1>5. CardRows'
  BY DEF TypeOK, CardRows, CardRow
<1>6. Heard'
  BY DEF TypeOK, Heard, HeardOf
<1>7. PlayRows'
  BY DEF TypeOK, PlayRows, PlayRow
<1>8. Granted'
  BY DEF TypeOK, Granted, GrantOf, Untouched
<1> QED BY <1>1, <1>2, <1>3, <1>4, <1>5, <1>6, <1>7, <1>8

LEMMA BeginRedeemKeeps ==
  ASSUME IInv, NEW r \in Requests, NEW t \in Tokens, BeginRedeem(r, t)
  PROVE  IInv'
<1> USE ConstantsAssumption DEF BeginRedeem, Begin, Idle,
      rowVars, grantVars, scanVars, stripeVars, playVars, IInv, Purchases
<1>1. TypeOK'
  BY DEF TypeOK
<1>2. Attached'
  BY DEF TypeOK, Attached
<1>3. Asking'
  BY DEF TypeOK, Asking, AskingOf
<1>4. OwnSessions'
  BY DEF TypeOK, OwnSessions
<1>5. CardRows'
  BY DEF TypeOK, CardRows, CardRow
<1>6. Heard'
  BY DEF TypeOK, Heard, HeardOf
<1>7. PlayRows'
  BY DEF TypeOK, PlayRows, PlayRow
<1>8. Granted'
  BY DEF TypeOK, Granted, GrantOf, Untouched
<1> QED BY <1>1, <1>2, <1>3, <1>4, <1>5, <1>6, <1>7, <1>8

LEMMA GrantGooglePlayPurchaseKeeps ==
  ASSUME IInv, NEW r \in Requests, GrantGooglePlayPurchase(r)
  PROVE  IInv'
<1> USE ConstantsAssumption DEF GrantGooglePlayPurchase, GrantOnce, InsertPaid, Grant, Refuse, Idle,
      rowVars, grantVars, scanVars, stripeVars, playVars, IInv, Purchases
<1>1. TypeOK'
  <2>1. req[r].of \in Tokens
    BY DEF Asking, AskingOf
  <2>2. status' \in [Purchases -> {"none", "pending", "paid", "refunded"}] /\ UNCHANGED <<session, expired>>
    BY <2>1 DEF TypeOK
  <2>3. payment' \in [Purchases -> Sessions \cup Tokens \cup {NoRef}]
    BY <2>1 DEF TypeOK
  <2>4. left' \in [Purchases -> 0..Pack]
    BY <2>1 DEF TypeOK, Granted, GrantOf, Untouched
  <2>5. req' \in [Requests -> [step : {"idle", "create", "attach", "grant", "consume"},
                              of : Purchases \cup {NoRef}, ref : Sessions \cup {NoRef}]]
    BY <2>1 DEF TypeOK
  <2> QED BY <2>1, <2>2, <2>3, <2>4, <2>5 DEF TypeOK
<1>2. Attached'
  BY DEF TypeOK, Attached
<1>3. Asking'
  BY DEF TypeOK, Asking, AskingOf
<1>4. OwnSessions'
  BY DEF TypeOK, OwnSessions
<1>5. CardRows'
  BY DEF TypeOK, CardRows, CardRow, Asking, AskingOf
<1>6. Heard'
  <2>1. \A o \in Orders : status'[o] = status[o]
    BY DEF Asking, AskingOf, TypeOK
  <2> QED BY <2>1, HeardStands
<1>7. PlayRows'
  BY DEF TypeOK, PlayRows, PlayRow, Asking, AskingOf
<1>8. Granted'
  BY DEF TypeOK, Granted, GrantOf, Untouched
<1> QED BY <1>1, <1>2, <1>3, <1>4, <1>5, <1>6, <1>7, <1>8

LEMMA ConsumeKeeps ==
  ASSUME IInv, NEW r \in Requests, Consume(r)
  PROVE  IInv'
<1> USE ConstantsAssumption DEF Consume, MayConsume, Idle,
      rowVars, grantVars, scanVars, stripeVars, playVars, IInv, Purchases
<1>1. TypeOK'
  BY DEF TypeOK, Asking, AskingOf
<1>2. Attached'
  BY DEF TypeOK, Attached
<1>3. Asking'
  BY DEF TypeOK, Asking, AskingOf
<1>4. OwnSessions'
  BY DEF TypeOK, OwnSessions
<1>5. CardRows'
  BY DEF TypeOK, CardRows, CardRow
<1>6. Heard'
  BY DEF TypeOK, Heard, HeardOf
<1>7. PlayRows'
  BY DEF TypeOK, PlayRows, PlayRow, Asking, AskingOf
<1>8. Granted'
  BY DEF TypeOK, Granted, GrantOf, Untouched
<1> QED BY <1>1, <1>2, <1>3, <1>4, <1>5, <1>6, <1>7, <1>8

LEMMA VoidNoticeKeeps ==
  ASSUME IInv, NEW t \in Tokens, VoidNotice(t)
  PROVE  IInv'
<1> USE ConstantsAssumption DEF VoidNotice, RefundFromProvider, TakeBack, Refuse, Fault,
      rowVars, grantVars, scanVars, stripeVars, playVars, IInv, Purchases
<1>1. TypeOK'
  <2>1. status[t] # "pending" /\ t \in Purchases
    BY DEF PlayRows, PlayRow
  <2>2. status' \in [Purchases -> {"none", "pending", "paid", "refunded"}] /\ UNCHANGED <<session, payment>>
    BY <2>1 DEF TypeOK
  <2>3. left' \in [Purchases -> 0..Pack] /\ expired' \subseteq Purchases
    BY <2>1 DEF TypeOK
  <2> QED BY <2>1, <2>2, <2>3 DEF TypeOK
<1>2. Attached'
  BY DEF TypeOK, Attached
<1>3. Asking'
  BY DEF TypeOK, Asking, AskingOf
<1>4. OwnSessions'
  BY DEF TypeOK, OwnSessions
<1>5. CardRows'
  BY DEF TypeOK, CardRows, CardRow
<1>6. Heard'
  <2>1. \A o \in Orders : status'[o] = status[o]
    BY DEF PlayRows, PlayRow, TypeOK
  <2> QED BY <2>1, HeardStands
<1>7. PlayRows'
  BY DEF TypeOK, PlayRows, PlayRow
<1>8. Granted'
  BY DEF TypeOK, Granted, GrantOf, Untouched
<1> QED BY <1>1, <1>2, <1>3, <1>4, <1>5, <1>6, <1>7, <1>8

LEMMA DiesKeeps ==
  ASSUME IInv, NEW r \in Requests, Dies(r)
  PROVE  IInv'
<1> USE ConstantsAssumption DEF Dies, Fault, Idle,
      rowVars, grantVars, scanVars, stripeVars, playVars, IInv, Purchases
<1>1. TypeOK'
  BY DEF TypeOK
<1>2. Attached'
  BY DEF TypeOK, Attached
<1>3. Asking'
  BY DEF TypeOK, Asking, AskingOf
<1>4. OwnSessions'
  BY DEF TypeOK, OwnSessions
<1>5. CardRows'
  BY DEF TypeOK, CardRows, CardRow
<1>6. Heard'
  BY DEF TypeOK, Heard, HeardOf
<1>7. PlayRows'
  BY DEF TypeOK, PlayRows, PlayRow
<1>8. Granted'
  BY DEF TypeOK, Granted, GrantOf, Untouched
<1> QED BY <1>1, <1>2, <1>3, <1>4, <1>5, <1>6, <1>7, <1>8

LEMMA SpendScanCreditKeeps ==
  ASSUME IInv, NEW x \in Scans, NEW p \in Purchases, SpendScanCredit(x, p)
  PROVE  IInv'
<1> USE ConstantsAssumption DEF SpendScanCredit, Usable,
      rowVars, grantVars, scanVars, stripeVars, playVars, IInv, Purchases
<1>1. TypeOK'
  BY DEF TypeOK
<1>2. Attached'
  BY DEF TypeOK, Attached
<1>3. Asking'
  BY DEF TypeOK, Asking, AskingOf
<1>4. OwnSessions'
  BY DEF TypeOK, OwnSessions
<1>5. CardRows'
  BY DEF TypeOK, CardRows, CardRow
<1>6. Heard'
  BY DEF TypeOK, Heard, HeardOf
<1>7. PlayRows'
  BY DEF TypeOK, PlayRows, PlayRow
<1>8. Granted'
  BY DEF TypeOK, Granted, GrantOf, Untouched
<1> QED BY <1>1, <1>2, <1>3, <1>4, <1>5, <1>6, <1>7, <1>8

LEMMA RefundScanCreditKeeps ==
  ASSUME IInv, NEW x \in Scans, RefundScanCredit(x)
  PROVE  IInv'
<1> USE ConstantsAssumption DEF RefundScanCredit,
      rowVars, grantVars, scanVars, stripeVars, playVars, IInv, Purchases
<1>1. TypeOK'
  BY DEF TypeOK
<1>2. Attached'
  BY DEF TypeOK, Attached
<1>3. Asking'
  BY DEF TypeOK, Asking, AskingOf
<1>4. OwnSessions'
  BY DEF TypeOK, OwnSessions
<1>5. CardRows'
  BY DEF TypeOK, CardRows, CardRow
<1>6. Heard'
  BY DEF TypeOK, Heard, HeardOf
<1>7. PlayRows'
  BY DEF TypeOK, PlayRows, PlayRow
<1>8. Granted'
  BY DEF TypeOK, Granted, GrantOf, Untouched
<1> QED BY <1>1, <1>2, <1>3, <1>4, <1>5, <1>6, <1>7, <1>8

LEMMA InitIInv == Init => IInv
<1> SUFFICES ASSUME Init PROVE IInv
  OBVIOUS
<1>1. TypeOK
  BY ConstantsAssumption DEF Init, TypeOK, Idle
<1>2. Attached /\ CardRows /\ Heard /\ PlayRows
  BY ConstantsAssumption
  DEF Init, Purchases, Attached, CardRows, CardRow, Heard, HeardOf, PlayRows, PlayRow
<1>3. Asking /\ OwnSessions
  BY DEF Init, Idle, Asking, AskingOf, OwnSessions
<1>4. Granted
  BY ConstantsAssumption DEF Init, Purchases, Granted, GrantOf, Untouched
<1> QED BY <1>1, <1>2, <1>3, <1>4 DEF IInv

LEMMA NextKeepsIInv == IInv /\ [Next]_vars => IInv'
<1> SUFFICES ASSUME IInv, [Next]_vars PROVE IInv'
  OBVIOUS
<1>1. ASSUME NEW s \in Sessions, Webhook(s) PROVE IInv'
  BY <1>1, CompletedWebhookKeeps, UnpaidWebhookKeeps, RefundedWebhookKeeps DEF Webhook
<1>2. ASSUME NEW r \in Requests, Serves(r) PROVE IInv'
  BY <1>2, BeginCheckoutKeeps, CreateCheckoutKeeps, AttachCheckoutSessionKeeps,
     BeginRedeemKeeps, GrantGooglePlayPurchaseKeeps, ConsumeKeeps DEF Serves
<1>3. CASE UNCHANGED vars
  BY <1>3 DEF vars, rowVars, grantVars, scanVars, stripeVars, playVars, IInv, TypeOK, Attached,
     Asking, AskingOf, OwnSessions, CardRows, CardRow, Heard, HeardOf, PlayRows, PlayRow,
     Granted, GrantOf, Untouched
<1> QED
  BY <1>1, <1>2, <1>3, StartCreditPurchaseKeeps, BuyerKeeps, BuysKeeps, BuyClearsKeeps, VoidsKeeps,
     VoidNoticeKeeps, DiesKeeps, SpendScanCreditKeeps, RefundScanCreditKeeps
  DEF Next

\* The invariant holds of every state the server and the processors reach.
THEOREM AlwaysIInv == Spec => []IInv
BY InitIInv, NextKeepsIInv, PTL DEF Spec

\* Every variable keeps its type; with it, no grant holds more than its pack,
\* in whatever order spends, give-backs and refunds arrive.
THEOREM TypeCorrect == Spec => []TypeOK
<1>1. IInv => TypeOK
  BY DEF IInv
<1> QED BY <1>1, AlwaysIInv, PTL

\* However many checkouts are asked for at once, the buyer of an order only
\* ever sees its one session: there is one payment to make.
THEOREM OneCheckout == Spec => []OnePayment
<1>1. IInv => OnePayment
  <2> SUFFICES ASSUME IInv, NEW s \in Sessions, checkout[s].state \in Shown
               PROVE  session[checkout[s].of] = s
    BY DEF OnePayment
  <2>1. checkout[s].state # "none"
    BY DEF Shown, Charged
  <2> QED BY <2>1 DEF IInv, Attached
<1> QED BY <1>1, AlwaysIInv, PTL

\* What has been consumed at Play was granted here first.
THEOREM ConsumedCorrect == Spec => []ConsumedIsGranted
<1>1. IInv => ConsumedIsGranted
  BY DEF IInv, TypeOK, PlayRows, PlayRow, ConsumedIsGranted
<1> QED BY <1>1, AlwaysIInv, PTL

\* Once a refund has been heard nothing of the pack can be spent again.
THEOREM RefundHolds == Spec => []RefundTakesBack
<1>1. IInv => RefundTakesBack
  <2> SUFFICES ASSUME IInv PROVE RefundTakesBack
    OBVIOUS
  <2>1. ASSUME NEW p \in Purchases, status[p] # "paid", status[p] \in {"none", "pending", "refunded"}
        PROVE  Usable(p) = 0
    BY <2>1 DEF IInv, Granted, GrantOf, Untouched, Usable
  <2>2. ASSUME NEW s \in Sessions, checkout[s].state = "refunded", <<"refunded", s>> \notin events
        PROVE  status[checkout[s].of] = "refunded" /\ checkout[s].of \in Purchases
    BY <2>2 DEF IInv, Heard, HeardOf, Attached, Purchases
  <2>3. ASSUME NEW t \in Tokens, play[t] = "voided", t \notin notices \cup stale
        PROVE  status[t] \in {"none", "refunded"} /\ t \in Purchases
    BY <2>3 DEF IInv, PlayRows, PlayRow, Purchases
  <2> QED BY <2>1, <2>2, <2>3 DEF RefundTakesBack
<1> QED BY <1>1, AlwaysIInv, PTL

---------------------------------------------------------------------------
(* Nothing kept for nothing                                                *)

\* A step that leaves paid sessions, their orders and their events alone.
LEMMA OwedStands ==
  ASSUME PaidIsOwed,
         \A s \in Sessions : checkout'[s].state = "paid" =>
           /\ checkout'[s] = checkout[s] /\ status'[checkout[s].of] = status[checkout[s].of]
           /\ <<"completed", s>> \in events => <<"completed", s>> \in events'
  PROVE  PaidIsOwed'
BY DEF PaidIsOwed

\* A session that is paid is its order's only one.
LEMMA PaidSession ==
  ASSUME IInv, NEW s \in Sessions, checkout[s].state \in Shown
  PROVE  /\ checkout[s].of \in Orders /\ status[checkout[s].of] # "none"
         /\ session[checkout[s].of] = s
         /\ \A q \in Sessions : checkout[q].state \in Shown /\ checkout[q].of = checkout[s].of => q = s
BY DEF IInv, Attached, Shown, Charged

LEMMA OwedStep ==
  ASSUME IInv, PaidIsOwed, [Next]_vars PROVE PaidIsOwed'
<1>0. /\ "paid" \in Shown /\ "refunded" \in Shown /\ "open" \in Shown
      /\ Orders \cap Tokens = {} /\ Orders \subseteq Purchases /\ Tokens \subseteq Purchases
      /\ status \in [Purchases -> {"none", "pending", "paid", "refunded"}]
  BY ConstantsAssumption DEF Shown, Charged, Purchases, IInv, TypeOK
<1>1. ASSUME NEW o \in Orders, StartCreditPurchase(o) PROVE PaidIsOwed'
  BY <1>0, <1>1, PaidSession, OwedStands DEF StartCreditPurchase, stripeVars
<1>2. ASSUME NEW s \in Sessions, Buyer(s) PROVE PaidIsOwed'
  <2>1. /\ UNCHANGED status /\ events \subseteq events'
        /\ \A q \in Sessions \ {s} : checkout'[q] = checkout[q]
        /\ checkout'[s].of = checkout[s].of
    BY <1>2 DEF Buyer, Pays, PaysLater, Clears, Refunds, Stripe, rowVars, IInv, TypeOK
  <2>2. CASE Pays(s)
    <3>1. checkout[s].state = "open" /\ <<"completed", s>> \in events'
      BY <2>2 DEF Pays, Stripe
    <3>2. checkout[s].of \in Orders /\ status[checkout[s].of] = "pending"
      BY <1>0, <3>1, PaidSession DEF IInv, CardRows, CardRow
    <3> QED BY <2>1, <3>1, <3>2 DEF PaidIsOwed
  <2>3. CASE PaysLater(s) \/ Clears(s) \/ Refunds(s)
    <3>1. checkout'[s].state # "paid"
      BY <2>3 DEF PaysLater, Clears, Refunds, Stripe, IInv, TypeOK
    <3> QED BY <2>1, <3>1, OwedStands
  <2> QED BY <1>2, <2>2, <2>3 DEF Buyer
<1>3. ASSUME NEW s \in Sessions, CompletedWebhook(s) PROVE PaidIsOwed'
  <2>1. /\ <<"completed", s>> \in events /\ UNCHANGED checkout
        /\ \A f \in events : f # <<"completed", s>> => f \in events'
    BY <1>3, DeliveredOnly DEF CompletedWebhook
  <2>2. checkout[s].state \in {"paid", "refunded"}
    BY <2>1 DEF IInv, Heard, HeardOf
  <2>3. session[checkout[s].of] = s /\ checkout[s].of \in Orders
    BY <1>0, <2>2, PaidSession
  <2>4. /\ \A p \in Purchases : p # checkout[s].of => status'[p] = status[p]
        /\ status[checkout[s].of] = "pending" => status'[checkout[s].of] = "paid"
        /\ status[checkout[s].of] = "paid" => status'[checkout[s].of] = "paid"
    BY <1>0, <1>3, <2>3 DEF CompletedWebhook, FulfilFromProvider, Refuse, rowVars
  <2>5. ASSUME NEW u \in Sessions, checkout[u].state = "paid"
        PROVE  \/ status'[checkout[u].of] = "paid"
               \/ status'[checkout[u].of] = "pending" /\ <<"completed", u>> \in events'
    <3>1. CASE u = s
      BY <2>4, <2>5, <3>1 DEF PaidIsOwed
    <3>2. CASE u # s
      <4>1. checkout[u].of # checkout[s].of /\ checkout[u].of \in Purchases
        BY <1>0, <2>2, <2>5, <3>2, PaidSession
      <4>2. <<"completed", u>> \in events => <<"completed", u>> \in events'
        BY <2>1, <3>2
      <4> QED BY <2>4, <2>5, <4>1, <4>2 DEF PaidIsOwed
    <3> QED BY <3>1, <3>2
  <2> QED BY <2>1, <2>5 DEF PaidIsOwed
<1>4. ASSUME NEW s \in Sessions, UnpaidWebhook(s) PROVE PaidIsOwed'
  <2>1. /\ UNCHANGED <<checkout, status>>
        /\ \A u \in Sessions : <<"completed", u>> \in events => <<"completed", u>> \in events'
    BY <1>4, DeliveredOnly DEF UnpaidWebhook, Refuse, rowVars
  <2> QED BY <2>1, OwedStands
<1>5. ASSUME NEW s \in Sessions, RefundedWebhook(s) PROVE PaidIsOwed'
  <2>1. /\ <<"refunded", s>> \in events /\ UNCHANGED checkout
        /\ \A u \in Sessions : <<"completed", u>> \in events => <<"completed", u>> \in events'
    BY <1>5, DeliveredOnly DEF RefundedWebhook
  <2>2. checkout[s].state = "refunded"
    BY <2>1 DEF IInv, Heard, HeardOf
  <2>3. \A p \in Purchases : p # checkout[s].of => status'[p] = status[p]
    BY <1>0, <1>5 DEF RefundedWebhook, RefundFromProvider, TakeBack, Refuse, rowVars
  <2>4. \A u \in Sessions : checkout[u].state = "paid" => status'[checkout[u].of] = status[checkout[u].of]
    BY <1>0, <2>2, <2>3, PaidSession
  <2> QED BY <2>1, <2>4, OwedStands
<1>6. ASSUME NEW r \in Requests, Serves(r) \/ Dies(r) PROVE PaidIsOwed'
  <2>1. UNCHANGED events /\ \A o \in Orders : status'[o] = status[o]
    BY <1>0, <1>6 DEF Serves, BeginCheckout, CreateCheckout, AttachCheckoutSession, BeginRedeem,
       GrantGooglePlayPurchase, GrantOnce, InsertPaid, Refuse, Consume, Dies, rowVars, stripeVars,
       IInv, Asking, AskingOf
  <2>2. \A s \in Sessions : checkout'[s].state = "paid" => checkout'[s] = checkout[s]
    BY <1>6 DEF Serves, BeginCheckout, CreateCheckout, AttachCheckoutSession, BeginRedeem,
       GrantGooglePlayPurchase, Consume, Dies, stripeVars, IInv, TypeOK, Asking, AskingOf
  <2> QED BY <1>0, <2>1, <2>2, PaidSession, OwedStands
<1>7. ASSUME NEW t \in Tokens, Buys(t) \/ BuyClears(t) \/ Voids(t) PROVE PaidIsOwed'
  BY <1>7, OwedStands DEF Buys, BuyClears, Voids, Play, rowVars, stripeVars
<1>8. ASSUME NEW t \in Tokens, VoidNotice(t) PROVE PaidIsOwed'
  <2>1. UNCHANGED <<checkout, events>> /\ \A o \in Orders : status'[o] = status[o]
    BY <1>0, <1>8 DEF VoidNotice, RefundFromProvider, TakeBack, Refuse, rowVars, stripeVars
  <2> QED BY <1>0, <2>1, PaidSession, OwedStands
<1>9. ASSUME NEW x \in Scans, RefundScanCredit(x) \/ \E p \in Purchases : SpendScanCredit(x, p)
      PROVE  PaidIsOwed'
  BY <1>9, OwedStands DEF RefundScanCredit, SpendScanCredit, stripeVars
<1>10. ASSUME UNCHANGED vars PROVE PaidIsOwed'
  BY <1>10, OwedStands DEF vars, rowVars, stripeVars
<1> QED
  BY <1>1, <1>2, <1>3, <1>4, <1>5, <1>6, <1>7, <1>8, <1>9, <1>10 DEF Next, Webhook

\* A payment made at the checkout has its pack, or the event that brings it is
\* still to be answered: the safety half of PaidIsGranted.
THEOREM PaymentsOwed == Spec => []PaidIsOwed
<1>1. Init => PaidIsOwed
  BY DEF Init, PaidIsOwed
<1>2. IInv /\ PaidIsOwed /\ [Next]_vars => PaidIsOwed'
  BY OwedStep
<1> QED BY <1>1, <1>2, AlwaysIInv, PTL DEF Spec

---------------------------------------------------------------------------
(* Credits are conserved                                                   *)

LEMMA ScannedFinite ==
  ASSUME NEW p PROVE IsFiniteSet(Scanned(p)) /\ Cardinality(Scanned(p)) \in Nat
<1>1. Scanned(p) \subseteq Scans /\ IsFiniteSet(Scans)
  BY ScansAssumption DEF Scanned
<1> QED BY <1>1, FS_Subset, FS_CardinalityType

\* Only a credit that was spent is given back.
ReturnedWasSpent == \A x \in returned : scan[x] # NoRef

LEMMA ReturnedStep ==
  ASSUME TypeOK, ReturnedWasSpent, [Next]_vars PROVE ReturnedWasSpent'
<1>1. ASSUME NEW x \in Scans, RefundScanCredit(x) PROVE ReturnedWasSpent'
  BY <1>1 DEF RefundScanCredit, ReturnedWasSpent
<1>2. ASSUME NEW x \in Scans, NEW p \in Purchases, SpendScanCredit(x, p) PROVE ReturnedWasSpent'
  BY <1>2, ConstantsAssumption DEF SpendScanCredit, ReturnedWasSpent, TypeOK
<1>3. ASSUME UNCHANGED scanVars PROVE ReturnedWasSpent'
  BY <1>3 DEF ReturnedWasSpent, scanVars
<1>4. ASSUME NEW s \in Sessions, Buyer(s) \/ Webhook(s) PROVE UNCHANGED scanVars
  BY <1>4 DEF Buyer, Pays, PaysLater, Clears, Refunds, Stripe, Webhook, CompletedWebhook,
     UnpaidWebhook, RefundedWebhook, Delivered
<1>5. ASSUME NEW t \in Tokens, Buys(t) \/ BuyClears(t) \/ Voids(t) \/ VoidNotice(t) PROVE UNCHANGED scanVars
  BY <1>5 DEF Buys, BuyClears, Voids, Play, VoidNotice
<1>6. ASSUME NEW r \in Requests, Serves(r) \/ Dies(r) PROVE UNCHANGED scanVars
  BY <1>6 DEF Serves, BeginCheckout, CreateCheckout, AttachCheckoutSession, BeginRedeem,
     GrantGooglePlayPurchase, Consume, Dies
<1> QED BY <1>1, <1>2, <1>3, <1>4, <1>5, <1>6 DEF Next, vars, StartCreditPurchase

LEMMA ConservedStep ==
  ASSUME IInv, ReturnedWasSpent, PackConserved, [Next]_vars PROVE PackConserved'
<1>0. /\ status \in [Purchases -> {"none", "pending", "paid", "refunded"}]
      /\ left \in [Purchases -> 0..Pack] /\ Pack \in Nat
      /\ scan \in [Scans -> Purchases \cup {NoRef}]
  BY ConstantsAssumption DEF IInv, TypeOK
\* Where a pack stands as it did, so do its credits.
<1>1. ASSUME UNCHANGED scanVars,
             \A p \in Purchases : status'[p] = "paid" =>
               \/ status[p] = "paid" /\ left'[p] = left[p]
               \/ status[p] \in {"none", "pending"} /\ left'[p] = left[p] + Pack
      PROVE  PackConserved'
  <2> SUFFICES ASSUME NEW p \in Purchases, status'[p] = "paid"
               PROVE  left'[p] + Cardinality(Scanned(p)') = Pack
    BY DEF PackConserved
  <2>1. Scanned(p)' = Scanned(p)
    BY <1>1 DEF Scanned, scanVars
  <2>2. CASE status[p] = "paid" /\ left'[p] = left[p]
    BY <2>1, <2>2 DEF PackConserved
  <2>3. CASE status[p] \in {"none", "pending"} /\ left'[p] = left[p] + Pack
    <3>1. left[p] = 0 /\ Scanned(p) = {}
      BY <2>3 DEF IInv, Granted, GrantOf, Untouched, Scanned
    <3> QED BY <1>0, <2>1, <2>3, <3>1, FS_EmptySet
  <2> QED BY <1>1, <2>2, <2>3
<1>2. ASSUME NEW s \in Sessions, Webhook(s) PROVE PackConserved'
  BY <1>0, <1>1, <1>2 DEF Webhook, CompletedWebhook, UnpaidWebhook, RefundedWebhook, Delivered,
     FulfilFromProvider, RefundFromProvider, TakeBack, Refuse, Grant, rowVars, grantVars
<1>3. ASSUME NEW t \in Tokens, VoidNotice(t) PROVE PackConserved'
  BY <1>0, <1>1, <1>3 DEF VoidNotice, RefundFromProvider, TakeBack, Refuse, rowVars, grantVars
<1>4. ASSUME NEW r \in Requests, Serves(r) \/ Dies(r) PROVE PackConserved'
  <2>1. CASE GrantGooglePlayPurchase(r)
    <3>1. req[r].of \in Purchases
      BY <2>1 DEF GrantGooglePlayPurchase, IInv, Asking, AskingOf, Purchases
    <3> QED BY <1>0, <1>1, <2>1, <3>1 DEF GrantGooglePlayPurchase, GrantOnce, InsertPaid, Grant,
            Refuse, rowVars, grantVars
  <2>2. CASE ~GrantGooglePlayPurchase(r)
    BY <1>1, <1>4, <2>2 DEF Serves, BeginCheckout, CreateCheckout, AttachCheckoutSession, BeginRedeem,
       Consume, Dies, rowVars, grantVars
  <2> QED BY <2>1, <2>2
<1>5. ASSUME NEW o \in Orders, StartCreditPurchase(o) PROVE PackConserved'
  BY <1>0, <1>1, <1>5 DEF StartCreditPurchase, grantVars
<1>6. ASSUME NEW x \in Scans, NEW g \in Purchases, SpendScanCredit(x, g) PROVE PackConserved'
  <2> SUFFICES ASSUME NEW p \in Purchases, status[p] = "paid"
               PROVE  left'[p] + Cardinality(Scanned(p)') = Pack
    BY <1>6 DEF PackConserved, SpendScanCredit
  <2>1. /\ scan[x] = NoRef /\ NoRef \notin Purchases
        /\ UNCHANGED returned /\ left[g] > 0
        /\ \A q \in Purchases : left'[q] = IF q = g THEN left[q] - 1 ELSE left[q]
        /\ \A y \in Scans : scan'[y] = IF y = x THEN g ELSE scan[y]
    BY <1>0, <1>6, ConstantsAssumption DEF SpendScanCredit, Usable
  <2>2. CASE p # g
    <3>1. Scanned(p)' = Scanned(p)
      BY <2>1, <2>2 DEF Scanned
    <3> QED BY <2>1, <2>2, <3>1 DEF PackConserved
  <2>3. CASE p = g
    <3>1. x \notin returned
      BY <2>1 DEF ReturnedWasSpent
    <3>2. Scanned(p)' = Scanned(p) \cup {x} /\ x \notin Scanned(p)
      BY <2>1, <2>3, <3>1 DEF Scanned
    <3>3. Cardinality(Scanned(p)') = Cardinality(Scanned(p)) + 1
      BY <3>2, ScannedFinite, FS_AddElement
    <3> QED BY <1>0, <2>1, <2>3, <3>3, ScannedFinite DEF PackConserved
  <2> QED BY <2>2, <2>3
<1>7. ASSUME NEW x \in Scans, RefundScanCredit(x) PROVE PackConserved'
  <2> SUFFICES ASSUME NEW p \in Purchases, status[p] = "paid"
               PROVE  left'[p] + Cardinality(Scanned(p)') = Pack
    BY <1>7 DEF PackConserved, RefundScanCredit
  <2> DEFINE g == scan[x]
  <2>1. /\ g \in Purchases /\ x \notin returned
        /\ UNCHANGED scan /\ returned' = returned \cup {x}
        /\ \A q \in Purchases : left'[q] = IF q = g /\ left[q] < Pack THEN left[q] + 1 ELSE left[q]
    BY <1>0, <1>7 DEF RefundScanCredit
  <2>2. CASE p # g
    <3>1. Scanned(p)' = Scanned(p)
      BY <2>1, <2>2 DEF Scanned
    <3> QED BY <2>1, <2>2, <3>1 DEF PackConserved
  <2>3. CASE p = g
    <3>1. Scanned(p)' = Scanned(p) \ {x} /\ x \in Scanned(p)
      BY <2>1, <2>3 DEF Scanned
    <3>2. /\ Cardinality(Scanned(p)') = Cardinality(Scanned(p)) - 1
          /\ Cardinality(Scanned(p)') \in Nat /\ Cardinality(Scanned(p)) \in Nat
      BY <3>1, ScannedFinite, FS_RemoveElement, FS_CardinalityType
    <3>3. left[p] < Pack
      BY <1>0, <3>2 DEF PackConserved
    <3> QED BY <1>0, <2>1, <2>3, <3>2, <3>3 DEF PackConserved
  <2> QED BY <2>2, <2>3
<1>8. CASE (\E s \in Sessions : Buyer(s)) \/ (\E t \in Tokens : Buys(t) \/ BuyClears(t) \/ Voids(t))
  BY <1>1, <1>8 DEF Buyer, Pays, PaysLater, Clears, Refunds, Stripe, Buys, BuyClears, Voids, Play,
     rowVars, grantVars
<1>9. CASE UNCHANGED vars
  BY <1>1, <1>9 DEF vars, rowVars, grantVars
<1> QED
  BY <1>2, <1>3, <1>4, <1>5, <1>6, <1>7, <1>8, <1>9 DEF Next

\* A paid pack is spent exactly as often as it has credits.
THEOREM PackCorrect == Spec => []PackConserved
<1>1. Init => PackConserved /\ ReturnedWasSpent
  BY DEF Init, PackConserved, ReturnedWasSpent
<1>2. IInv /\ PackConserved /\ ReturnedWasSpent /\ [Next]_vars => PackConserved' /\ ReturnedWasSpent'
  BY ConservedStep, ReturnedStep DEF IInv
<1> QED BY <1>1, <1>2, AlwaysIInv, PTL DEF Spec

---------------------------------------------------------------------------
(* Every step is a step of PurchasePromise, or none, at one purchase       *)

\* What a step does to one purchase, in the terms of the promise.
Stands(p) == Money(p)' = Money(p) /\ PackOf(p)' = PackOf(p)

Same(p) == Stands(p) /\ Usable(p)' = Usable(p)

Nothing == \A p \in Purchases : Same(p)

Only(p) == \A q \in Purchases : q # p => Same(q)

Charges(p) ==
  /\ Money(p) = "none" /\ Money(p)' = "taken"
  /\ PackOf(p)' = PackOf(p) /\ Usable(p)' = Usable(p)

Returns(p) ==
  /\ Money(p) = "taken" /\ Money(p)' = "returned"
  /\ PackOf(p)' = PackOf(p) /\ Usable(p)' = Usable(p)

Adds(p) ==
  /\ Money(p) # "none" /\ Money(p)' = Money(p)
  /\ PackOf(p) = "none" /\ PackOf(p)' = "added" /\ Usable(p)' = Pack

Withdraws(p) ==
  /\ Money(p) = "returned" /\ Money(p)' = Money(p)
  /\ PackOf(p) # "withdrawn" /\ PackOf(p)' = "withdrawn" /\ Usable(p)' = 0

Spends(p) == Stands(p) /\ Usable(p) > 0 /\ Usable(p)' = Usable(p) - 1

GivesBack(p) ==
  Stands(p) /\ PackOf(p) = "added" /\ Usable(p) < Pack /\ Usable(p)' = Usable(p) + 1

PromiseStep ==
  \/ Nothing
  \/ \E p \in Purchases :
       /\ Only(p)
       /\ Charges(p) \/ Returns(p) \/ Adds(p) \/ Withdraws(p) \/ Spends(p) \/ GivesBack(p)

\* The buyer's money is in the one session the buyer saw.
LEMMA MoneyOfSession ==
  ASSUME IInv, NEW s \in Sessions, checkout[s].state \in Shown
  PROVE  /\ checkout[s].of \in Orders /\ checkout[s].of \in Purchases
         /\ \A q \in Sessions :
              checkout[q].of = checkout[s].of /\ checkout[q].state \in Shown => q = s
         /\ checkout[s].state \in {"paid", "cleared"} => Money(checkout[s].of) = "taken"
         /\ checkout[s].state = "refunded" => Money(checkout[s].of) = "returned"
         /\ checkout[s].state \in {"open", "unpaid"} => Money(checkout[s].of) = "none"
<1>1. checkout[s].of \in Orders /\ checkout[s].of \in Purchases /\ checkout[s].of \notin Tokens
  BY ConstantsAssumption DEF IInv, Attached, Shown, Charged, Purchases
<1>2. \A q \in Sessions :
        checkout[q].of = checkout[s].of /\ checkout[q].state \in Shown => q = s
  BY DEF IInv, Attached, Shown, Charged
<1> QED BY <1>1, <1>2 DEF Money, Shown, Charged

\* Money that stays where it is.
LEMMA MoneyStands ==
  ASSUME NEW p \in Purchases, UNCHANGED <<checkout, play>>
  PROVE  Money(p)' = Money(p)
BY DEF Money

LEMMA BuyerIsStep ==
  ASSUME IInv, NEW s \in Sessions, Buyer(s)
  PROVE  PromiseStep
<1>0. PICK o : o = checkout[s].of
  OBVIOUS
<1>1. PICK from \in {"open", "unpaid", "paid", "cleared"},
           to \in {"paid", "unpaid", "cleared", "refunded"},
           new \in SUBSET {<<"completed", s>>, <<"unpaid", s>>, <<"refunded", s>>} :
        /\ Stripe(s, from, to, new)
        /\ <<from, to>> \in {<<"open", "paid">>, <<"open", "unpaid">>, <<"unpaid", "cleared">>,
                             <<"paid", "refunded">>, <<"cleared", "refunded">>}
  BY DEF Buyer, Pays, PaysLater, Clears, Refunds
<1>2. checkout[s].state = from /\ from \in Shown /\ checkout'[s].state = to /\ checkout'[s].of = o
      /\ \A q \in Sessions : q # s => checkout'[q] = checkout[q]
  BY <1>0, <1>1 DEF Stripe, IInv, TypeOK, Shown, Charged
<1>3. UNCHANGED <<status, left, expired, play>>
  BY <1>1 DEF Stripe, rowVars, grantVars, playVars
<1>4. \A p \in Purchases : PackOf(p)' = PackOf(p) /\ Usable(p)' = Usable(p)
  BY <1>3 DEF PackOf, Usable
<1>5. Only(o)
  <2> SUFFICES ASSUME NEW p \in Purchases, p # o PROVE Money(p)' = Money(p)
    BY <1>4 DEF Only, Same, Stands
  <2> QED BY <1>0, <1>2, <1>3 DEF Money
<1>6. /\ o \in Purchases /\ o \in Orders
      /\ \A q \in Sessions : checkout[q].of = o /\ checkout[q].state \in Shown => q = s
      /\ from \in {"paid", "cleared"} => Money(o) = "taken"
      /\ from \in {"open", "unpaid"} => Money(o) = "none"
  BY <1>0, <1>2, MoneyOfSession
<1>7. /\ to \in {"paid", "cleared"} => Money(o)' = "taken"
      /\ to = "refunded" => Money(o)' = "returned"
      /\ to = "unpaid" => Money(o)' = "none"
  <2>1. \A q \in Sessions : q # s /\ checkout'[q].of = o => checkout'[q].state \notin Shown
    BY <1>2, <1>6
  <2>2. o \notin Tokens
    BY <1>6, ConstantsAssumption DEF Purchases
  <2>3. \A q \in Sessions : q # s /\ checkout'[q].of = o
          => checkout'[q].state \notin {"paid", "cleared", "refunded"}
    BY <2>1 DEF Shown, Charged
  <2> QED BY <1>2, <2>2, <2>3 DEF Money
<1>8. CASE from = "open" /\ to = "unpaid"
  BY <1>4, <1>5, <1>6, <1>7, <1>8 DEF PromiseStep, Nothing, Only, Same, Stands
<1>9. CASE from \in {"open", "unpaid"} /\ to \in {"paid", "cleared"}
  BY <1>4, <1>5, <1>6, <1>7, <1>9 DEF PromiseStep, Charges
<1>10. CASE from \in {"paid", "cleared"} /\ to = "refunded"
  BY <1>4, <1>5, <1>6, <1>7, <1>10 DEF PromiseStep, Returns
<1> QED BY <1>1, <1>8, <1>9, <1>10

\* A session that is made, or shown, holds no money yet.
LEMMA CheckoutIsStep ==
  ASSUME IInv, NEW r \in Requests,
         (\E s \in Sessions : CreateCheckout(r, s)) \/ AttachCheckoutSession(r)
  PROVE  PromiseStep
<1>1. UNCHANGED <<status, left, expired, play>>
  BY DEF CreateCheckout, AttachCheckoutSession, rowVars, grantVars, playVars
<1>2. \A s \in Sessions :
        \/ checkout'[s] = checkout[s]
        \/ /\ checkout[s].state \notin {"paid", "cleared", "refunded"}
           /\ checkout'[s].state \notin {"paid", "cleared", "refunded"}
  BY DEF CreateCheckout, AttachCheckoutSession, IInv, TypeOK, Asking, AskingOf
<1>3. \A p \in Purchases : Money(p)' = Money(p)
  <2> SUFFICES ASSUME NEW p \in Purchases PROVE Money(p)' = Money(p)
    OBVIOUS
  <2>1. \A q \in Sessions, z \in {"paid", "cleared", "refunded"} :
          checkout[q].of = p /\ checkout[q].state = z
          <=> checkout'[q].of = p /\ checkout'[q].state = z
    BY <1>2
  <2> QED BY <1>1, <2>1 DEF Money
<1> QED BY <1>1, <1>3 DEF PromiseStep, Nothing, Same, Stands, PackOf, Usable

LEMMA WebhookIsStep ==
  ASSUME IInv, NEW s \in Sessions, Webhook(s)
  PROVE  PromiseStep
<1>0. PICK o : o = checkout[s].of
  OBVIOUS
<1>1. UNCHANGED <<checkout, play>>
  BY DeliveredOnly DEF Webhook, CompletedWebhook, UnpaidWebhook, RefundedWebhook, playVars
<1>2. \A p \in Purchases : Money(p)' = Money(p)
  BY <1>1, MoneyStands
<1>3. CASE Refuse
  BY <1>2, <1>3 DEF Refuse, rowVars, grantVars, PromiseStep, Nothing, Same, Stands, PackOf, Usable
<1>4. CASE CompletedWebhook(s) /\ ~Refuse
  <2>1. checkout[s].state \in {"paid", "refunded"} /\ checkout[s].state \in Shown
    BY <1>4, DeliveredOnly DEF CompletedWebhook, IInv, Heard, HeardOf, Shown, Charged
  <2>2. o \in Purchases /\ Money(o) # "none"
    BY <1>0, <2>1, MoneyOfSession
  <2>3. /\ status[o] = "pending"
        /\ status' = [status EXCEPT ![o] = "paid"]
        /\ left' = [left EXCEPT ![o] = @ + Pack] /\ expired' = expired
    BY <1>0, <1>4 DEF CompletedWebhook, FulfilFromProvider, Grant
  <2>4. left[o] = 0 /\ o \notin expired
    BY <2>2, <2>3 DEF IInv, Granted, GrantOf, Untouched
  <2>5. Only(o)
    BY <1>2, <2>2, <2>3 DEF IInv, TypeOK, Only, Same, Stands, PackOf, Usable
  <2>6. status'[o] = "paid" /\ left'[o] = Pack
    BY <2>2, <2>3, <2>4, ConstantsAssumption DEF IInv, TypeOK
  <2>7. PackOf(o) = "none" /\ PackOf(o)' = "added" /\ Usable(o)' = Pack
    BY <2>3, <2>4, <2>6 DEF PackOf, Usable
  <2>8. Adds(o)
    BY <1>2, <2>2, <2>7 DEF Adds
  <2> QED BY <2>2, <2>5, <2>8 DEF PromiseStep
<1>5. CASE RefundedWebhook(s) /\ ~Refuse
  <2>1. checkout[s].state = "refunded" /\ checkout[s].state \in Shown
    BY <1>5, DeliveredOnly DEF RefundedWebhook, IInv, Heard, HeardOf, Shown, Charged
  <2>2. o \in Purchases /\ Money(o) = "returned"
    BY <1>0, <2>1, MoneyOfSession
  <2>3. /\ status[o] \in {"pending", "paid"}
        /\ status' = [status EXCEPT ![o] = "refunded"]
        /\ \/ status[o] = "pending" /\ left' = left /\ expired' = expired
           \/ left' = [left EXCEPT ![o] = 0] /\ expired' = expired \cup {o}
    BY <1>0, <1>5 DEF RefundedWebhook, RefundFromProvider, TakeBack, grantVars
  <2>4. status[o] = "pending" => left[o] = 0 /\ o \notin expired
    BY <2>2 DEF IInv, Granted, GrantOf, Untouched
  <2>5. Only(o)
    BY <1>2, <2>2, <2>3 DEF IInv, TypeOK, Only, Same, Stands, PackOf, Usable
  <2>6. status'[o] = "refunded" /\ (o \in expired' \/ left'[o] = 0)
    BY <2>2, <2>3, <2>4 DEF IInv, TypeOK
  <2>7. PackOf(o) # "withdrawn" /\ PackOf(o)' = "withdrawn" /\ Usable(o)' = 0
    BY <2>3, <2>6 DEF PackOf, Usable
  <2>8. Withdraws(o)
    BY <1>2, <2>2, <2>7 DEF Withdraws
  <2> QED BY <2>2, <2>5, <2>8 DEF PromiseStep
<1> QED BY <1>3, <1>4, <1>5 DEF Webhook, UnpaidWebhook

\* What Play does to a purchase: it is bought, or voided.
LEMMA PlayIsStep ==
  ASSUME IInv, NEW t \in Tokens, Buys(t) \/ BuyClears(t) \/ Voids(t)
  PROVE  PromiseStep
<1>1. PICK from, to :
        /\ Play(t, from, to)
        /\ <<from, to>> \in {<<"none", "pending">>, <<"none", "purchased">>,
                             <<"pending", "purchased">>, <<"purchased", "voided">>}
  BY DEF Buys, BuyClears, Voids
<1>2. /\ play[t] = from /\ play'[t] = to /\ t \in Purchases
      /\ \A p \in Tokens : p # t => play'[p] = play[p]
      /\ UNCHANGED <<checkout, status, left, expired>>
  BY <1>1 DEF Play, rowVars, grantVars, stripeVars, IInv, TypeOK, Purchases
<1>3. \A p \in Purchases : PackOf(p)' = PackOf(p) /\ Usable(p)' = Usable(p)
  BY <1>2 DEF PackOf, Usable
<1>4. Only(t)
  BY <1>2, <1>3 DEF Only, Same, Stands, Money
<1>5. /\ from \in {"none", "pending"} => Money(t) = "none"
      /\ from = "purchased" => Money(t) = "taken"
  BY <1>2 DEF Money
<1>6. /\ to = "pending" => Money(t)' = "none"
      /\ to = "purchased" => Money(t)' = "taken"
      /\ to = "voided" => Money(t)' = "returned"
  BY <1>2 DEF Money
<1>7. CASE to = "pending"
  BY <1>1, <1>3, <1>4, <1>5, <1>6, <1>7 DEF PromiseStep, Nothing, Only, Same, Stands
<1>8. CASE to = "purchased"
  BY <1>1, <1>2, <1>3, <1>4, <1>5, <1>6, <1>8 DEF PromiseStep, Charges
<1>9. CASE to = "voided"
  BY <1>1, <1>2, <1>3, <1>4, <1>5, <1>6, <1>9 DEF PromiseStep, Returns
<1> QED BY <1>1, <1>7, <1>8, <1>9

LEMMA GrantIsStep ==
  ASSUME IInv, NEW r \in Requests, GrantGooglePlayPurchase(r)
  PROVE  PromiseStep
<1>0. PICK t : t = req[r].of
  OBVIOUS
<1>1. UNCHANGED <<checkout, play>> /\ GrantOnce(t)
  BY <1>0 DEF GrantGooglePlayPurchase, stripeVars, playVars
<1>2. \A p \in Purchases : Money(p)' = Money(p)
  BY <1>1, MoneyStands
<1>3. t \in Tokens /\ t \in Purchases /\ play[t] \in {"purchased", "voided"}
  BY <1>0 DEF GrantGooglePlayPurchase, IInv, Asking, AskingOf, Purchases
<1>4. CASE Refuse
  BY <1>2, <1>4 DEF Refuse, rowVars, grantVars, PromiseStep, Nothing, Same, Stands, PackOf, Usable
<1>5. CASE status[t] = "none"
  <2>1. /\ status' = [status EXCEPT ![t] = "paid"]
        /\ left' = [left EXCEPT ![t] = @ + Pack] /\ expired' = expired
    BY <1>1, <1>5 DEF GrantOnce, InsertPaid, Grant
  <2>2. left[t] = 0 /\ t \notin expired
    BY <1>3, <1>5 DEF IInv, Granted, GrantOf, Untouched
  <2>3. Money(t) # "none"
    BY <1>3 DEF Money
  <2>4. Only(t)
    BY <1>2, <1>3, <2>1 DEF IInv, TypeOK, Only, Same, Stands, PackOf, Usable
  <2>5. status'[t] = "paid" /\ left'[t] = Pack
    BY <1>3, <2>1, <2>2, ConstantsAssumption DEF IInv, TypeOK
  <2>6. PackOf(t) = "none" /\ PackOf(t)' = "added" /\ Usable(t)' = Pack
    BY <1>5, <2>1, <2>2, <2>5 DEF PackOf, Usable
  <2>7. Adds(t)
    BY <1>2, <1>3, <2>3, <2>6 DEF Adds
  <2> QED BY <1>3, <2>4, <2>7 DEF PromiseStep
<1> QED BY <1>1, <1>4, <1>5 DEF GrantOnce

LEMMA VoidNoticeIsStep ==
  ASSUME IInv, NEW t \in Tokens, VoidNotice(t)
  PROVE  PromiseStep
<1>1. t \in Purchases /\ play[t] = "voided" /\ status[t] \in {"none", "paid", "refunded"}
  BY DEF VoidNotice, IInv, PlayRows, PlayRow, Purchases
<1>2. \A p \in Purchases : Money(p)' = Money(p)
  BY MoneyStands DEF VoidNotice, stripeVars
<1>3. CASE Refuse
  BY <1>2, <1>3 DEF Refuse, rowVars, grantVars, PromiseStep, Nothing, Same, Stands, PackOf, Usable
<1>4. CASE status[t] = "paid" /\ TakeBack(t)
  <2>1. Only(t)
    BY <1>1, <1>2, <1>4 DEF TakeBack, IInv, TypeOK, Only, Same, Stands, PackOf, Usable
  <2>2. Withdraws(t)
    BY <1>1, <1>2, <1>4 DEF TakeBack, IInv, TypeOK, Withdraws, Money, PackOf, Usable
  <2> QED BY <1>1, <2>1, <2>2 DEF PromiseStep
<1> QED BY <1>1, <1>3, <1>4 DEF VoidNotice, RefundFromProvider

LEMMA SpendIsStep ==
  ASSUME IInv, NEW x \in Scans, NEW p \in Purchases, SpendScanCredit(x, p)
  PROVE  PromiseStep
<1>1. Usable(p) > 0 /\ left' = [left EXCEPT ![p] = @ - 1] /\ UNCHANGED <<status, expired, checkout, play>>
  BY DEF SpendScanCredit, stripeVars, playVars
<1>2. \A q \in Purchases : Stands(q)
  BY <1>1, MoneyStands DEF Stands, PackOf
<1>3. Only(p)
  BY <1>1, <1>2 DEF IInv, TypeOK, Only, Same, Usable
<1>4. Spends(p)
  BY <1>1, <1>2 DEF IInv, TypeOK, Spends, Usable
<1> QED BY <1>3, <1>4 DEF PromiseStep

\* A credit goes back to a live grant that is not full; otherwise nothing
\* that can be spent changes.
LEMMA GiveBackIsStep ==
  ASSUME IInv, NEW x \in Scans, RefundScanCredit(x)
  PROVE  PromiseStep
<1>0. PICK p : p = scan[x]
  OBVIOUS
<1>1. /\ p \in Purchases /\ left' = [left EXCEPT ![p] = IF @ < Pack THEN @ + 1 ELSE @]
      /\ UNCHANGED <<status, expired, checkout, play>>
      /\ \E y \in Scans : scan[y] = p
  BY <1>0, ConstantsAssumption DEF RefundScanCredit, stripeVars, playVars, IInv, TypeOK
<1>2. \A q \in Purchases : Stands(q)
  BY <1>1, MoneyStands DEF Stands, PackOf
<1>3. Only(p)
  BY <1>1, <1>2 DEF IInv, TypeOK, Only, Same, Usable
<1>4. CASE p \in expired \/ ~(left[p] < Pack)
  <2>1. p \in expired \/ left'[p] = left[p]
    BY <1>1, <1>4 DEF IInv, TypeOK
  <2>2. Stands(p)
    BY <1>1, <1>2
  <2>3. Same(p)
    BY <1>1, <2>1, <2>2 DEF Same, Usable
  <2> QED BY <1>3, <2>3 DEF PromiseStep, Nothing, Only
<1>5. CASE p \notin expired /\ left[p] < Pack
  <2>1. status[p] = "paid"
    BY <1>1, <1>5 DEF IInv, TypeOK, Granted, GrantOf, Untouched
  <2>2. left'[p] = left[p] + 1 /\ left[p] < Pack /\ Stands(p)
    BY <1>1, <1>2, <1>5 DEF IInv, TypeOK
  <2>3. GivesBack(p)
    BY <1>1, <1>5, <2>1, <2>2 DEF GivesBack, PackOf, Usable
  <2> QED BY <1>1, <1>3, <2>3 DEF PromiseStep
<1> QED BY <1>4, <1>5

LEMMA StepIsPromiseStep ==
  ASSUME IInv, [Next]_vars
  PROVE  PromiseStep
<1>1. ASSUME NEW o \in Orders, StartCreditPurchase(o) PROVE PromiseStep
  <2>1. \A p \in Purchases : Money(p)' = Money(p) /\ Usable(p)' = Usable(p)
    BY <1>1, MoneyStands DEF StartCreditPurchase, stripeVars, playVars, grantVars, Usable
  <2>2. \A p \in Purchases : PackOf(p)' = PackOf(p)
    BY <1>1 DEF StartCreditPurchase, IInv, TypeOK, Purchases, PackOf
  <2> QED BY <2>1, <2>2 DEF PromiseStep, Nothing, Same, Stands
<1>2. ASSUME UNCHANGED <<rowVars, stripeVars, play>> PROVE PromiseStep
  BY <1>2, MoneyStands
  DEF rowVars, grantVars, stripeVars, PromiseStep, Nothing, Same, Stands, PackOf, Usable
<1>3. ASSUME NEW r \in Requests, Serves(r) \/ Dies(r) PROVE PromiseStep
  BY <1>2, <1>3, CheckoutIsStep, GrantIsStep DEF Serves, Dies, BeginCheckout, BeginRedeem, Consume, playVars
<1>4. CASE UNCHANGED vars
  BY <1>2, <1>4 DEF vars, playVars
<1> QED
  BY <1>1, <1>3, <1>4, BuyerIsStep, WebhookIsStep, PlayIsStep, VoidNoticeIsStep, SpendIsStep, GiveBackIsStep
  DEF Next

\* Whatever is delivered late, twice or out of order, a pack is added once and
\* for money that was taken, and withdrawn once and for money returned.
THEOREM PromiseKept == Spec => KeepsPurchasePromise
<1> DEFINE money == [p \in Purchases |-> Money(p)]
           pack == [p \in Purchases |-> PackOf(p)]
           usable == [p \in Purchases |-> Usable(p)]
<1>1. Init => Promise!Init
  <2> SUFFICES ASSUME Init PROVE Promise!Init
    OBVIOUS
  <2> QED BY DEF Init, Promise!Init, Money, PackOf, Usable, Purchases
<1>2. IInv /\ [Next]_vars => [Promise!Next]_(Promise!promiseVars)
  <2> SUFFICES ASSUME IInv, [Next]_vars PROVE [Promise!Next]_(Promise!promiseVars)
    OBVIOUS
  <2>1. CASE Nothing
    <3>1. money' = money /\ pack' = pack /\ usable' = usable
      BY <2>1 DEF Nothing, Same, Stands
    <3> QED BY <3>1 DEF Promise!promiseVars
  <2>2. ASSUME NEW p \in Purchases, Only(p),
               Charges(p) \/ Returns(p) \/ Adds(p) \/ Withdraws(p) \/ Spends(p) \/ GivesBack(p)
        PROVE  Promise!Next
    <3>1. /\ money' = [money EXCEPT ![p] = Money(p)']
          /\ pack' = [pack EXCEPT ![p] = PackOf(p)']
          /\ usable' = [usable EXCEPT ![p] = Usable(p)']
      BY <2>2 DEF Only, Same, Stands
    <3>2. money[p] = Money(p) /\ pack[p] = PackOf(p) /\ usable[p] = Usable(p)
      BY <2>2
    <3>3. /\ Money(p)' = Money(p) => money' = money
          /\ PackOf(p)' = PackOf(p) => pack' = pack
          /\ Usable(p)' = Usable(p) => usable' = usable
      BY <3>1
    <3>4. CASE Charges(p)
      BY <3>1, <3>2, <3>3, <3>4 DEF Charges, Promise!Next, Promise!Charge
    <3>5. CASE Returns(p)
      BY <3>1, <3>2, <3>3, <3>5 DEF Returns, Promise!Next, Promise!Return
    <3>6. CASE Adds(p)
      BY <3>1, <3>2, <3>3, <3>6 DEF Adds, Promise!Next, Promise!Add
    <3>7. CASE Withdraws(p)
      BY <3>1, <3>2, <3>3, <3>7 DEF Withdraws, Promise!Next, Promise!Withdraw
    <3>8. CASE Spends(p)
      BY <3>1, <3>2, <3>3, <3>8 DEF Spends, Stands, Promise!Next, Promise!Spend
    <3>9. CASE GivesBack(p)
      BY <3>1, <3>2, <3>3, <3>9 DEF GivesBack, Stands, Promise!Next, Promise!GiveBack
    <3> QED BY <2>2, <3>4, <3>5, <3>6, <3>7, <3>8, <3>9
  <2> QED BY <2>1, <2>2, StepIsPromiseStep DEF PromiseStep
<1> QED BY <1>1, <1>2, AlwaysIInv, PTL DEF Spec, KeepsPurchasePromise, Promise!Spec

=============================================================================
