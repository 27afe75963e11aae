---------------------------- MODULE CreditPurchases ----------------------------
(***************************************************************************)
(* Scan credits bought with money: a card order paid through a Stripe      *)
(* checkout session and settled by Stripe's webhooks, and a Google Play    *)
(* purchase redeemed by its token and taken back on Play's notice.         *)
(*                                                                         *)
(* A webhook, the grant of a redemption and a spend are one database       *)
(* transaction each, under the lock of the row they touch; a checkout and  *)
(* a redemption call the processor before and after theirs, and may stop   *)
(* between any two steps.  Events are delivered in any order, again after  *)
(* an answer that is lost, until one is answered.                          *)
(*                                                                         *)
(* Stripe and Play are external: they are modelled by what this code reads *)
(* of them.  Events and purchases the code only logs (a partial refund, a  *)
(* wrong product, a test card) change nothing and are left out.            *)
(***************************************************************************)
EXTENDS Naturals, FiniteSets

CONSTANTS
  Orders,     \* card orders: rows of credit_purchases
  Sessions,   \* Stripe checkout sessions, each with one payment
  Tokens,     \* Play purchase tokens, and the rows made for them
  Requests,   \* API requests: a checkout or a redemption
  Scans,
  Pack,       \* credits in a pack
  NoRef,
  MaxFaults   \* bound: lost answers, failed calls and dead requests

Purchases == Orders \cup Tokens

ASSUME ConstantsAssumption ==
  /\ Orders \cap Tokens = {} /\ Sessions \cap Tokens = {}
  /\ NoRef \notin Purchases \cup Sessions
  /\ Pack \in Nat \ {0} /\ MaxFaults \in Nat

\* Scans are counted.
ASSUME ScansAssumption == IsFiniteSet(Scans)

VARIABLES
  status, session, payment,   \* the row: status, provider_ref and payment_ref
  left, expired,              \* its grant: remaining, and whether expires_at has passed
  scan, returned,             \* whose credit a scan spent, and the scans given theirs back
  checkout, events,           \* Stripe: the sessions, and the events not yet answered
  play, consumed, notices,    \* Play: purchases, those consumed, void notices not yet answered
  req,                        \* a request: its next step, and what it read
  stale,                      \* history: granted after their void notice was answered
  faults

grantVars == <<left, expired>>
rowVars == <<status, session, payment, grantVars>>
scanVars == <<scan, returned>>
stripeVars == <<checkout, events>>
playVars == <<play, consumed, notices>>
vars == <<rowVars, scanVars, stripeVars, playVars, req, stale, faults>>

---------------------------------------------------------------------------

\* A session is made, then shown to the buyer ("open"); paid at once, or
\* completed unpaid and cleared later; and refunded.
Charged == {"paid", "cleared", "refunded"}
Shown == {"open", "unpaid"} \cup Charged

Idle == [step |-> "idle", of |-> NoRef, ref |-> NoRef]

TypeOK ==
  /\ status \in [Purchases -> {"none", "pending", "paid", "refunded"}]
  /\ session \in [Orders -> Sessions \cup {NoRef}]
  /\ payment \in [Purchases -> Sessions \cup Tokens \cup {NoRef}]
  /\ left \in [Purchases -> 0..Pack]
  /\ expired \subseteq Purchases
  /\ scan \in [Scans -> Purchases \cup {NoRef}]
  /\ returned \subseteq Scans
  /\ checkout \in [Sessions -> [of : Orders \cup {NoRef}, state : {"none", "made"} \cup Shown]]
  /\ events \subseteq {"completed", "unpaid", "refunded"} \X Sessions
  /\ play \in [Tokens -> {"none", "pending", "purchased", "voided"}]
  /\ consumed \subseteq Tokens
  /\ notices \subseteq Tokens
  /\ req \in [Requests -> [step : {"idle", "create", "attach", "grant", "consume"},
                           of : Purchases \cup {NoRef}, ref : Sessions \cup {NoRef}]]
  /\ stale \subseteq Tokens
  /\ faults \in 0..MaxFaults

Init ==
  /\ status = [p \in Purchases |-> "none"]
  /\ session = [o \in Orders |-> NoRef]
  /\ payment = [p \in Purchases |-> NoRef]
  /\ left = [p \in Purchases |-> 0]
  /\ expired = {}
  /\ scan = [x \in Scans |-> NoRef]
  /\ returned = {}
  /\ checkout = [s \in Sessions |-> [of |-> NoRef, state |-> "none"]]
  /\ events = {}
  /\ play = [t \in Tokens |-> "none"]
  /\ consumed = {} /\ notices = {}
  /\ req = [r \in Requests |-> Idle]
  /\ stale = {}
  /\ faults = 0

Fault == faults < MaxFaults /\ faults' = faults + 1

Usable(p) == IF p \in expired THEN 0 ELSE left[p]

---------------------------------------------------------------------------
(* The purchase and its grant, in one transaction                          *)

Refuse == UNCHANGED rowVars

\* The usage_grants row.
Grant(p) == left' = [left EXCEPT ![p] = @ + Pack] /\ UNCHANGED expired

\* Variant: a purchase that is already paid is granted again.
FulfilsAgain(o, s) ==
  /\ status[o] # "none"
  /\ status' = [status EXCEPT ![o] = "paid"]
  /\ session' = [session EXCEPT ![o] = s]
  /\ payment' = [payment EXCEPT ![o] = s]
  /\ Grant(o)

\* fulfilCreditPurchaseFromProvider: a payment through a session other than
\* the order's own, and an order that is not pending, get nothing.
FulfilFromProvider(o, s) ==
  IF status[o] = "pending" /\ session[o] \in {NoRef, s}
  THEN /\ status' = [status EXCEPT ![o] = "paid"]
       /\ session' = [session EXCEPT ![o] = s]
       /\ payment' = [payment EXCEPT ![o] = s]
       /\ Grant(o)
  ELSE Refuse

TakeBack(p) ==
  /\ status' = [status EXCEPT ![p] = "refunded"]
  /\ left' = [left EXCEPT ![p] = 0]
  /\ expired' = expired \cup {p}
  /\ UNCHANGED <<session, payment>>

\* Variant: a refund that overtakes the completion is not recorded.
RefundsPaidOnly(p, ref) ==
  IF status[p] = "paid" /\ payment[p] = ref THEN TakeBack(p) ELSE Refuse

\* refundCreditPurchaseFromProvider: a pending purchase is closed, a paid one
\* loses what is left if this is the payment that settled it.
RefundFromProvider(p, ref) ==
  CASE status[p] = "pending" ->
         /\ status' = [status EXCEPT ![p] = "refunded"]
         /\ payment' = [payment EXCEPT ![p] = ref]
         /\ UNCHANGED <<session, grantVars>>
    [] status[p] = "paid" /\ payment[p] = ref -> TakeBack(p)
    [] OTHER -> Refuse

StartCreditPurchase(o) ==
  /\ status[o] = "none"
  /\ status' = [status EXCEPT ![o] = "pending"]
  /\ UNCHANGED <<session, payment, grantVars, scanVars, stripeVars, playVars, req, stale, faults>>

---------------------------------------------------------------------------
(* Checkout: read the order, open a session at Stripe, attach it, show it  *)

Begin(r, step, p) ==
  /\ req[r] = Idle
  /\ req' = [req EXCEPT ![r] = [Idle EXCEPT !.step = step, !.of = p]]

BeginCheckout(r, o) ==
  /\ status[o] = "pending"
  /\ Begin(r, "create", o)
  /\ UNCHANGED <<rowVars, scanVars, stripeVars, playVars, stale, faults>>

CreateCheckout(r, s) ==
  /\ req[r].step = "create"
  /\ checkout[s].state = "none"
  /\ checkout' = [checkout EXCEPT ![s] = [of |-> req[r].of, state |-> "made"]]
  /\ req' = [req EXCEPT ![r].step = "attach", ![r].ref = s]
  /\ UNCHANGED <<rowVars, scanVars, events, playVars, stale, faults>>

\* Variant: no "and provider_ref is null".
AttachesAny(o, s) == status[o] = "pending"

\* The update's predicate.
MayAttach(o, s) == status[o] = "pending" /\ session[o] = NoRef

\* attachCheckoutSession: one session per order, shown once it is the order's.
\* The answer that shows it may be lost.
AttachCheckoutSession(r) ==
  LET o == req[r].of  s == req[r].ref IN
  /\ req[r].step = "attach"
  /\ req' = [req EXCEPT ![r] = Idle]
  /\ IF MayAttach(o, s)
     THEN /\ session' = [session EXCEPT ![o] = s]
          /\ \/ checkout' = [checkout EXCEPT ![s].state = "open"] /\ UNCHANGED faults
             \/ Fault /\ UNCHANGED checkout
     ELSE UNCHANGED <<session, checkout, faults>>
  /\ UNCHANGED <<status, payment, grantVars, scanVars, events, playVars, stale>>

---------------------------------------------------------------------------
(* Stripe                                                                  *)

\* From the state of a session to another, with an event for the webhook.
Stripe(s, from, to, new) ==
  /\ checkout[s].state = from
  /\ checkout' = [checkout EXCEPT ![s].state = to]
  /\ events' = events \cup new
  /\ UNCHANGED <<rowVars, scanVars, playVars, req, stale, faults>>

Pays(s) == Stripe(s, "open", "paid", {<<"completed", s>>})

\* A direct debit completes the session before the money has moved; nothing
\* is listened for when it has.
PaysLater(s) == Stripe(s, "open", "unpaid", {<<"unpaid", s>>})
Clears(s) == Stripe(s, "unpaid", "cleared", {})

Refunds(s) == \E from \in {"paid", "cleared"} : Stripe(s, from, "refunded", {<<"refunded", s>>})

\* Delivered until it is answered, and again when the answer is lost.
Delivered(e) ==
  /\ e \in events
  /\ \/ events' = events \ {e} /\ UNCHANGED faults
     \/ Fault /\ UNCHANGED events
  /\ UNCHANGED <<scanVars, checkout, playVars, req, stale>>

\* Variant: a failure of the database is answered 200.
CompletedSwallowed(s) ==
  Delivered(<<"completed", s>>) /\ (FulfilFromProvider(checkout[s].of, s) \/ Refuse)

CompletedWebhook(s) == Delivered(<<"completed", s>>) /\ FulfilFromProvider(checkout[s].of, s)

\* Variant: payment_status is not looked at.
UnpaidGrants(s) == Delivered(<<"unpaid", s>>) /\ FulfilFromProvider(checkout[s].of, s)

UnpaidWebhook(s) == Delivered(<<"unpaid", s>>) /\ Refuse

RefundedWebhook(s) == Delivered(<<"refunded", s>>) /\ RefundFromProvider(checkout[s].of, s)

---------------------------------------------------------------------------
(* Google Play                                                             *)

Play(t, from, to) ==
  /\ play[t] = from
  /\ play' = [play EXCEPT ![t] = to]
  /\ UNCHANGED <<rowVars, scanVars, stripeVars, consumed, req, stale, faults>>

Buys(t) == \E to \in {"pending", "purchased"} : Play(t, "none", to) /\ UNCHANGED notices
BuyClears(t) == Play(t, "pending", "purchased") /\ UNCHANGED notices

\* A refund, a chargeback, or three days without the purchase being consumed.
Voids(t) == Play(t, "purchased", "voided") /\ notices' = notices \cup {t}
PlayGivesUp(t) == t \notin consumed /\ Voids(t)

\* redeem asks Play about the token and goes on only when it is purchased.
BeginRedeem(r, t) ==
  /\ play[t] = "purchased"
  /\ Begin(r, "grant", t)
  /\ UNCHANGED <<rowVars, scanVars, stripeVars, playVars, stale, faults>>

\* The row and its grant.  As a variant of GrantOnce: an insert that does not
\* meet the unique index.
InsertPaid(t) ==
  /\ status' = [status EXCEPT ![t] = "paid"]
  /\ payment' = [payment EXCEPT ![t] = t]
  /\ Grant(t) /\ UNCHANGED session

\* grantGooglePlayPurchase: ON CONFLICT DO NOTHING.
GrantOnce(t) == IF status[t] = "none" THEN InsertPaid(t) ELSE Refuse

\* A purchase that is paid is consumed afterwards.
GrantGooglePlayPurchase(r) ==
  LET t == req[r].of IN
  /\ req[r].step = "grant"
  /\ GrantOnce(t)
  /\ req' = [req EXCEPT ![r] = IF status'[t] = "paid" THEN [@ EXCEPT !.step = "consume"] ELSE Idle]
  /\ stale' = IF status[t] = "none" /\ play[t] = "voided" /\ t \notin notices
              THEN stale \cup {t} ELSE stale
  /\ UNCHANGED <<scanVars, stripeVars, playVars, faults>>

\* Variant: consumed as soon as Play has answered.
ConsumesFirst(r) == req[r].step \in {"grant", "consume"}

MayConsume(r) == req[r].step = "consume"

\* A purchase voided meanwhile cannot be consumed, which is only logged.
Consume(r) ==
  /\ MayConsume(r)
  /\ consumed' = IF play[req[r].of] = "purchased" THEN consumed \cup {req[r].of} ELSE consumed
  /\ req' = [req EXCEPT ![r] = IF @.step = "consume" THEN Idle ELSE @]
  /\ UNCHANGED <<rowVars, scanVars, stripeVars, play, notices, stale, faults>>

\* A void notice, which Play confirms: the purchase it finds is taken back.
VoidNotice(t) ==
  /\ t \in notices
  /\ \/ notices' = notices \ {t} /\ UNCHANGED faults
     \/ Fault /\ UNCHANGED notices
  /\ RefundFromProvider(t, payment[t])
  /\ UNCHANGED <<scanVars, stripeVars, play, consumed, req, stale>>

\* A request stops: a call fails or runs out of time, or the server dies.
Dies(r) ==
  /\ req[r] # Idle /\ Fault
  /\ req' = [req EXCEPT ![r] = Idle]
  /\ UNCHANGED <<rowVars, scanVars, stripeVars, playVars, stale>>

---------------------------------------------------------------------------
(* Scans                                                                   *)

\* spendScanCredit: from a grant with credit left that has not expired.  The
\* code takes them in an order that no property here depends on.
SpendScanCredit(x, p) ==
  /\ scan[x] = NoRef
  /\ Usable(p) > 0
  /\ left' = [left EXCEPT ![p] = @ - 1]
  /\ scan' = [scan EXCEPT ![x] = p]
  /\ UNCHANGED <<status, session, payment, expired, returned, stripeVars, playVars, req, stale, faults>>

\* refundScanCredit: to the grant it came from, whatever became of that.
RefundScanCredit(x) ==
  /\ scan[x] # NoRef /\ x \notin returned
  /\ left' = [left EXCEPT ![scan[x]] = IF @ < Pack THEN @ + 1 ELSE @]
  /\ returned' = returned \cup {x}
  /\ UNCHANGED <<status, session, payment, expired, scan, stripeVars, playVars, req, stale, faults>>

---------------------------------------------------------------------------

Webhook(s) == CompletedWebhook(s) \/ UnpaidWebhook(s) \/ RefundedWebhook(s)

Buyer(s) == Pays(s) \/ PaysLater(s) \/ Clears(s) \/ Refunds(s)

Serves(r) ==
  \/ \E o \in Orders : BeginCheckout(r, o)
  \/ \E s \in Sessions : CreateCheckout(r, s)
  \/ AttachCheckoutSession(r)
  \/ \E t \in Tokens : BeginRedeem(r, t)
  \/ GrantGooglePlayPurchase(r) \/ Consume(r)

Next ==
  \/ \E o \in Orders : StartCreditPurchase(o)
  \/ \E s \in Sessions : Buyer(s) \/ Webhook(s)
  \/ \E t \in Tokens : Buys(t) \/ BuyClears(t) \/ Voids(t) \/ VoidNotice(t)
  \/ \E r \in Requests : Serves(r) \/ Dies(r)
  \/ \E x \in Scans : RefundScanCredit(x) \/ \E p \in Purchases : SpendScanCredit(x, p)

Spec == Init /\ [][Next]_vars

\* Stripe delivers until it is answered; Play returns what is never consumed.
FairSpec ==
  /\ Spec
  /\ \A s \in Sessions : WF_vars(CompletedWebhook(s))
  /\ \A t \in Tokens : WF_vars(PlayGivesUp(t))

---------------------------------------------------------------------------

\* An order is charged through one session, its own: the buyer who asks for a
\* checkout twice, or in two tabs, cannot pay twice.
OnePayment ==
  \A s \in Sessions : checkout[s].state \in Shown => session[checkout[s].of] = s

\* Once the processor's refund has been heard the pack is gone, and a scan
\* given back later does not bring it back.  Out of reach: a token granted
\* after its void notice was answered.
RefundTakesBack ==
  /\ \A s \in Sessions :
       checkout[s].state = "refunded" /\ <<"refunded", s>> \notin events
       => status[checkout[s].of] = "refunded" /\ Usable(checkout[s].of) = 0
  /\ \A t \in Tokens :
       play[t] = "voided" /\ t \notin notices \cup stale => Usable(t) = 0

\* Play keeps the buyer's money for a purchase that is consumed, so one is
\* consumed only when its pack has been granted.
ConsumedIsGranted == \A t \in consumed : status[t] \in {"paid", "refunded"}

\* The scans that have a credit of p and were not given it back.
Scanned(p) == {x \in Scans : scan[x] = p /\ x \notin returned}

\* While it is paid, a pack is spent for as many scans as it has credits, no
\* more and no less, through webhooks that come twice and credits given back:
\* refundScanCredit's cap at the pack's size never swallows one.
PackConserved ==
  \A p \in Purchases : status[p] = "paid" => left[p] + Cardinality(Scanned(p)) = Pack

\* As long as a payment made at the checkout is kept, its pack is there or
\* Stripe will deliver the event that adds it, whatever webhook, checkout or
\* refund of another session came first.
PaidIsOwed ==
  \A s \in Sessions : checkout[s].state = "paid" =>
    \/ status[checkout[s].of] = "paid"
    \/ status[checkout[s].of] = "pending" /\ <<"completed", s>> \in events

Money(p) ==
  IF p \in Tokens
  THEN CASE play[p] = "purchased" -> "taken" [] play[p] = "voided" -> "returned" [] OTHER -> "none"
  ELSE LET mine == {s \in Sessions : checkout[s].of = p} IN
       CASE \E s \in mine : checkout[s].state \in {"paid", "cleared"} -> "taken"
         [] \E s \in mine : checkout[s].state = "refunded" -> "returned"
         [] OTHER -> "none"

PackOf(p) ==
  CASE status[p] = "paid" -> "added" [] status[p] = "refunded" -> "withdrawn" [] OTHER -> "none"

Promise == INSTANCE PurchasePromise WITH
  money <- [p \in Purchases |-> Money(p)],
  pack <- [p \in Purchases |-> PackOf(p)],
  usable <- [p \in Purchases |-> Usable(p)]

\* Whatever the order of events, a pack is added once and for money taken,
\* and withdrawn once and for money returned.
KeepsPurchasePromise == Promise!Spec

\* A card payment made at the checkout ends with its pack, or refunded.
PaidIsGranted ==
  \A s \in Sessions :
    checkout[s].state = "paid" ~>
      (checkout[s].of \in Orders /\ status[checkout[s].of] \in {"paid", "refunded"})

\* Play does not keep the money of a purchase that was never added.
PlaySettles ==
  \A t \in Tokens : play[t] = "purchased" ~> status[t] = "paid" \/ play[t] = "voided"

=============================================================================
