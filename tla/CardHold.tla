------------------------------ MODULE CardHold ------------------------------
(***************************************************************************)
(* One standalone card booking from its creation to the end of its hold:   *)
(* paid, expired by the sweep, or cancelled by the customer before paying. *)
(*                                                                         *)
(* Three kinds of code run against the same booking document with nothing  *)
(* but conditional updates between them: the payment-session requests of   *)
(* the storefront (any number, from any number of server processes), the   *)
(* expired-hold sweep (app.ts starts one in every process and nothing      *)
(* keeps two runs of it apart), and the Stripe webhooks.  Stripe itself is *)
(* the fourth party: PaymentIntents change state under the customer's      *)
(* hands while any of these is between two of its awaits.                  *)
(*                                                                         *)
(* Each await is a step boundary.  A Mongo transaction or a single         *)
(* conditional update is one step.  A request whose gateway is missing,    *)
(* disabled or bound to another account, whose provider call fails, or     *)
(* whose process dies, stops where it is: PayStops and SweepStops.         *)
(***************************************************************************)
EXTENDS Naturals

CONSTANTS
  Handler,      \* concurrent requests to POST /payments/create-intent
  Sweeper,      \* concurrent runs of expireStaleCardHolds
  MaxIntents    \* bound: PaymentIntents Stripe may create for the booking

ASSUME MaxIntentsAssumption == MaxIntents \in Nat \ {0}

VARIABLES
  bk,           \* the Booking document
  intent,       \* Stripe: the state of each PaymentIntent of this booking
  made,         \* Stripe: how many PaymentIntents were created
  key,          \* Stripe: the intent its idempotency key answers with, or 0
  shown,        \* the intents whose client secret reached the customer
  stale,        \* createdAt is older than the 30-minute payment window
  recoverable,  \* the session claim is younger than 23 hours
  failHook,     \* payment_failed deliveries: not yet read / read, not applied
  op,           \* the BookingCancellation row of an unpaid cancellation
  hd,           \* the payment-session requests
  sw            \* the sweeps, each at one candidate

vars == <<bk, intent, made, key, shown, stale, recoverable, failHook, op, hd, sw>>
stripe == <<intent, made, key>>
clock == <<stale, recoverable>>

Intents == 1..MaxIntents
IntentOrNone == 0..MaxIntents

(* Unpaid payment states: every query of the hold code uses this set.      *)
Unpaid == {"pending", "processing", "failed"}

BookingDoc ==
  [status: {"pending", "confirmed", "cancelled"},
   pay: Unpaid \cup {"succeeded"},
   pi: IntentOrNone,        \* stripePaymentIntentId, 0 when absent
   claimed: BOOLEAN,        \* stripePaymentSessionClaimedAt
   closed: BOOLEAN,         \* stripePaymentSessionClosedAt
   released: BOOLEAN,       \* inventoryReleasedAt
   cancelReq: BOOLEAN,      \* cancellationRequestedAt
   legacy: BOOLEAN]         \* row written before the two session markers

(* The three states in which a PaymentIntent differs for this code, and    *)
(* "absent" for one that was never created: requires_payment_method,       *)
(* requires_confirmation and requires_action are all "open".               *)
IntentState == {"absent", "open", "processing", "succeeded", "canceled"}

HandlerState ==
  [pc: {"idle", "claim", "create", "bind", "resume"},
   claimed: BOOLEAN,        \* as read from the booking
   id: IntentOrNone]        \* the intent Stripe answered with

SweepState ==
  [pc: {"idle", "recover", "retrieve", "cancel", "release"},
   pi: IntentOrNone,        \* the candidate's fields as the sweep read them
   status: {"pending", "cancelled"},
   found: IntentOrNone]     \* the intent recovered from the idempotency key

IdleHandler == [pc |-> "idle", claimed |-> FALSE, id |-> 0]
IdleSweep == [pc |-> "idle", pi |-> 0, status |-> "pending", found |-> 0]

TypeOK ==
  /\ bk \in BookingDoc
  /\ intent \in [Intents -> IntentState]
  /\ made \in IntentOrNone
  /\ key \in IntentOrNone
  /\ shown \in SUBSET IntentOrNone
  /\ stale \in BOOLEAN
  /\ recoverable \in BOOLEAN
  /\ failHook \in SUBSET {"sent", "read"}
  /\ op \in {"none", "pending", "processing", "completed", "manual_review"}
  /\ hd \in [Handler -> HandlerState]
  /\ sw \in [Sweeper -> SweepState]

-----------------------------------------------------------------------------
(* The booking as createBooking commits it: a pending card hold.           *)
FreshBooking ==
  [status |-> "pending", pay |-> "pending", pi |-> 0, claimed |-> FALSE,
   closed |-> FALSE, released |-> FALSE, cancelReq |-> FALSE, legacy |-> FALSE]

Quiet ==
  /\ shown \in SUBSET ({bk.pi} \ {0})
  /\ stale = FALSE
  /\ failHook = {}
  /\ op = "none"
  /\ hd = [h \in Handler |-> IdleHandler]
  /\ sw = [s \in Sweeper |-> IdleSweep]

InitFresh ==
  /\ bk = FreshBooking
  /\ intent = [n \in Intents |-> "absent"]
  /\ made = 0
  /\ key = 0
  /\ recoverable = TRUE
  /\ Quiet

(* A hold cancelled before sessions were closed at Stripe: the sweep still *)
(* selects such rows, to void a PaymentIntent that outlived its hold.      *)
InitLegacy ==
  /\ \E n \in {0, 1}, p \in Unpaid :
       bk = [FreshBooking EXCEPT !.status = "cancelled", !.released = TRUE,
                                 !.claimed = TRUE, !.legacy = TRUE,
                                 !.pi = n, !.pay = p]
  /\ intent = [n \in Intents |-> IF n = 1 THEN "open" ELSE "absent"]
  /\ made = 1
  /\ recoverable \in BOOLEAN
  /\ key = IF recoverable THEN 1 ELSE 0
  /\ Quiet

Init == InitFresh \/ InitLegacy

-----------------------------------------------------------------------------
(* Stripe and the customer.                                                *)

(* paymentIntents.create under the booking's deterministic idempotency     *)
(* key: n is the intent it answers with, new only when the key is unknown. *)
CreateIntent(n) ==
  \/ /\ key # 0
     /\ n = key
     /\ UNCHANGED stripe
  \/ /\ key = 0
     /\ n = made + 1
     /\ n \in Intents
     /\ intent' = [intent EXCEPT ![n] = "open"]
     /\ made' = n
     /\ key' = n

(* Stripe.js: only a client secret the API returned can be used to pay.    *)
CustomerPays(n) ==
  /\ n \in shown
  /\ intent[n] = "open"
  /\ intent' = [intent EXCEPT ![n] = "processing"]
  /\ UNCHANGED <<bk, made, key, shown, stale, recoverable, failHook, op, hd, sw>>

ChargeSucceeds(n) ==
  /\ intent[n] = "processing"
  /\ intent' = [intent EXCEPT ![n] = "succeeded"]
  /\ UNCHANGED <<bk, made, key, shown, stale, recoverable, failHook, op, hd, sw>>

ChargeDeclined(n) ==
  /\ intent[n] = "processing"
  /\ intent' = [intent EXCEPT ![n] = "open"]
  /\ failHook' = failHook \cup {"sent"}
  /\ UNCHANGED <<bk, made, key, shown, stale, recoverable, op, hd, sw>>

(* Stripe prunes idempotency records after 24 hours.  The code stops using *)
(* the key at 23, and no request it sent before is still on the wire then. *)
StripeForgetsKey ==
  /\ ~recoverable
  /\ key # 0
  /\ \A h \in Handler : hd[h].pc # "create"
  /\ key' = 0
  /\ UNCHANGED <<bk, intent, made, shown, stale, recoverable, failHook, op, hd, sw>>

HoldAges ==
  /\ ~stale
  /\ stale' = TRUE
  /\ UNCHANGED <<bk, stripe, shown, recoverable, failHook, op, hd, sw>>

ClaimAges ==
  /\ bk.claimed
  /\ recoverable
  /\ recoverable' = FALSE
  /\ UNCHANGED <<bk, stripe, shown, stale, failHook, op, hd, sw>>

-----------------------------------------------------------------------------
(* POST /payments/create-intent.                                           *)

PayRead(h) ==
  /\ hd[h].pc = "idle"
  /\ bk.pay \in Unpaid
  /\ bk.status = "pending"
  /\ ~bk.released
  /\ hd' = [hd EXCEPT ![h] = [pc |-> IF bk.pi # 0 THEN "resume" ELSE "claim",
                              claimed |-> bk.claimed, id |-> 0]]
  /\ UNCHANGED <<bk, stripe, shown, clock, failHook, op, sw>>

(* Mutant: the claim does not look at an accepted cancellation.            *)
SessionClaimableWhileCancelling ==
  bk.status = "pending" /\ ~bk.released /\ bk.pay \in {"pending", "failed"}
    /\ ~bk.claimed /\ bk.pi = 0

(* The filter of the conditional update that claims the payment session.   *)
SessionClaimable ==
  /\ bk.status = "pending"
  /\ ~bk.released
  /\ ~bk.cancelReq
  /\ bk.pay \in {"pending", "failed"}
  /\ ~bk.claimed
  /\ bk.pi = 0

(* Mutant: an old claim is used again without its 23-hour limit.           *)
PayClaimForever(h) ==
  /\ hd[h].pc = "claim"
  /\ \/ hd[h].claimed /\ UNCHANGED bk
     \/ ~hd[h].claimed /\ SessionClaimable /\ bk' = [bk EXCEPT !.claimed = TRUE]
  /\ hd' = [hd EXCEPT ![h].pc = "create"]
  /\ UNCHANGED <<stripe, shown, clock, failHook, op, sw>>

(* claimBookingStripePaymentSession: a session already claimed when the    *)
(* booking was read is used again while its idempotency key is recoverable.*)
PayClaim(h) ==
  /\ hd[h].pc = "claim"
  /\ \/ /\ hd[h].claimed
        /\ hd' = [hd EXCEPT ![h] = IF recoverable THEN [@ EXCEPT !.pc = "create"]
                                                  ELSE IdleHandler]
        /\ UNCHANGED bk
     \/ /\ ~hd[h].claimed
        /\ SessionClaimable
        /\ bk' = [bk EXCEPT !.claimed = TRUE]
        /\ hd' = [hd EXCEPT ![h].pc = "create"]
     \/ /\ ~hd[h].claimed
        /\ ~SessionClaimable
        /\ hd' = [hd EXCEPT ![h] = IdleHandler]
        /\ UNCHANGED bk
  /\ UNCHANGED <<stripe, shown, clock, failHook, op, sw>>

PayCreate(h) ==
  /\ hd[h].pc = "create"
  /\ \E n \in Intents :
       /\ CreateIntent(n)
       /\ hd' = [hd EXCEPT ![h] = [@ EXCEPT !.pc = "bind", !.id = n]]
  /\ UNCHANGED <<bk, shown, clock, failHook, op, sw>>

(* The filter of the conditional update that binds the intent.             *)
Bindable ==
  /\ bk.status = "pending"
  /\ ~bk.released
  /\ bk.pay \in {"pending", "failed"}
  /\ bk.pi = 0

(* The secret is returned only once the intent is bound; a lost race falls *)
(* back to the intent the latest document carries.                         *)
PayBind(h) ==
  /\ hd[h].pc = "bind"
  /\ \/ /\ Bindable
        /\ bk' = [bk EXCEPT !.pi = hd[h].id, !.pay = "processing"]
        /\ shown' = shown \cup {hd[h].id}
        /\ hd' = [hd EXCEPT ![h] = IdleHandler]
     \/ /\ ~Bindable
        /\ hd' = [hd EXCEPT ![h].pc = "resume"]
        /\ UNCHANGED <<bk, shown>>
  /\ UNCHANGED <<stripe, clock, failHook, op, sw>>

(* Return the bound intent's secret, or 409 when nothing is bound.         *)
PayResume(h) ==
  /\ hd[h].pc = "resume"
  /\ shown' = shown \cup ({bk.pi} \ {0})
  /\ hd' = [hd EXCEPT ![h] = IdleHandler]
  /\ UNCHANGED <<bk, stripe, clock, failHook, op, sw>>

PayStops(h) ==
  /\ hd[h].pc # "idle"
  /\ hd' = [hd EXCEPT ![h] = IdleHandler]
  /\ UNCHANGED <<bk, stripe, shown, clock, failHook, op, sw>>

-----------------------------------------------------------------------------
(* payment_intent.succeeded and POST /payments/confirm both end in         *)
(* finalizePaidBooking, on evidence that the bound intent has succeeded.   *)

FinalizePaid ==
  /\ bk.pi # 0
  /\ intent[bk.pi] = "succeeded"
  /\ bk.status = "pending"
  /\ ~bk.released
  /\ bk.pay \in Unpaid
  /\ bk' = [bk EXCEPT !.pay = "succeeded", !.status = "confirmed"]
  /\ UNCHANGED <<stripe, shown, clock, failHook, op, hd, sw>>

(* payment_intent.payment_failed: the handler asks Stripe for the current  *)
(* state, and records a decline only if the intent still waits for a card. *)
DeclineRead ==
  /\ "sent" \in failHook
  /\ bk.pi # 0
  /\ failHook' = (failHook \ {"sent"}) \cup
                 (IF intent[bk.pi] = "open" THEN {"read"} ELSE {})
  /\ UNCHANGED <<bk, stripe, shown, clock, op, hd, sw>>

(* recordCardPaymentFailure: the hold stays and the intent stays payable.  *)
DeclineApply ==
  /\ "read" \in failHook
  /\ failHook' = failHook \ {"read"}
  /\ bk' = IF bk.pay \in Unpaid /\ bk.status = "pending" /\ ~bk.released
             THEN [bk EXCEPT !.pay = "failed"] ELSE bk
  /\ UNCHANGED <<stripe, shown, clock, op, hd, sw>>

(* The handler dies after the provider read: Stripe delivers the event again. *)
DeclineStops ==
  /\ "read" \in failHook
  /\ failHook' = (failHook \ {"read"}) \cup {"sent"}
  /\ UNCHANGED <<bk, stripe, shown, clock, op, hd, sw>>

-----------------------------------------------------------------------------
(* expireStaleCardHolds, one candidate.                                    *)

(* Mutants: holds with a declined card, or cancelled ones, are not found.  *)
CandidateUndeclined ==
  /\ stale
  /\ bk.pay \in {"pending", "processing"}
  /\ ~bk.closed
  /\ \/ bk.status = "pending" /\ ~bk.released
     \/ bk.status = "cancelled" /\ (bk.claimed \/ bk.pi # 0)
Candidate ==
  /\ stale
  /\ bk.pay \in Unpaid
  /\ ~bk.closed
  /\ \/ bk.status = "pending" /\ ~bk.released
     \/ bk.status = "cancelled" /\ (bk.claimed \/ bk.pi # 0)

SweepRead(s) ==
  /\ sw[s].pc = "idle"
  /\ Candidate
  /\ sw' = [sw EXCEPT ![s] =
       [pc |-> IF bk.pi # 0 THEN "retrieve"
               ELSE IF bk.claimed THEN "recover" ELSE "release",
        pi |-> bk.pi, status |-> bk.status, found |-> 0]]
  /\ UNCHANGED <<bk, stripe, shown, clock, failHook, op, hd>>

(* A claimed session without a stored intent: repeat the keyed request.    *)
(* The answer is Stripe's stored first response, so its status is "open"   *)
(* whatever has happened to the intent since; the cancel call decides.     *)
SweepRecover(s) ==
  /\ sw[s].pc = "recover"
  /\ \/ /\ recoverable
        /\ \E n \in Intents :
             /\ CreateIntent(n)
             /\ sw' = [sw EXCEPT ![s] = [@ EXCEPT !.pc = "cancel", !.found = n]]
     \/ /\ ~recoverable
        /\ sw' = [sw EXCEPT ![s] = IdleSweep]
        /\ UNCHANGED stripe
  /\ UNCHANGED <<bk, shown, clock, failHook, op, hd>>

(* Mutant: whatever is not open any more is taken for canceled.            *)
SweepRetrieveOpenOnly(s) ==
  /\ sw[s].pc = "retrieve"
  /\ sw' = [sw EXCEPT ![s].pc = IF intent[sw[s].pi] = "open" THEN "cancel" ELSE "release"]
  /\ UNCHANGED <<bk, stripe, shown, clock, failHook, op, hd>>

SweepRetrieve(s) ==
  /\ sw[s].pc = "retrieve"
  /\ sw' = [sw EXCEPT ![s] =
       CASE intent[sw[s].pi] = "open" -> [@ EXCEPT !.pc = "cancel"]
         [] intent[sw[s].pi] = "canceled" -> [@ EXCEPT !.pc = "release"]
         [] OTHER -> IdleSweep]
  /\ UNCHANGED <<bk, stripe, shown, clock, failHook, op, hd>>

SweepIntent(s) == IF sw[s].pi # 0 THEN sw[s].pi ELSE sw[s].found

(* Mutant: the sweep goes on when Stripe refuses to cancel the intent.     *)
SweepCancelUnchecked(s) ==
  /\ sw[s].pc = "cancel"
  /\ LET n == SweepIntent(s) IN
       intent' = [intent EXCEPT ![n] = IF @ = "open" THEN "canceled" ELSE @]
  /\ sw' = [sw EXCEPT ![s].pc = "release"]
  /\ UNCHANGED <<bk, made, key, shown, clock, failHook, op, hd>>

(* paymentIntents.cancel refuses an intent that is being or has been       *)
(* charged; only a provider-confirmed "canceled" lets the sweep go on.     *)
SweepCancel(s) ==
  /\ sw[s].pc = "cancel"
  /\ LET n == SweepIntent(s) IN
       \/ /\ intent[n] \in {"open", "canceled"}
          /\ intent' = [intent EXCEPT ![n] = "canceled"]
          /\ sw' = [sw EXCEPT ![s].pc = "release"]
       \/ /\ intent[n] \notin {"open", "canceled"}
          /\ sw' = [sw EXCEPT ![s] = IdleSweep]
          /\ UNCHANGED intent
  /\ UNCHANGED <<bk, made, key, shown, clock, failHook, op, hd>>

(* Mutants: the release does not look for a claim that won after the scan; *)
(* it writes a status the schema does not have.                            *)
HoldReleasableDespiteClaim(s) ==
  /\ bk.pay \in Unpaid /\ bk.status = "pending" /\ ~bk.released
  /\ sw[s].pi # 0 => bk.pi = sw[s].pi
  /\ sw[s].pi = 0 => bk.pi \in {0, sw[s].found}

(* The filter of failCardBookingAndReleaseInventory.                       *)
HoldReleasable(s) ==
  /\ bk.pay \in Unpaid
  /\ bk.status = "pending"
  /\ ~bk.released
  /\ sw[s].pi # 0 => bk.pi = sw[s].pi
  /\ sw[s].pi = 0 /\ sw[s].found # 0 => bk.pi \in {0, sw[s].found}
  /\ sw[s].pi = 0 /\ sw[s].found = 0 => ~bk.claimed

ReleaseHold(s) ==
  [bk EXCEPT !.pay = "failed", !.status = "cancelled", !.released = TRUE,
             !.pi = IF @ = 0 THEN sw[s].found ELSE @,
             !.closed = (SweepIntent(s) # 0)]

SweepRelease(s) ==
  /\ sw[s].pc = "release"
  /\ \/ /\ sw[s].status = "pending"
        /\ bk' = IF HoldReleasable(s) THEN ReleaseHold(s) ELSE bk
     \/ /\ sw[s].status = "cancelled"
        /\ bk' = IF bk.status = "cancelled" /\ bk.pay \in Unpaid
                   THEN [bk EXCEPT !.closed = TRUE] ELSE bk
  /\ sw' = [sw EXCEPT ![s] = IdleSweep]
  /\ UNCHANGED <<stripe, shown, clock, failHook, op, hd>>

SweepStops(s) ==
  /\ sw[s].pc # "idle"
  /\ sw' = [sw EXCEPT ![s] = IdleSweep]
  /\ UNCHANGED <<bk, stripe, shown, clock, failHook, op, hd>>

-----------------------------------------------------------------------------
(* Cancelling an unpaid booking.  A paid one is CancelRefund's subject.    *)

RequestCancel ==
  /\ bk.status = "pending"
  /\ ~bk.released
  /\ bk.pay # "succeeded"
  /\ bk.pi = 0 /\ ~bk.claimed
  /\ bk' = [bk EXCEPT !.cancelReq = TRUE]
  /\ op' = IF op = "none" THEN "pending" ELSE op
  /\ UNCHANGED <<stripe, shown, clock, failHook, hd, sw>>

AlreadyReleased == bk.status = "cancelled" /\ bk.released

(* processBookingCancellation up to its call of finalize.                  *)
CancelRead ==
  /\ op = "pending"
  /\ op' = IF AlreadyReleased THEN "completed"
           ELSE IF bk.released \/ bk.pi # 0 THEN "manual_review"
           ELSE "processing"
  /\ UNCHANGED <<bk, stripe, shown, clock, failHook, hd, sw>>

(* finalizeBookingCancellation of a booking without a succeeded payment:   *)
(* done already, or released now, or a conflict for a person.              *)
Cancellable ==
  bk.status = "pending" /\ ~bk.released /\ bk.pay \in {"pending", "failed"}

CancelFinalize ==
  /\ op = "processing"
  /\ op' = IF AlreadyReleased \/ Cancellable THEN "completed" ELSE "manual_review"
  /\ bk' = IF Cancellable
             THEN [bk EXCEPT !.status = "cancelled", !.released = TRUE] ELSE bk
  /\ UNCHANGED <<stripe, shown, clock, failHook, hd, sw>>

(* The worker dies; its lease runs out and the row is taken again.         *)
CancelStops ==
  /\ op = "processing"
  /\ op' = "pending"
  /\ UNCHANGED <<bk, stripe, shown, clock, failHook, hd, sw>>

-----------------------------------------------------------------------------
Crash ==
  \/ \E h \in Handler : PayStops(h)
  \/ \E s \in Sweeper : SweepStops(s)
  \/ DeclineStops
  \/ CancelStops

Pay(h) == PayRead(h) \/ PayClaim(h) \/ PayCreate(h) \/ PayBind(h) \/ PayResume(h)
Sweep(s) ==
  SweepRead(s) \/ SweepRecover(s) \/ SweepRetrieve(s) \/ SweepCancel(s) \/ SweepRelease(s)
Settles(n) == ChargeSucceeds(n) \/ ChargeDeclined(n)

Next ==
  \/ \E h \in Handler : Pay(h)
  \/ \E s \in Sweeper : Sweep(s)
  \/ \E n \in Intents : CustomerPays(n) \/ Settles(n)
  \/ StripeForgetsKey \/ HoldAges \/ ClaimAges
  \/ FinalizePaid
  \/ DeclineRead \/ DeclineApply
  \/ RequestCancel \/ CancelRead \/ CancelFinalize
  \/ Crash

Spec == Init /\ [][Next]_vars

(* The sweep runs every 5 minutes and the cancellation worker every 30     *)
(* seconds in every process, and Stripe settles a charge and redelivers an *)
(* event until it is answered: weak fairness.  A process may die again and *)
(* again, but not each time at the same await: strong fairness for a step  *)
(* a crash can pre-empt.  In the long run the customer stops trying cards. *)
Fairness ==
  /\ \A s \in Sweeper :
       /\ WF_vars(SweepRead(s))
       /\ SF_vars(SweepRecover(s)) /\ SF_vars(SweepRetrieve(s))
       /\ SF_vars(SweepCancel(s)) /\ SF_vars(SweepRelease(s))
  /\ \A n \in Intents : WF_vars(Settles(n))
  /\ WF_vars(FinalizePaid)
  /\ WF_vars(CancelRead) /\ SF_vars(CancelFinalize)
  /\ WF_vars(HoldAges)
  /\ <>[][~\E n \in Intents : CustomerPays(n)]_vars

FairSpec == Spec /\ Fairness

-----------------------------------------------------------------------------
(* Properties.                                                             *)

(* Once the seats of a hold are back on sale, no PaymentIntent of the      *)
(* booking can take money any more: each was voided at Stripe first        *)
(* (expireStaleCardHolds), or never existed and can no longer be created.  *)
ReleasedCannotCharge ==
  bk.released /\ ~bk.legacy => \A n \in Intents : intent[n] \in {"absent", "canceled"}

(* A booking is confirmed only by money: its own bound intent succeeded    *)
(* (finalizePaidBooking is reached with provider evidence only).           *)
PaidMeansCharged ==
  bk.status = "confirmed" \/ bk.pay = "succeeded" =>
    /\ bk.pi # 0
    /\ intent[bk.pi] = "succeeded"

(* Money that moves is never stranded: an intent being charged or charged  *)
(* is the one bound to the booking, and the booking is confirmed or still  *)
(* in a state finalizePaidBooking accepts.                                 *)
ChargeIsFinalizable ==
  \A n \in Intents : intent[n] \in {"processing", "succeeded"} /\ ~bk.legacy =>
    /\ n = bk.pi
    /\ ~bk.released
    /\ \/ bk.status = "confirmed"
       \/ bk.status = "pending" /\ bk.pay \in Unpaid

(* Retries, concurrent requests, crash recovery and the sweep together     *)
(* never create a second PaymentIntent: the claim, the deterministic key   *)
(* and the 23-hour limit on its reuse (bookingStripePaymentRequest).       *)
OneIntentPerBooking == made <= 1

(* An accepted cancellation of an unpaid booking and a payment session     *)
(* exclude each other for good, whichever of the two came first.           *)
CancelExcludesPayment == bk.cancelReq => ~bk.claimed /\ bk.pi = 0

(* The closed marker is what lets an admin switch Stripe accounts          *)
(* (updatePaymentGateway): it is set only when nothing is left to collect. *)
ClosedMeansVoid ==
  bk.closed => \A n \in Intents : intent[n] \in {"absent", "canceled"}

(* A late decline, a second sweep or a slow request never undoes an        *)
(* outcome: confirmed stays confirmed and paid, released stays released.   *)
OutcomeIsFinal ==
  [][/\ bk.status = "confirmed" => bk'.status = "confirmed" /\ bk'.pay = "succeeded"
     /\ bk.released => bk'.released /\ bk'.status = "cancelled"]_bk

(* A claimed session whose intent was never stored and whose key is no     *)
(* longer usable: the code leaves it to a person (recovery_required).      *)
NeedsRecovery == bk.claimed /\ bk.pi = 0 /\ ~recoverable

(* Every hold ends: it is paid, released, or reported for recovery.        *)
HoldEnds == bk.status = "pending" ~> bk.status # "pending" \/ NeedsRecovery

=============================================================================
