---------------------------- MODULE BundleOrder ----------------------------
(***************************************************************************)
(* One bundle order from its reservation to its allocation, cancellation   *)
(* or expiry: several suppliers' departures held together under one        *)
(* PaymentIntent, paid as a whole or given back as a whole.                *)
(*                                                                         *)
(* The order document, the departures and the child bookings change        *)
(* together in Mongo transactions: each is one step.  Between two steps of *)
(* a handler lies a call to Stripe or a fresh read, and any other handler  *)
(* may have moved the order by then.                                       *)
(*                                                                         *)
(* Requests run in Server processes: the customer's cancellation, an       *)
(* admin's recovery, the browser's confirmation, and the webhooks with     *)
(* their claimed event rows.  Sweeper processes run the two passes of      *)
(* app.ts.  Payment-session requests are Session processes.                *)
(***************************************************************************)
EXTENDS Naturals

CONSTANTS
  Component,    \* the departures of the bundle, one child booking each
  Session,      \* concurrent payment-session requests
  Server,       \* concurrent requests of the other kinds
  Sweeper,      \* concurrent bundle sweeps
  Others        \* parties other than this one on every departure

ASSUME OthersAssumption == Others \in Nat

VARIABLES
  order,        \* the BundleOrder document
  child,        \* the status of each child booking
  released,     \* the children with inventoryReleasedAt
  slot,         \* parties counted on each departure, this one and the others
  intent,       \* Stripe: the PaymentIntent of the order's idempotency key
  shown,        \* its client secret reached the customer
  expired,      \* holdExpiresAt has passed
  sess,         \* the payment-session requests
  job,          \* the handlers and the sweeps
  sent,         \* Stripe: the events it delivers until they are acknowledged
  acked,        \* Stripe: the events answered with a 2xx
  row           \* the BundleProviderEvent of each event

vars == <<order, child, released, slot, intent, shown, expired, sess, job,
          sent, acked, row>>
seats == <<child, released, slot>>
hooks == <<sent, acked, row>>

Event == {"charged", "declined"}
Process == Server \cup Sweeper

(* paid and allocating are left again in the transaction that enters them. *)
OrderDoc ==
  [status: {"reserved", "payment_pending", "paid_allocation_pending", "confirmed",
            "cancel_pending", "cancelled", "manual_review"},
   pay: {"not_started", "intent_created", "failed", "manual_review", "succeeded",
         "cancelled", "expired"},
   pi: BOOLEAN,          \* stripePaymentIntentId
   claimed: BOOLEAN,     \* paymentSessionClaimedAt
   bound: BOOLEAN,       \* stripeBinding
   captured: BOOLEAN]    \* paymentCapturedAt

Held == {"reserved", "payment_pending"}
Unsettled == Held \cup {"manual_review"}

Job == {"none", "cancel", "recover", "confirm", "expire", "allocate"} \cup Event
Pc == {"idle", "again", "reclaim", "retrieve", "cancel", "release", "review",
       "persist", "allocate", "request", "decline", "complete", "refuse",
       "recreate", "rebind", "reread", "flag", "expire"}
Idle == [job |-> "none", pc |-> "idle"]

TypeOK ==
  /\ order \in OrderDoc
  /\ child \in [Component -> {"pending", "confirmed", "cancelled"}]
  /\ released \in SUBSET Component
  /\ slot \in [Component -> 0..(Others + 1)]
  /\ intent \in {"absent", "open", "processing", "succeeded", "canceled"}
  /\ shown \in BOOLEAN
  /\ expired \in BOOLEAN
  /\ sess \in [Session -> {"idle", "claim", "create", "bind", "lost", "cancel", "flag", "show"}]
  /\ job \in [Process -> [job: Job, pc: Pc]]
  /\ sent \in SUBSET Event
  /\ acked \in SUBSET Event
  /\ row \in [Event -> [status: {"none", "processing", "completed", "failed"},
                        leased: BOOLEAN]]

(* The order as the creation transaction commits it, seats reserved.       *)
Init ==
  /\ order = [status |-> "reserved", pay |-> "not_started", pi |-> FALSE,
              claimed |-> FALSE, bound |-> FALSE, captured |-> FALSE]
  /\ child = [c \in Component |-> "pending"]
  /\ released = {}
  /\ slot = [c \in Component |-> Others + 1]
  /\ intent = "absent"
  /\ shown = FALSE
  /\ expired = FALSE
  /\ sess = [s \in Session |-> "idle"]
  /\ job = [p \in Process |-> Idle]
  /\ sent = {}
  /\ acked = {}
  /\ row = [e \in Event |-> [status |-> "none", leased |-> FALSE]]

-----------------------------------------------------------------------------
(* Stripe, the customer and the clock.                                     *)

(* A keyed create: the first call makes the intent, every other one gets   *)
(* the stored first answer, whose status is still open.                    *)
CreateIntent == intent' = IF intent = "absent" THEN "open" ELSE intent

CustomerPays ==
  /\ shown
  /\ intent = "open"
  /\ intent' = "processing"
  /\ UNCHANGED <<order, seats, shown, expired, sess, job, hooks>>

ChargeSettles ==
  /\ intent = "processing"
  /\ \E e \in Event :
       /\ intent' = IF e = "charged" THEN "succeeded" ELSE "open"
       /\ sent' = sent \cup {e}
  /\ UNCHANGED <<order, seats, shown, expired, sess, job, acked, row>>

HoldExpires ==
  /\ ~expired
  /\ expired' = TRUE
  /\ UNCHANGED <<order, seats, intent, shown, sess, job, hooks>>

LeaseExpires ==
  /\ \E e \in Event : row[e].leased /\ row' = [row EXCEPT ![e].leased = FALSE]
  /\ UNCHANGED <<order, seats, intent, shown, expired, sess, job, sent, acked>>

-----------------------------------------------------------------------------
(* createBundlePaymentSession.                                             *)

SessionRead(s) ==
  /\ sess[s] = "idle"
  /\ ~expired
  /\ order.status \in Held
  /\ sess' = [sess EXCEPT ![s] = IF order.pi THEN "show" ELSE "claim"]
  /\ UNCHANGED <<order, seats, intent, shown, expired, job, hooks>>

Claimable ==
  /\ order.status = "reserved"
  /\ order.pay = "not_started"
  /\ ~expired
  /\ ~order.pi
  /\ ~order.bound

SessionClaim(s) ==
  /\ sess[s] = "claim"
  /\ order' = IF Claimable THEN [order EXCEPT !.claimed = TRUE, !.bound = TRUE] ELSE order
  /\ sess' = [sess EXCEPT ![s] = IF Claimable THEN "create" ELSE "idle"]
  /\ UNCHANGED <<seats, intent, shown, expired, job, hooks>>

SessionCreate(s) ==
  /\ sess[s] = "create"
  /\ CreateIntent
  /\ sess' = [sess EXCEPT ![s] = "bind"]
  /\ UNCHANGED <<order, seats, shown, expired, job, hooks>>

Bindable ==
  /\ order.status = "reserved"
  /\ order.pay = "not_started"
  /\ ~expired
  /\ order.claimed
  /\ ~order.pi

BoundTo(o) == [o EXCEPT !.pi = TRUE, !.status = "payment_pending",
                        !.pay = "intent_created", !.claimed = FALSE]

SessionBind(s) ==
  /\ sess[s] = "bind"
  /\ order' = IF Bindable THEN BoundTo(order) ELSE order
  /\ sess' = [sess EXCEPT ![s] = IF Bindable THEN "show" ELSE "lost"]
  /\ UNCHANGED <<seats, intent, shown, expired, job, hooks>>

(* The bind was lost: to an expiry that bound the same intent, or to a     *)
(* release, after which the intent must not stay payable.                  *)
SessionLost(s) ==
  /\ sess[s] = "lost"
  /\ sess' = [sess EXCEPT ![s] =
       IF order.pi /\ order.status \in {"payment_pending", "manual_review"}
         THEN "show" ELSE "cancel"]
  /\ UNCHANGED <<order, seats, intent, shown, expired, job, hooks>>

(* paymentIntents.cancel, and the read the code falls back to when it      *)
(* fails: the answer is "canceled", another status, or nothing at all.     *)
StripeCancel(canceled) ==
  \/ /\ intent \in {"open", "canceled"}
     /\ intent' = "canceled"
     /\ canceled \in BOOLEAN
  \/ /\ ~canceled
     /\ UNCHANGED intent

SessionCancel(s) ==
  /\ sess[s] = "cancel"
  /\ \E canceled \in BOOLEAN :
       /\ StripeCancel(canceled)
       /\ sess' = [sess EXCEPT ![s] = IF canceled THEN "idle" ELSE "flag"]
  /\ UNCHANGED <<order, seats, shown, expired, job, hooks>>

SessionFlag(s) ==
  /\ sess[s] = "flag"
  /\ order' = IF order.pay = "succeeded" THEN order
              ELSE [order EXCEPT !.pi = TRUE, !.status = "manual_review",
                                 !.pay = "manual_review", !.claimed = FALSE]
  /\ sess' = [sess EXCEPT ![s] = "idle"]
  /\ UNCHANGED <<seats, intent, shown, expired, job, hooks>>

SessionShow(s) ==
  /\ sess[s] = "show"
  /\ shown' = TRUE
  /\ sess' = [sess EXCEPT ![s] = "idle"]
  /\ UNCHANGED <<order, seats, intent, expired, job, hooks>>

SessionStops(s) ==
  /\ sess[s] # "idle"
  /\ sess' = [sess EXCEPT ![s] = "idle"]
  /\ UNCHANGED <<order, seats, intent, shown, expired, job, hooks>>

-----------------------------------------------------------------------------
(* The steps the handlers and the sweeps share.                            *)

At(p, pc) == job[p].pc = pc
GoTo(p, pc) == job' = [job EXCEPT ![p] = IF pc = "idle" THEN Idle ELSE [@ EXCEPT !.pc = pc]]

(* What a thrown error leads to: the sweep marks the row for a person, the *)
(* webhook fails its event row, a request answers with an error.           *)
Rescue(p) == IF job[p].job = "expire" THEN "review"
             ELSE IF job[p].job \in Event THEN "refuse" ELSE "idle"

AfterAllocation(p) == IF job[p].job = "cancel" THEN "request"
                      ELSE IF job[p].job \in Event THEN "complete" ELSE "idle"

(* persistCapturedBundlePayment, on evidence that the intent succeeded.    *)
Capturable == order.status \in {"payment_pending", "paid_allocation_pending", "manual_review"}

Persist(p) ==
  /\ At(p, "persist")
  /\ IF order.pay = "succeeded" \/ Capturable
       THEN /\ order' = IF order.pay = "succeeded" THEN order
                        ELSE [order EXCEPT !.status = "paid_allocation_pending",
                                           !.pay = "succeeded", !.captured = TRUE]
            /\ GoTo(p, "allocate")
       ELSE GoTo(p, Rescue(p)) /\ UNCHANGED order
  /\ UNCHANGED <<seats, intent, shown, expired, sess, hooks>>

Allocated == order.status \in {"confirmed", "cancel_pending"} /\ order.pay = "succeeded"

(* Mutant: children that were given back are allocated all the same.       *)
AllocatableLoosely == order.status = "paid_allocation_pending" /\ order.pay = "succeeded"

(* The counts after the update: every child confirmed and none released.   *)
Allocatable ==
  /\ order.status = "paid_allocation_pending"
  /\ order.pay = "succeeded"
  /\ \A c \in Component : c \notin released /\ child[c] # "cancelled"

Allocate(p) ==
  /\ At(p, "allocate")
  /\ order' = IF Allocatable THEN [order EXCEPT !.status = "confirmed"] ELSE order
  /\ child' = IF Allocatable
                THEN [c \in Component |-> IF c \in released THEN child[c] ELSE "confirmed"]
                ELSE child
  /\ GoTo(p, IF Allocated \/ Allocatable THEN AfterAllocation(p) ELSE Rescue(p))
  /\ UNCHANGED <<released, slot, intent, shown, expired, sess, hooks>>

(* requestPaidBundleCancellation: from here on a refund decides.           *)
Request(p) ==
  /\ At(p, "request")
  /\ order' = IF /\ order.pay = "succeeded"
                 /\ order.status \in {"paid_allocation_pending", "confirmed", "manual_review"}
                THEN [order EXCEPT !.status = "cancel_pending"] ELSE order
  /\ GoTo(p, "idle")
  /\ UNCHANGED <<seats, intent, shown, expired, sess, hooks>>

(* releaseBundleInventory for every component, or an error for all.        *)
SeatsReturnable == \A c \in Component : slot[c] >= 1
ReturnSeats ==
  /\ slot' = [c \in Component |-> slot[c] - 1]
  /\ child' = [c \in Component |-> IF c \in released THEN child[c] ELSE "cancelled"]
  /\ released' = Component

(* releaseUnpaidBundleOrder.                                               *)
Release(p) ==
  /\ At(p, "release")
  /\ IF order.status \in Unsettled /\ order.pay # "succeeded" /\ SeatsReturnable
       THEN ReturnSeats /\ order' = [order EXCEPT !.status = "cancelled", !.pay = "cancelled"]
       ELSE UNCHANGED <<order, seats>>
  /\ GoTo(p, "idle")
  /\ UNCHANGED <<intent, shown, expired, sess, hooks>>

(* Mutant: the mark takes the payment of a paid order with it.             *)
ReviewForgets(p) ==
  /\ At(p, "review")
  /\ order' = [order EXCEPT !.status = "manual_review", !.pay = "manual_review"]
  /\ GoTo(p, "idle")
  /\ UNCHANGED <<seats, intent, shown, expired, sess, hooks>>

(* markBundleManualReview: whatever the order has become meanwhile.        *)
Review(p) ==
  /\ At(p, "review")
  /\ order' = [order EXCEPT !.status = "manual_review",
                            !.pay = IF @ = "succeeded" THEN @ ELSE "manual_review"]
  /\ GoTo(p, "idle")
  /\ UNCHANGED <<seats, intent, shown, expired, sess, hooks>>

(* The provider's answer about the bound intent, or none.                  *)
Retrieve(p) ==
  /\ At(p, "retrieve")
  /\ \/ GoTo(p, CASE job[p].job = "cancel" -> "review" [] job[p].job = "recover" -> "review"
                  [] job[p].job = "expire" -> "flag" [] OTHER -> "idle")
     \/ /\ intent = "succeeded"
        /\ GoTo(p, "persist")
     \/ /\ intent # "succeeded"
        /\ GoTo(p, CASE job[p].job = "cancel" -> IF intent = "canceled" THEN "release" ELSE "cancel"
                     [] job[p].job = "recover" -> IF intent = "canceled" \/ expired THEN "again" ELSE "review"
                     [] job[p].job = "expire" -> "cancel" [] OTHER -> "idle")
  /\ UNCHANGED <<order, seats, intent, shown, expired, sess, hooks>>

(* Mutant: an unanswered cancellation of the intent counts as one.         *)
CancelIntentUnchecked(p) ==
  /\ At(p, "cancel")
  /\ \E canceled \in BOOLEAN :
       /\ StripeCancel(canceled)
       /\ GoTo(p, IF job[p].job = "expire" THEN "expire" ELSE "release")
  /\ UNCHANGED <<order, seats, shown, expired, sess, hooks>>

(* Only a confirmed cancellation lets the release go on.                   *)
CancelIntent(p) ==
  /\ At(p, "cancel")
  /\ \E canceled \in BOOLEAN :
       /\ StripeCancel(canceled)
       /\ GoTo(p, IF job[p].job = "expire" THEN IF canceled THEN "expire" ELSE "flag"
                  ELSE IF canceled THEN "release" ELSE "review")
  /\ UNCHANGED <<order, seats, shown, expired, sess, hooks>>

-----------------------------------------------------------------------------
(* cancelBundleOrder, recoverBundleOrder, confirmBundlePaymentFromProvider. *)

Start(p, name, pc) ==
  /\ job' = [job EXCEPT ![p] = [job |-> name, pc |-> pc]]
  /\ UNCHANGED <<order, seats, intent, shown, expired, sess, hooks>>

(* The gateway may be missing, disabled or no longer the bound one.        *)
CancelRead(p) ==
  /\ At(p, "idle") \/ At(p, "again")
  /\ \/ order.pay = "succeeded" /\ Start(p, "cancel", "request")
     \/ /\ order.pay # "succeeded"
        /\ order.status \in Unsettled
        /\ \/ ~order.pi /\ Start(p, "cancel", "release")
           \/ order.pi /\ Start(p, "cancel", "retrieve")
           \/ order.pi /\ Start(p, "cancel", "review")

RecoverRead(p) ==
  /\ At(p, "idle")
  /\ order.status \notin {"confirmed", "cancelled"}
  /\ IF order.status = "paid_allocation_pending" /\ order.pay = "succeeded"
       THEN Start(p, "recover", "allocate")
       ELSE \/ ~order.pi /\ expired /\ Start(p, "recover", "release")
            \/ ~order.pi /\ ~expired /\ Start(p, "recover", "review")
            \/ order.pi /\ Start(p, "recover", "retrieve")
            \/ order.pi /\ Start(p, "recover", "review")

ConfirmRead(p) == At(p, "idle") /\ order.pi /\ Start(p, "confirm", "retrieve")

-----------------------------------------------------------------------------
(* The webhook of a bundle's PaymentIntent and its claimed event row.      *)

(* The filter of the reclaim: a failed row or an expired lease; completing *)
(* a row ends its lease too.                                               *)
Reclaimable(e) == row[e].status = "failed" \/ ~row[e].leased

HookRead(p, e) ==
  /\ At(p, "idle")
  /\ e \in sent \ acked
  /\ order.pi
  /\ \/ /\ row[e].status = "none"
        /\ row' = [row EXCEPT ![e] = [status |-> "processing", leased |-> TRUE]]
        /\ job' = [job EXCEPT ![p] = [job |-> e, pc |-> IF e = "charged" THEN "persist" ELSE "decline"]]
        /\ UNCHANGED acked
     \/ /\ row[e].status = "completed"
        /\ acked' = acked \cup {e}
        /\ UNCHANGED <<row, job>>
     \/ /\ row[e].status \in {"failed", "processing"}
        /\ Reclaimable(e)
        /\ job' = [job EXCEPT ![p] = [job |-> e, pc |-> "reclaim"]]
        /\ UNCHANGED <<row, acked>>
  /\ UNCHANGED <<order, seats, intent, shown, expired, sess, sent>>

HookReclaim(p) ==
  /\ At(p, "reclaim")
  /\ LET e == job[p].job IN
       IF Reclaimable(e)
         THEN /\ row' = [row EXCEPT ![e] = [status |-> "processing", leased |-> TRUE]]
              /\ GoTo(p, IF e = "charged" THEN "persist" ELSE "decline")
         ELSE GoTo(p, "idle") /\ UNCHANGED row
  /\ UNCHANGED <<order, seats, intent, shown, expired, sess, sent, acked>>

(* failBundlePayment: the hold stays and the intent stays payable.         *)
Decline(p) ==
  /\ At(p, "decline")
  /\ IF order.pay = "succeeded"
       THEN GoTo(p, "refuse") /\ UNCHANGED order
       ELSE GoTo(p, "complete") /\ order' = [order EXCEPT !.pay = "failed"]
  /\ UNCHANGED <<seats, intent, shown, expired, sess, hooks>>

HookComplete(p) ==
  /\ At(p, "complete")
  /\ LET e == job[p].job IN
       /\ row' = IF row[e].status = "processing"
                   THEN [row EXCEPT ![e] = [status |-> "completed", leased |-> FALSE]] ELSE row
       /\ acked' = acked \cup {e}
  /\ GoTo(p, "idle")
  /\ UNCHANGED <<order, seats, intent, shown, expired, sess, sent>>

(* Mutant: a refused event is acknowledged, and Stripe stops delivering it. *)
HookRefuseAcks(p) ==
  /\ At(p, "refuse")
  /\ row' = [row EXCEPT ![job[p].job] = [status |-> "failed", leased |-> FALSE]]
  /\ acked' = acked \cup {job[p].job}
  /\ GoTo(p, "idle")
  /\ UNCHANGED <<order, seats, intent, shown, expired, sess, sent>>

(* failBundleProviderEvent asks nothing of the row: a slow loser turns a   *)
(* completed event into a failed one.                                      *)
HookRefuse(p) ==
  /\ At(p, "refuse")
  /\ row' = [row EXCEPT ![job[p].job] = [status |-> "failed", leased |-> FALSE]]
  /\ GoTo(p, "idle")
  /\ UNCHANGED <<order, seats, intent, shown, expired, sess, sent, acked>>

-----------------------------------------------------------------------------
(* expireStaleBundleOrders and processPendingBundleAllocations.            *)

(* Mutant: an order whose session died on its way to Stripe is passed over. *)
ExpireReadUnclaimed(p) ==
  /\ At(p, "idle")
  /\ order.status \in Held
  /\ expired
  /\ \/ order.pi /\ Start(p, "expire", "retrieve")
     \/ ~order.pi /\ ~order.claimed /\ Start(p, "expire", "expire")
     \/ order.pi /\ Start(p, "expire", "flag")

ExpireRead(p) ==
  /\ At(p, "idle")
  /\ order.status \in Held
  /\ expired
  /\ \/ order.pi /\ Start(p, "expire", "retrieve")
     \/ ~order.pi /\ order.claimed /\ Start(p, "expire", "recreate")
     \/ ~order.pi /\ ~order.claimed /\ Start(p, "expire", "expire")
     \/ (order.pi \/ order.claimed) /\ Start(p, "expire", "flag")

(* The request may have crossed into Stripe and died before the bind.      *)
Recreate(p) ==
  /\ At(p, "recreate")
  /\ CreateIntent
  /\ GoTo(p, "rebind")
  /\ UNCHANGED <<order, seats, shown, expired, sess, hooks>>

Rebind(p) ==
  /\ At(p, "rebind")
  /\ order' = IF order.status \in Held /\ ~order.pi THEN BoundTo(order) ELSE order
  /\ GoTo(p, "reread")
  /\ UNCHANGED <<seats, intent, shown, expired, sess, hooks>>

Reread(p) ==
  /\ At(p, "reread")
  /\ GoTo(p, IF order.pi THEN "cancel" ELSE "flag")
  /\ UNCHANGED <<order, seats, intent, shown, expired, sess, hooks>>

Flag(p) ==
  /\ At(p, "flag")
  /\ order' = IF order.status \in Held
                THEN [order EXCEPT !.status = "manual_review", !.pay = "manual_review",
                                   !.claimed = FALSE]
                ELSE order
  /\ GoTo(p, "idle")
  /\ UNCHANGED <<seats, intent, shown, expired, sess, hooks>>

Expirable == order.status \in Held /\ ~order.claimed

Expire(p) ==
  /\ At(p, "expire")
  /\ IF Expirable /\ SeatsReturnable
       THEN ReturnSeats /\ order' = [order EXCEPT !.status = "cancelled", !.pay = "expired"]
       ELSE UNCHANGED <<order, seats>>
  /\ GoTo(p, IF Expirable /\ ~SeatsReturnable THEN "review" ELSE "idle")
  /\ UNCHANGED <<intent, shown, expired, sess, hooks>>

AllocateRead(p) ==
  /\ At(p, "idle")
  /\ order.status = "paid_allocation_pending" /\ order.pay = "succeeded"
  /\ Start(p, "allocate", "allocate")

-----------------------------------------------------------------------------
(* A process that dies leaves its step to nobody.  An exception, such as a *)
(* provider or database error, ends in the handler's own rescue.           *)
Dies(p) ==
  /\ ~At(p, "idle")
  /\ GoTo(p, "idle")
  /\ UNCHANGED <<order, seats, intent, shown, expired, sess, hooks>>

Throws(p) ==
  /\ job[p].pc # "reclaim"
  /\ Rescue(p) \notin {"idle", job[p].pc}
  /\ GoTo(p, Rescue(p))
  /\ UNCHANGED <<order, seats, intent, shown, expired, sess, hooks>>

Shared(p) ==
  \/ Persist(p) \/ Allocate(p) \/ Request(p) \/ Release(p) \/ Review(p)
  \/ Retrieve(p) \/ CancelIntent(p)

Serve(p) ==
  \/ CancelRead(p) \/ RecoverRead(p) \/ ConfirmRead(p)
  \/ \E e \in Event : HookRead(p, e)
  \/ HookReclaim(p) \/ Decline(p) \/ HookComplete(p) \/ HookRefuse(p)

Sweep(p) ==
  \/ ExpireRead(p) \/ Recreate(p) \/ Rebind(p) \/ Reread(p) \/ Flag(p) \/ Expire(p)
  \/ AllocateRead(p)

Pay(s) ==
  \/ SessionRead(s) \/ SessionClaim(s) \/ SessionCreate(s) \/ SessionBind(s)
  \/ SessionLost(s) \/ SessionCancel(s) \/ SessionFlag(s) \/ SessionShow(s)

Fault ==
  \/ \E s \in Session : SessionStops(s)
  \/ \E p \in Process : Dies(p) \/ Throws(p)

Regular ==
  \/ ChargeSettles \/ HoldExpires \/ LeaseExpires
  \/ \E s \in Session : Pay(s)
  \/ \E p \in Process : Shared(p)
  \/ \E p \in Server : Serve(p)
  \/ \E p \in Sweeper : Sweep(p)

Next == Regular \/ CustomerPays \/ Fault

Spec == Init /\ [][Next]_vars

(* A sweep goes on step by step and app.ts starts the next one every       *)
(* minute; a request does not stay at an await for ever.                   *)
Sweeps(p) == Shared(p) \/ Sweep(p)
Proceeds(p) == ~At(p, "idle") /\ (Shared(p) \/ Serve(p))

(* Stripe settles a charge, delivers an event until it is acknowledged, to *)
(* processes that are free now and then, and a lease runs out.  In the     *)
(* long run the customer stops trying cards, and every step is one that    *)
(* also happens when no process fails.                                     *)
Fairness ==
  /\ \A p \in Sweeper : WF_vars(Sweeps(p))
  /\ \A p \in Server : WF_vars(Proceeds(p)) /\ SF_vars(HookRead(p, "charged"))
  /\ WF_vars(ChargeSettles) /\ WF_vars(LeaseExpires)
  /\ <>[][Regular]_vars

FairSpec == Spec /\ Fairness

-----------------------------------------------------------------------------
(* Properties.                                                             *)

(* All or nothing: a confirmed order has every child confirmed, every      *)
(* departure still counting this party, and the whole charge received      *)
(* (allocateCapturedBundlePayment), whatever races went before.            *)
ConfirmedIsWhole ==
  order.status = "confirmed" =>
    /\ order.captured /\ intent = "succeeded"
    /\ \A c \in Component :
         child[c] = "confirmed" /\ c \notin released /\ slot[c] = Others + 1

(* Captured money is never written back to an unpaid order, neither by a   *)
(* late decline, a late session, a sweep nor a mark for manual review.     *)
CapturedStaysPaid ==
  order.captured => order.pay = "succeeded" /\ intent = "succeeded"

(* The expiry worker gives capacity back only after the order's            *)
(* PaymentIntent is void, also one a dead request left at Stripe: nothing  *)
(* can be charged for an expired order.                                    *)
ExpiredCannotCharge ==
  order.pay = "expired" =>
    /\ intent \notin {"processing", "succeeded"}
    /\ intent = "open" => ~shown

(* An acknowledged payment_intent.succeeded has been recorded: no lease    *)
(* conflict, crash or refused delivery makes Stripe stop too early.        *)
AckMeansCaptured == "charged" \in acked => order.captured

(* A bundle hold ends: the sweep pays it, expires it or gives it to a      *)
(* person, although its steps may die and others work on the order.        *)
HoldEnds == expired ~> order.status \notin Held

(* A charge is recorded, unless the seats had been given back.             *)
ChargeRecorded == intent = "succeeded" ~> order.captured \/ released # {}

(* A cancelled order cannot be charged: its PaymentIntent is cancelled     *)
(* before the hold is released (stripe.service.ts says so of abandoned     *)
(* intents).                                                               *)
CancelledCannotCharge ==
  released # {} => intent \in {"absent", "open", "canceled"} /\ (intent = "open" => ~shown)

=============================================================================
