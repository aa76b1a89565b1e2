-------------------------- MODULE BundleSettlement --------------------------
(***************************************************************************)
(* What happens to the components of a captured bundle order: their        *)
(* allocation, the suppliers' fulfilment and payouts, what refunds do to   *)
(* each of them, and the disputes about payouts for refunded service.      *)
(*                                                                         *)
(* Every operation is one Mongo transaction, hence one step.  Refund       *)
(* operations are seen from the order: money is set aside, and set free or *)
(* paid back later; how Stripe and the processes get there is              *)
(* BundleRefund's.                                                         *)
(***************************************************************************)
EXTENDS BundleComponents

vars == <<order, comp, child, released, declined>>

OrderDoc ==
  [status: {"paid_allocation_pending", "confirmed", "in_progress", "completed",
            "partially_refunded", "refunded", "cancel_pending", "manual_review"},
   pay: Paid \cup {"failed", "manual_review"},
   refunded: 0..Price,
   pending: 0..Price,           \* refundPendingMinor
   recovery: {"none", "refund", "other"}]   \* why recovery is required

TypeOK ==
  /\ order \in OrderDoc
  /\ DOMAIN comp = Component
  /\ \A c \in Component : comp[c] \in ComponentDoc(c)
  /\ child \in [Component -> {"pending", "confirmed", "completed", "cancelled"}]
  /\ released \in SUBSET Component
  /\ declined \in BOOLEAN

(* As persistCapturedBundlePayment commits the order.                      *)
Init ==
  /\ order = [status |-> "paid_allocation_pending", pay |-> "succeeded",
              refunded |-> 0, pending |-> 0, recovery |-> "other"]
  /\ comp = [c \in Component |-> [status |-> "reserved", refunded |-> 0, part |-> "none",
               settlement |-> "on_hold", paid |-> FALSE, disputed |-> 0, resolved |-> 0]]
  /\ child = [c \in Component |-> "pending"]
  /\ released = {}
  /\ declined \in BOOLEAN

-----------------------------------------------------------------------------
(* Allocation, and how the order falls back from it.                       *)

(* An order that lost its payment status gets it back on evidence, by a    *)
(* redelivered webhook, a confirmation or a recovery.                      *)
Persist ==
  /\ order.pay \notin Paid
  /\ order.status \in {"paid_allocation_pending", "manual_review"}
  /\ order' = [order EXCEPT !.status = "paid_allocation_pending", !.pay = "succeeded",
                            !.recovery = "other"]
  /\ UNCHANGED <<comp, child, released, declined>>

(* Mutant: bookings that were already delivered count as allocated.        *)
AllocatableLoosely == order.status = "paid_allocation_pending" /\ order.pay = "succeeded"

Allocatable ==
  /\ order.status = "paid_allocation_pending"
  /\ order.pay = "succeeded"
  /\ \A c \in Component : c \notin released /\ child[c] \in {"pending", "confirmed"}

Allocate ==
  /\ Allocatable
  /\ child' = [c \in Component |-> "confirmed"]
  /\ comp' = [c \in Component |-> [comp[c] EXCEPT !.status = "confirmed", !.settlement = "on_hold"]]
  /\ order' = [order EXCEPT !.status = "confirmed", !.recovery = "none"]
  /\ UNCHANGED <<released, declined>>

LateDecline == Decline /\ UNCHANGED <<comp, child, released>>

(* recoverBundleOrder, or a cancellation of an order in review, found no   *)
(* gateway or no answer; the mark looks at the order no more, whatever it  *)
(* has become since it was read.                                           *)
Review ==
  /\ order' = [order EXCEPT !.status = "manual_review", !.recovery = "other",
                            !.pay = IF @ = "succeeded" THEN @ ELSE "manual_review"]
  /\ UNCHANGED <<comp, child, released, declined>>

RequestPaidCancellation ==
  /\ order.pay \in Refundable
  /\ order.pending = 0
  /\ order.status \in {"paid_allocation_pending", "confirmed", "in_progress", "completed",
                       "manual_review"}
  /\ order' = [order EXCEPT !.status = "cancel_pending"]
  /\ comp' = [c \in Component |->
       [comp[c] EXCEPT !.status = IF @ \in {"confirmed", "reserved"} THEN "cancel_pending" ELSE @,
                       !.settlement = IF @ \in {"paid", "disputed"} THEN "disputed" ELSE "on_hold"]]
  /\ UNCHANGED <<child, released, declined>>

-----------------------------------------------------------------------------
(* Refunds.                                                                *)

Disputed(cs) == \E c \in Component : cs[c].disputed > 0 \/ cs[c].settlement = "disputed"

Reserve(amount) ==
  /\ order.pay \in Refundable
  /\ order.refunded + order.pending + amount <= Price
  /\ order.status = "cancel_pending" => amount = Price - order.refunded
  /\ order' = [order EXCEPT !.pending = @ + amount]
  /\ UNCHANGED <<comp, child, released, declined>>

ReleaseReservation(amount) ==
  /\ amount <= order.pending
  /\ order' = [order EXCEPT !.pending = @ - amount]
  /\ UNCHANGED <<comp, child, released, declined>>

ScheduleRefundRecovery ==
  /\ order.pending > 0
  /\ order' = [order EXCEPT !.recovery = "refund"]
  /\ UNCHANGED <<comp, child, released, declined>>

(* After a failed refund, and at the start of every sweep.                 *)
ClearResolvedRefundRecovery ==
  /\ order.pending = 0
  /\ order.recovery = "refund"
  /\ \A c \in Component : comp[c].settlement # "disputed"
  /\ order' = [order EXCEPT !.recovery = "none"]
  /\ UNCHANGED <<comp, child, released, declined>>

(* The weights of a refund: what each component's customer price has left. *)
Left == [c \in Component |-> Share[c] - comp[c].refunded]

(* Mutant: what the floors leave over is not handed out.                   *)
PortionFloored(amount, c) == Floors(amount, Left)[c]

Portion(amount, c) == AllocateProportionally(amount, Left)[c]

(* The part of a payout that was for service the customer was refunded.    *)
Target(k, c) ==
  IF ~k.paid THEN 0
  ELSE IF k.part = "full" THEN Net[c]
  ELSE IF Share[c] = 0 THEN 0 ELSE (Net[c] * k.refunded) \div Share[c]

(* Mutant: what was resolved before is claimed from the supplier again.    *)
ExposureUnresolved(k, c) == Target(k, c)

(* That part, less what was recovered or written off of it.                *)
Exposure(k, c) == IF Target(k, c) > k.resolved THEN Target(k, c) - k.resolved ELSE 0

RefundedComponent(amount, c) ==
  LET refunded == comp[c].refunded + Portion(amount, c)
      k == [comp[c] EXCEPT !.refunded = refunded,
                           !.part = IF refunded >= Share[c] THEN "full" ELSE "partial"]
      exposure == Exposure(k, c)
  IN IF k.paid /\ Net[c] > 0
       THEN [k EXCEPT !.disputed = exposure,
                      !.settlement = IF exposure > 0 THEN "disputed"
                                     ELSE IF k.part = "full" THEN "not_eligible" ELSE "paid"]
       ELSE [k EXCEPT !.settlement = IF k.part = "full" THEN "not_eligible" ELSE @]

(* Mutant: a full refund leaves the seats of an unallocated order taken.   *)
ReleasableConfirmed == {c \in Component : comp[c].status \in {"confirmed", "cancel_pending"}}

Releasable == {c \in Component : comp[c].status \in {"reserved", "confirmed", "cancel_pending"}}

(* The refund's transaction, on an answer of Stripe that it succeeded.     *)
Refund(amount) ==
  /\ amount <= order.pending
  /\ LET full == order.refunded + amount = Price
         cancelling == order.status = "cancel_pending" /\ ~full
         gone == IF full THEN Releasable \ released ELSE {}
     IN /\ comp' = [c \in Component |-> RefundedComponent(amount, c)]
        /\ order' = [status |-> IF full THEN "refunded"
                       ELSE IF cancelling THEN "cancel_pending" ELSE "partially_refunded",
                     pay |-> IF full THEN "refunded" ELSE "partially_refunded",
                     refunded |-> order.refunded + amount,
                     pending |-> order.pending - amount,
                     recovery |-> IF Disputed(comp') \/ cancelling THEN "other" ELSE "none"]
        /\ child' = [c \in Component |-> IF c \in gone THEN "cancelled" ELSE child[c]]
        /\ released' = released \cup gone
  /\ UNCHANGED declined

-----------------------------------------------------------------------------
(* Fulfilment, payouts and disputes.                                       *)

Resolved(cs) == \A c \in Component : cs[c].status = "fulfilled" \/ cs[c].part = "full"

FulfilBundleComponent(c) ==
  /\ comp[c].status = "confirmed"
  /\ comp[c].part # "full"
  /\ order.status # "refunded"
  /\ comp' = [comp EXCEPT ![c].status = "fulfilled"]
  /\ child' = [child EXCEPT ![c] = "completed"]
  /\ order' = [order EXCEPT !.status =
       IF Resolved(comp') THEN IF order.refunded = 0 THEN "completed" ELSE "partially_refunded"
       ELSE IF @ = "confirmed" THEN "in_progress" ELSE @]
  /\ UNCHANGED <<released, declined>>

ReleaseBundleSettlement(c) ==
  /\ order.status \in {"completed", "partially_refunded"}
  /\ comp[c].status = "fulfilled"
  /\ comp[c].part # "full"
  /\ comp[c].settlement = "on_hold"
  /\ comp' = [comp EXCEPT ![c].settlement = "payable"]
  /\ UNCHANGED <<order, child, released, declined>>

MarkBundleSettlementPaid(c) ==
  /\ comp[c].settlement = "payable"
  /\ comp' = [comp EXCEPT ![c].settlement = "paid", ![c].paid = TRUE,
                          ![c].disputed = 0, ![c].resolved = 0]
  /\ UNCHANGED <<order, child, released, declined>>

Outstanding(c) == IF comp[c].disputed > 0 THEN comp[c].disputed ELSE Exposure(comp[c], c)

ResolveBundleSettlementDispute(c) ==
  /\ comp[c].settlement = "disputed"
  /\ Outstanding(c) > 0
  /\ comp' = [comp EXCEPT ![c].resolved = @ + Outstanding(c), ![c].disputed = 0,
       ![c].settlement = IF comp[c].part = "full" THEN "not_eligible" ELSE "paid"]
  /\ order' = [order EXCEPT !.recovery = IF Disputed(comp') THEN "other" ELSE "none"]
  /\ UNCHANGED <<child, released, declined>>

Supply(c) ==
  \/ FulfilBundleComponent(c) \/ ReleaseBundleSettlement(c) \/ MarkBundleSettlementPaid(c)
  \/ ResolveBundleSettlementDispute(c)

Next ==
  \/ Persist \/ Allocate \/ LateDecline \/ Review \/ RequestPaidCancellation
  \/ \E amount \in 1..Price : Reserve(amount) \/ ReleaseReservation(amount) \/ Refund(amount)
  \/ ScheduleRefundRecovery \/ ClearResolvedRefundRecovery
  \/ \E c \in Component : Supply(c)

Spec == Init /\ [][Next]_vars
=============================================================================
