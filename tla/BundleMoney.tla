----------------------------- MODULE BundleMoney -----------------------------
(***************************************************************************)
(* What the two models of a captured bundle order's money share: the       *)
(* order's own fields, and the payment statuses its operations go by.      *)
(* BundleRefund has the refunds at Stripe, BundleComponents and            *)
(* BundleSettlement what becomes of the components.                        *)
(***************************************************************************)

VARIABLES
  order,        \* the order's own fields
  declined      \* Stripe still delivers the decline of an earlier card

Paid == {"succeeded", "partially_refunded", "refunded"}
Refundable == {"succeeded", "partially_refunded"}

(* failBundlePayment: only "succeeded" protects a paid order.              *)
Decline ==
  /\ declined
  /\ order.pay # "succeeded"
  /\ order' = [order EXCEPT !.pay = "failed"]
  /\ declined' = FALSE
=============================================================================
