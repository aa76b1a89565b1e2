--------------------------- MODULE MCCancelRefund ---------------------------
(* CancelRefund on small sets of workers, deliveries and admin requests.   *)
EXTENDS CancelRefund, TLC

Symmetry == Permutations(Worker) \cup Permutations(Hook) \cup Permutations(Admin)

(* Without fairness nothing depends on whether Stripe owes a delivery: a   *)
(* webhook may come at any time.                                           *)
Undelivered == <<bk, spent, op, refund, wk, hk, ad>>
=============================================================================
