--------------------------- MODULE RefundContract ---------------------------
(***************************************************************************)
(* What refunds do to the totals of an order, whoever asks for them and    *)
(* whatever Stripe answers: an amount is set aside while the price has     *)
(* room for it, and is later set free or paid back; nothing is paid back   *)
(* that was not set aside.                                                 *)
(***************************************************************************)
EXTENDS Integers

CONSTANT Total

VARIABLES
  refunded,     \* paid back
  pending       \* set aside

vars == <<refunded, pending>>

Init == refunded = 0 /\ pending = 0

SetAside(amount) ==
  /\ refunded + pending + amount <= Total
  /\ pending' = pending + amount
  /\ UNCHANGED refunded

SetFree(amount) ==
  /\ amount <= pending
  /\ pending' = pending - amount
  /\ UNCHANGED refunded

PayBack(amount) ==
  /\ amount <= pending
  /\ pending' = pending - amount
  /\ refunded' = refunded + amount

Next == \E amount \in 1..Total : SetAside(amount) \/ SetFree(amount) \/ PayBack(amount)

Spec == Init /\ [][Next]_vars
=============================================================================
