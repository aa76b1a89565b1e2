---------------------------- MODULE HoldContract ----------------------------
(***************************************************************************)
(* What a card hold promises, without requests, sweeps or webhooks: the    *)
(* seats of a booking and the customer's money change hands together.      *)
(* Seats go back on sale only while no money is moving and then for good;  *)
(* money moves only while the seats are held; money that was taken buys    *)
(* exactly the seats it was taken for.                                     *)
(***************************************************************************)

VARIABLES
  seats,    \* "held", "sold" or "returned" to the capacity of the tour
  money     \* "none", "moving" or "taken"

vars == <<seats, money>>

Init == seats = "held" /\ money = "none"

Charge  == seats = "held" /\ money = "none" /\ money' = "moving" /\ UNCHANGED seats
Decline == money = "moving" /\ money' = "none" /\ UNCHANGED seats
Settle  == money = "moving" /\ money' = "taken" /\ UNCHANGED seats
Sell    == seats = "held" /\ money = "taken" /\ seats' = "sold" /\ UNCHANGED money
Return  == seats = "held" /\ money = "none" /\ seats' = "returned" /\ UNCHANGED money

Next == Charge \/ Decline \/ Settle \/ Sell \/ Return

Spec == Init /\ [][Next]_vars

(* Money that was taken does not wait for its seats forever.               *)
FairSpec == Spec /\ WF_vars(Sell)
=============================================================================
