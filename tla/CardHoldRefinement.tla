------------------------- MODULE CardHoldRefinement -------------------------
(***************************************************************************)
(* The hold protocol of CardHold implements HoldContract.  Bookings left   *)
(* over from before payment sessions were closed at Stripe were released   *)
(* with a payable intent: the contract is shown nothing of them.           *)
(***************************************************************************)
EXTENDS CardHold

Seats ==
  IF bk.legacy THEN "held"
  ELSE IF bk.status = "confirmed" THEN "sold"
  ELSE IF bk.released THEN "returned" ELSE "held"

Money ==
  IF bk.legacy THEN "none"
  ELSE IF \E n \in Intents : intent[n] = "succeeded" THEN "taken"
  ELSE IF \E n \in Intents : intent[n] = "processing" THEN "moving" ELSE "none"

Contract == INSTANCE HoldContract WITH seats <- Seats, money <- Money

(* Every step of the requests, the sweeps, the webhooks and Stripe is a    *)
(* step of the contract or leaves seats and money alone, and a succeeded   *)
(* charge is eventually answered with a confirmed booking.                 *)
ImplementsContract == Contract!FairSpec
=============================================================================
