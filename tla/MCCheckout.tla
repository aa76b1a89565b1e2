----------------------------- MODULE MCCheckout -----------------------------
(***************************************************************************)
(* A tour and a package with one key between them and a code that can be   *)
(* used once, and a bundle quote of another site that competes with both   *)
(* for the seats.                                                          *)
(***************************************************************************)
EXTENDS Checkout, TLC

CONSTANTS here, there, tour, package, bundle, k1, b1, b2, d1, d2

MCUses == tour :> {d1} @@ package :> {d2} @@ bundle :> {d1, d2}
MCSite == tour :> here @@ package :> here @@ bundle :> there
MCParty == [i \in Items |-> 1]
MCSeats == [d \in Departures |-> 1]

(* Requests differ in nothing but their names.                             *)
Alike == Permutations(Clients)
=============================================================================
