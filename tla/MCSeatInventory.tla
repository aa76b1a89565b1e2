--------------------------- MODULE MCSeatInventory ---------------------------
(* SeatInventory on two departures and a few bookings and reservations.    *)
EXTENDS SeatInventory, TLC

Symmetry == Permutations(Booking) \cup Permutations(Hold)
=============================================================================
