\* Two storefront bookings and one OCTO reservation on two departures.
SPECIFICATION Spec
CONSTANTS
  Booking = {b1, b2}
  Hold = {h1}
  Slot = {s1, s2}
  LegacySlot = {s1}
  Capacity = 3
  MaxParty = 2
SYMMETRY Symmetry
CHECK_DEADLOCK FALSE
INVARIANTS
  SeatsAccounted
  AdvertisedIsBookable
  ResellerCancelHolds
PROPERTIES
  BlockedStaysClosed
