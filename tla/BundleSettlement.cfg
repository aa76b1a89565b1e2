\* Three components for 2, 3 and nothing, refunded in parts of any size.
SPECIFICATION Spec
CONSTANTS
  Share <- MCShare
  Net <- MCNet
CHECK_DEADLOCK FALSE
INVARIANTS
  PortionsAddUp
  FullRefundFreesSeats
  PaidAfterService
  PayoutIsTracked
