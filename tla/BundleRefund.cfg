\* An order for 2 with a refund of 1 and one of 2, an admin's request and a
\* sweep; Stripe forgets the key of the first, or takes its money back.
SPECIFICATION FairSpec
CONSTANTS
  Total = 2
  o1 = o1
  o2 = o2
  Operation = {o1, o2}
  Amount <- AmountOneAndTwo
  Aged = {o1}
  Caller = {p1}
  Sweeper = {w1}
CHECK_DEADLOCK FALSE
INVARIANTS
  RefundedIsBacked
PROPERTIES
  CancellationRefundsRest
  RefundSettles
