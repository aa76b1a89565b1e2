\* Two payment requests and a sweep against one booking, fresh or left over
\* from the old release, under the fairness of the sweeps and of Stripe.
SPECIFICATION FairSpec
CONSTANTS
  Handler = {h1, h2}
  Sweeper = {s1}
  MaxIntents = 2
CHECK_DEADLOCK FALSE
INVARIANTS
  ReleasedCannotCharge
  ChargeIsFinalizable
  OneIntentPerBooking
  CancelExcludesPayment
  ClosedMeansVoid
PROPERTIES
  HoldEnds
  ImplementsContract
