\* One worker that may retry once, a webhook and a refund made in the dashboard.
SPECIFICATION FairSpec
CONSTANTS
  Worker = {w1}
  Hook = {h1}
  Admin = {}
  Total = 2
  Amounts = {}
  Foreign = {f1}
  MaxAttempts = 2
CHECK_DEADLOCK FALSE
PROPERTIES
  CancellationAnswered
  ReversalIsSeen
