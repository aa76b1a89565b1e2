\* Two workers, two addresses, two attempts, both audiences.
SPECIFICATION Spec
CONSTANTS
  Worker = {w1, w2}
  Address = {x, y}
  NoAddress = NoAddress
  NoWorker = NoWorker
  MaxAttempts = 2
SYMMETRY Symmetry
CHECK_DEADLOCK FALSE
INVARIANTS
  AtMostOnce
  MailIsBacked
PROPERTIES
  OutcomesStand
