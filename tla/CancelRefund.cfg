\* Two overlapping workers, a webhook and an admin refunding half of the price.
SPECIFICATION Spec
CONSTANTS
  Worker = {w1, w2}
  Hook = {h1}
  Admin = {a1}
  Total = 2
  Amounts = {1}
  Foreign = {}
  MaxAttempts = 1
SYMMETRY Symmetry
VIEW Undelivered
CHECK_DEADLOCK FALSE
INVARIANTS
  OneProviderAttempt
  CompletedMeansCancelled
  SpentMatchesRefunds
  LedgerIsTrue
PROPERTIES
  CancelledIsRefunded
  NeverBackwards
