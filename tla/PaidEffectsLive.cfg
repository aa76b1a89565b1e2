\* One worker, which may die in every attempt, and both audiences.
SPECIFICATION FairSpec
CONSTANTS
  Worker = {w1}
  Address = {x}
  NoAddress = NoAddress
  NoWorker = NoWorker
  MaxAttempts = 3
CHECK_DEADLOCK FALSE
PROPERTIES
  EffectsSettle
