\* Two departures and one process of each kind, under fairness.
SPECIFICATION FairSpec
CONSTANTS
  Component = {c1, c2}
  Session = {s1}
  Server = {p1}
  Sweeper = {w1}
  Others = 1
CHECK_DEADLOCK FALSE
INVARIANTS
  ConfirmedIsWhole
  CapturedStaysPaid
  ExpiredCannotCharge
PROPERTIES
  HoldEnds
  ChargeRecorded
