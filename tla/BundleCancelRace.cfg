\* A cancellation that read the order before the payment session bound it.
SPECIFICATION Spec
CONSTANTS
  Component = {c1}
  Session = {s1}
  Server = {p1}
  Sweeper = {w1}
  Others = 1
SYMMETRY Symmetry
CHECK_DEADLOCK FALSE
INVARIANT CancelledCannotCharge
