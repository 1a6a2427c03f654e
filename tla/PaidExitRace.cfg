\* Expected violation: two gates decide before either has stamped.
SPECIFICATION ExitSpec
CONSTANTS
  TopUps = {}
  ParkRows = {s1}
  Callers = {c1}
  JobLimit = 2
  Gates = {g1, g2}
INVARIANTS ExitOncePerPayment
CHECK_DEADLOCK FALSE
