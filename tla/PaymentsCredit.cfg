\* Expected violation: notification and pull refresh both credit a top-up.
SPECIFICATION Spec
CONSTANTS
  TopUps = {t1}
  ParkRows = {}
  Callers = {c1}
  JobLimit = 2
INVARIANTS CreditedOnce
CHECK_DEADLOCK FALSE
