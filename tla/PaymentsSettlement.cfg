\* Expected violation: a late refresh revives a cancelled payment of a
\* session that has been paid again.
SPECIFICATION Spec
CONSTANTS
  TopUps = {}
  ParkRows = {s1, s2}
  Callers = {c1, c2}
  JobLimit = 2
INVARIANTS OneSettlement
CHECK_DEADLOCK FALSE
