\* Two payments of a session, two overlapping API calls, the job and a gate.
SPECIFICATION ExitSpec
CONSTANTS
  TopUps = {}
  ParkRows = {s1, s2}
  Callers = {c1, c2}
  JobLimit = 1
  Gates = {g1}
  MaxExits = 1
INVARIANTS ExitsPaidFor OneInFlight
CONSTRAINT FewExits
SYMMETRY Symmetry
CHECK_DEADLOCK FALSE
