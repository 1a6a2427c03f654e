\* Expected violation: a command redelivered after a restart of the edge is executed again.
SPECIFICATION Spec
CONSTANTS
  Requests = {r1}
  MaxCrashes = 1
INVARIANT FiredOnce
CHECK_DEADLOCK FALSE
