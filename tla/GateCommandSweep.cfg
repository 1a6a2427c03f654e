\* Expected violation: the sweep overwrites an ack committed after its SELECT.
SPECIFICATION Spec
CONSTANTS
  Requests = {r1}
  MaxCrashes = 0
PROPERTY AckKept
CHECK_DEADLOCK FALSE
