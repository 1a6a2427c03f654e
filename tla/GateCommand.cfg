\* A call with one retry, lossy and repeating MQTT, one restart of the edge.
SPECIFICATION FairSpec
CONSTANTS
  Requests = {r1, r2}
  MaxCrashes = 1
INVARIANTS AckedWasFired FiredOncePerLife FailedNotFired PushedOncePerKey
PROPERTY RowImplemented
CHECK_DEADLOCK FALSE
