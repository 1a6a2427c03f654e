\* Expected violation: a stored event is deleted once the client has queued it, and a restart empties that queue.
SPECIFICATION Spec
CONSTANTS
  MaxOutbox = 2
  BatchSize = 2
  QueueCap = 1
  MaxEvents = 2
  MaxCuts = 1
INVARIANT NoneLost
CHECK_DEADLOCK FALSE
