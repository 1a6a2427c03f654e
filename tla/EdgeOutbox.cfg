\* A full outbox, a flush that waits for the channel, and a crash at any statement.
SPECIFICATION FairSpec
CONSTANTS
  MaxOutbox = 2
  BatchSize = 2
  QueueCap = 1
  MaxEvents = 4
  MaxCuts = 2
INVARIANTS Accounted LimitKept
PROPERTIES FlushInOrder OutboxEmpties
CHECK_DEADLOCK FALSE
