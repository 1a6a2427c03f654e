\* A top-up and a payment of a session; an API call and the job overlap with
\* notifications and refunds.
SPECIFICATION FairSpec
CONSTANTS
  TopUps = {t1}
  ParkRows = {s1}
  Callers = {c1}
  JobLimit = 2
INVARIANTS SettledAsOrdered CreditsBounded
PROPERTIES OverwrittenByReader PaidOrderSettles
CHECK_DEADLOCK FALSE
