\* A contact gate: relay link, latch and stuck incidents with a broker that comes and goes.
SPECIFICATION FairIncidentSpec
CONSTANTS
  StuckTimeout = 0
  AutoClose <- NotSet
  MaxOpenWarn = 0
  AgeCap = 1
  QueueCap = 1
INVARIANT LinkReportCurrent
PROPERTY TicksResume
