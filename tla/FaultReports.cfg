\* Expected violation: a fault that follows a reboot is not published.
SPECIFICATION ReportSpec
CONSTANTS
  StuckTimeout = 0
  AutoClose <- NotSet
  MaxOpenWarn = 0
  AgeCap = 1
  QueueCap = 1
PROPERTY NewFaultPublished
