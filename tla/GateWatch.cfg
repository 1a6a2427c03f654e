\* A gate that the edge closes: any sensors, any commands, ticks that may be late.
SPECIFICATION FairWatchSpec
CONSTANTS
  StuckTimeout = 1
  AutoClose = 2
  MaxOpenWarn = 1
  AgeCap = 3
INVARIANT DriveFollowsState
PROPERTIES TravelFaultReported TravelEnds
