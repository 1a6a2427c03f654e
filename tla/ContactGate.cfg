\* The preset wiring: OPEN, CLOSE, STOP and power contacts and limit switches;
\* any request to the device may fail.
SPECIFICATION FairContactSpec
CONSTANTS
  StuckTimeout = 1
  AutoClose <- NotSet
  MaxOpenWarn = 1
  AgeCap = 2
  Toggle = FALSE
  HasStop = TRUE
  HasPower = TRUE
  HasLimits = TRUE
  Travel = 0
  Hold = 1
  MaxQueue = 2
  MaxFails = 1
INVARIANT BoardFollowsMachine
PROPERTY OpenEnds
