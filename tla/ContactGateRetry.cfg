\* Expected violation: a pulse that fails is not retried.
SPECIFICATION ContactSpec
CONSTANTS
  StuckTimeout = 2
  AutoClose <- NotSet
  MaxOpenWarn = 3
  AgeCap = 4
  Toggle = FALSE
  HasStop = TRUE
  HasPower = FALSE
  HasLimits = TRUE
  Travel = 1
  Hold = 2
  MaxQueue = 2
  MaxFails = 2
INVARIANT OrderReachesBoard
