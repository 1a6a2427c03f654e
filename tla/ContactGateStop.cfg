\* Expected violation: a queued OPEN is pulsed after the cut.
SPECIFICATION ContactSpec
CONSTANTS
  StuckTimeout = 2
  AutoClose <- NotSet
  MaxOpenWarn = 3
  AgeCap = 4
  Toggle = FALSE
  HasStop = TRUE
  HasPower = FALSE
  HasLimits = FALSE
  Travel = 1
  Hold = 2
  MaxQueue = 3
  MaxFails = 2
PROPERTY NoMotionAfterCut
