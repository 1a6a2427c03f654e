\* Expected violation: a pulse of another output clears the latch flag.
SPECIFICATION ContactSpec
CONSTANTS
  StuckTimeout = 2
  AutoClose <- NotSet
  MaxOpenWarn = 3
  AgeCap = 4
  Toggle = FALSE
  HasStop = TRUE
  HasPower = FALSE
  HasLimits = FALSE
  Travel = 1
  Hold = 2
  MaxQueue = 3
  MaxFails = 2
INVARIANT LatchedRelayFlagged
