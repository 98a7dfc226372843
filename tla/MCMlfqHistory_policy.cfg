SPECIFICATION HSpec
CONSTANTS
  NPROC = 2
  NCPU = 1
  MaxLevel = 3
  TimeSlice <- MCTimeSlice
  BoostTicks = 2
  TickMod = 3
  MaxCalls = 2
INVARIANTS SliceNotExhausted BoostOnTime BoundedBypass
PROPERTIES KeepsLevelOnlyIfInteractive
