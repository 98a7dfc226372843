SPECIFICATION HSpec
CONSTANTS
  NPROC = 2
  NCPU = 1
  MaxLevel = 3
  TimeSlice <- MCTimeSlice
  BoostTicks = 4
  TickMod = 16
  MaxCalls = 2
PROPERTIES InteractiveNotDemoted
