SPECIFICATION HFairSpec
CONSTANTS
  NPROC = 2
  NCPU = 2
  MaxLevel = 1
  TimeSlice <- MCOneTick
  BoostTicks = 1
  TickMod = 2
  MaxCalls = 1
INVARIANTS TypeOK OneCpuPerProcess
PROPERTIES LevelMoves BoostReachesWaiters NoStarvation
