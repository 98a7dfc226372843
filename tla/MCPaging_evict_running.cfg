SPECIFICATION Spec
CONSTANTS
  Procs = {p1, p2}
  Root = p1
  NoProc = NoProc
  NCPU = 2
  Pages = 2
  NFrames = 3
  MAX_FRAMES = 2
  MAX_SWAP = 4
  Workloads <- MCGrowFork
  KernelPreempt = TRUE
PROPERTIES EvictsOnlyStopped
