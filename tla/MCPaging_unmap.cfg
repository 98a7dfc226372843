SPECIFICATION Spec
CONSTANTS
  Procs = {p1}
  Root = p1
  NoProc = NoProc
  NCPU = 1
  Pages = 2
  NFrames = 3
  MAX_FRAMES = 2
  MAX_SWAP = 4
  Workloads <- MCLazyShrink
  KernelPreempt = FALSE
INVARIANTS UnmapsAnything
