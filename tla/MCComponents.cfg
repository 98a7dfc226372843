SPECIFICATION MCSpec
CONSTANTS
  MAX_FRAMES = 4
  MAX_SWAP = 8192
  BLOCKS_PER_PAGE = 4
  DISK_BLOCKS_PER_DISK = 16384
  OFFSET1 = 2048
  OFFSET5 = 4096
  Users = {p1, p2}
  MAX_DISK_REQS = 3
  ROTATIONAL_DELAY = 5
  MaxBlock = 2
  MaxLevel = 1
  MaxRequests = 3
  Parts = {"algorithms", "disk", "proc", "pipe", "bcache", "console", "uart", "umalloc", "spinlock"}
  NPROC = 3
  MaxPid = 4
  Creator = parent
  Child = child
  Cpus = {c1, c2}
  tickslock = tickslock
SYMMETRY Symmetric
INVARIANTS
  TypesOK ScanFindsBest  ServesNearest FamilyIntact NumChildIsExact
  NoLostWakeup RingsExact  CacheCoherent HeapSound InterruptsNested
PROPERTIES DiskAverageInBounds
