SPECIFICATION Spec
CONSTANTS
  MAX_SWAP = 2
  BLOCKS_PER_PAGE = 2
  DISK_BLOCKS_PER_DISK = 8
  OFFSET1 = 1
  OFFSET5 = 5
  Actors = {a1, a2}
  NoActor = NoActor
  NoPage = NoPage
  Pages <- MCPages
SYMMETRY ActorSymmetry
INVARIANTS TypeOK   
