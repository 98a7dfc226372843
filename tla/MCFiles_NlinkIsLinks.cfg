CONSTANTS
    NINODES = 11
    FSSIZE = 20
    NLOG = 1
    BSIZE = 4
    NDIRECT = 2
    NINDIRECT = 4
    IPB = 4
    NINODE = 6
    NPROC = 3
    NFILE = 4
    NOFILE = 3
    NDEV = 10
    MAXOPBLOCKS = 8
    ELF_MAGIC = 9
    Tests = {"grind"}
    Program <- MCProgram
    AfterCrash <- MCAfterCrash
    MaxCrashes <- MCMaxCrashes
    Image <- MCImage
    Parts = {"files"}
    LogProcs = {p1, p2}
    LogBlocks = {b1, b2, b3, b4}
    LogData = {0, 1}
    LogMaxOp = 2
    LOGBLOCKS = 4
    OpBlocks = 1
SPECIFICATION MCSpec
INVARIANTS
    FilesNlinkIsLinks
