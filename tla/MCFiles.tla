------------------------------ MODULE MCFiles -------------------------------
(***************************************************************************)
(* The file system in one model: a behaviour is either one of the calls    *)
(* above the log (FileSys, running one of the test programs) or one of the *)
(* log itself (Log), as the variable part says.  The variables of Log keep *)
(* an initial value in the former, those of FileSys are "unused" in the    *)
(* latter.                                                                 *)
(***************************************************************************)
EXTENDS FileSys, FsTests

CONSTANTS Parts, LogProcs, LogData, LogBlocks, LOGBLOCKS, LogMaxOp, OpBlocks

VARIABLES part, home, area, head, lh, outstanding, committing, buf, pc, tail, wrote, up, panic

L == INSTANCE Log WITH Procs <- LogProcs, Blocks <- LogBlocks, Data <- LogData, MAXOPBLOCKS <- LogMaxOp

ASSUME LogAssumption == L!LogAssumption /\ LogMaxOp <= LOGBLOCKS

M == INSTANCE Mkfs

\* The image of the build, in small: two ordinary files and a program.
Fsimg == M!Mkfs(<<[name |-> "README", cells |-> <<Cell(1)>>],
                  [name |-> "cat", cells |-> <<Cell(2)>>],
                  [name |-> "echo", cells |-> <<Cell(ELF_MAGIC)>>]>>)
MCImage(t) == Fsimg

MCProgram(t) ==
    CASE t = "truncate1"    -> truncate1
      [] t = "truncate2"    -> truncate2
      [] t = "truncate3"    -> truncate3
      [] t = "iputtest"     -> iputtest
      [] t = "exitiputtest" -> exitiputtest
      [] t = "openiputtest" -> openiputtest
      [] t = "opentest"     -> opentest
      [] t = "writetest"    -> writetest
      [] t = "writebig"     -> writebig(BSIZE, MAXFILE)
      [] t = "createtest"   -> createtest
      [] t = "dirtest"      -> dirtest
      [] t = "sharedfd"     -> sharedfd
      [] t = "fourfiles"    -> fourfiles
      [] t = "createdelete" -> createdelete
      [] t = "unlinkread"   -> unlinkread
      [] t = "linktest"     -> linktest
      [] t = "concreate"    -> concreate
      [] t = "linkunlink"   -> linkunlink(1)
      [] t = "subdir"       -> subdir
      [] t = "bigwrite"     -> bigwrite
      [] t = "bigfile"      -> bigfile
      [] t = "fourteen"     -> fourteen
      [] t = "rmdot"        -> rmdot
      [] t = "dirfile"      -> dirfile
      [] t = "iref"         -> iref
      [] t = "bigdir"       -> bigdir
      [] t = "badwrite"     -> badwrite
      [] t = "diskfull"     -> diskfull(BSIZE, MAXFILE)
      [] t = "outofinodes"  -> outofinodes
      [] t = "grind"        -> grind
      [] t = "forktest"     -> forktest
      [] t = "edges"        -> edges(MAXFILE * BSIZE)
      [] t = "init"         -> init
      [] t = "forphan"      -> forphan
      [] t = "dorphan"      -> dorphan
      [] t = "logstress"    -> logstress

\* After a crash of forphan or dorphan the name is gone and can be used anew.
MCAfterCrash(t) ==
    CASE t = "forphan" -> Do(<<open(<<"file0">>, RDONLY, Whatever), mkdir(<<"new">>, 0)>>)
      [] t = "dorphan" -> Do(<<chdir(<<"dd">>, Whatever)>>)
      [] OTHER         -> <<>>
MCMaxCrashes(t) == CASE t = "dorphan" -> 2
                     [] t \in {"forphan", "logstress"} -> 1
                     [] OTHER -> 0

-----------------------------------------------------------------------------
lvars == <<home, area, head, lh, outstanding, committing, buf, pc, tail, wrote, up, panic>>

Quiet == /\ L!Init
         /\ \A b \in LogBlocks : home[b] = CHOOSE d \in LogData : TRUE
         /\ \A i \in 1 .. LOGBLOCKS : area[i] = CHOOSE d \in LogData : TRUE

NoFiles == /\ fs = "unused" /\ durable = "unused" /\ tx = "unused" /\ lock = "unused"
           /\ ftable = "unused" /\ proc = "unused" /\ th = "unused" /\ test = "unused"
           /\ crashes = "unused" /\ lost = "unused"

MCInit ==
  /\ part \in Parts
  /\ \/ part = "files" /\ Init /\ Quiet
     \/ part = "log" /\ Quiet /\ NoFiles

MCNext ==
  /\ UNCHANGED part
  /\ \/ part = "files" /\ Next /\ UNCHANGED lvars
     \/ part = "log" /\ L!Next /\ UNCHANGED vars

MCvars == <<part, vars, lvars>>

\* Log's fairness, where the log runs.
MCFairness ==
  /\ \A p \in LogProcs :
       /\ WF_MCvars(part = "log" /\ L!EndOp(p) /\ UNCHANGED <<part, vars>>)
       /\ WF_MCvars(part = "log" /\ L!Commit(p) /\ UNCHANGED <<part, vars>>)
       /\ WF_MCvars(part = "log" /\ pc[p] = "begin" /\ L!BeginOp(p) /\ UNCHANGED <<part, vars>>)
  /\ WF_MCvars(part = "log" /\ L!Recover /\ UNCHANGED <<part, vars>>)

MCSpec == MCInit /\ [][MCNext]_MCvars
MCFairSpec == MCSpec /\ MCFairness

-----------------------------------------------------------------------------
InFiles(P) == part = "files" => P

\* The types of FileSys and of Log.
FilesTypeOK == InFiles(TypeOK) /\ L!TypeOK

\* The kernel never stops: no call sequence and no interleaving makes fs.c, file.c,
\* sysfile.c or log.c panic, iput takes the lock of an inode without sleeping while
\* it holds itable.lock, and no system call writes more blocks than begin_op
\* reserved for it, so that log_write never finds the log full.
FilesNeverStop == InFiles(NoPanic /\ IputNeverWaits /\ OpFitsLog) /\ L!LogNeverFull

\* FileSys!DurableConsistent: what the last commit left on the disk is a file
\* system: names lead to allocated inodes, blocks belong to one file.
FilesDurableConsistent == InFiles(DurableConsistent)

\* The inode table and the file table are exact: reference counts are the
\* references that processes, files and current directories hold, and a valid
\* entry has the inode of the disk, also after iput has freed it and ialloc has
\* given the number out again.
FilesTablesExact == InFiles(RefsExact /\ TableCoherent)

\* FileSys!TestsPass: every call of the tests returns what the test demands.
FilesTestsPass == InFiles(TestsPass)

\* FileSys!NoOrphanAfterBoot: after a reboot no inode without a name is left.
FilesNoOrphanAfterBoot == InFiles(NoOrphanAfterBoot)

\* FileSys!NlinkIsLinks: the link count of an inode is the number of its names.
FilesNlinkIsLinks == InFiles(NlinkIsLinks)

\* Log!LogAtomic: the log implements Transactions.
LogAtomic == L!LogAtomic

\* Log!SleepersWake: whoever sleeps in begin_op is woken up.
LogSleepersWake == L!SleepersWake
=============================================================================
