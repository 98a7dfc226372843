---------------------------- MODULE MCComponents ----------------------------
(***************************************************************************)
(* The smaller components in one model: every behaviour belongs to one of  *)
(* them, named by the variable part, and leaves the variables that only    *)
(* the others have at "unused".  The bounds of each component are given    *)
(* where it is instantiated.                                               *)
(***************************************************************************)
EXTENDS Integers, FiniteSets, TLC

CONSTANTS Parts,
          NPROC, MaxPid,
          MAX_FRAMES, MAX_SWAP, BLOCKS_PER_PAGE, DISK_BLOCKS_PER_DISK, OFFSET1, OFFSET5,
          MAX_DISK_REQS, ROTATIONAL_DELAY, MaxBlock, MaxLevel, MaxRequests,
          Users, Creator, Child, Cpus, tickslock

ASSUME DiskQueueAssumption ==
  /\ MAX_DISK_REQS \in Nat \ {0} /\ ROTATIONAL_DELAY \in Nat \ {0}
  /\ MaxBlock \in Nat /\ MaxLevel \in Nat

VARIABLES part, pc, panic, killed,
          state, parent, pid, chan, nextpid, wait_lock, at, np, havekids, ans, shell, most,
          input, lock, n, intr,
          reqs, head, policy, total_latency, total_requests, req, tl, avg_disk_latency,
          pi, ends, i, queue, cut,
          buf, lru, desc, free, info, ops, avail, used, irq, disk, todo, b, idx, pinned, truth,
          cons, got, line, edit,
          fifo, txirq, rx, typed, tx_busy, nn, echo, sync,
          freep, ptr, size, brk, live, core, failed,
          cpu, holder, want, lk, trapped, intena, runnable, found, expect

diskVars == <<reqs, head, policy, total_latency, total_requests, req, tl, avg_disk_latency>>
procVars == <<state, parent, pid, chan, nextpid, wait_lock, at, np, havekids, ans, shell, most>>
pipeVars == <<pi, ends, i, queue, cut>>
cacheVars == <<buf, lru, desc, free, info, ops, avail, used, irq, disk, todo, b, idx, pinned,
    truth>>
consoleVars == <<cons, got, line, edit>>
uartVars == <<fifo, txirq, rx, typed, tx_busy, nn, echo, sync>>
mallocVars == <<freep, ptr, size, brk, live, core, failed>>
locksVars == <<cpu, holder, want, lk, trapped, intena, runnable, found, expect>>
MCvars == <<part, input, pc, panic, killed, lock, n, intr, diskVars, procVars, pipeVars, cacheVars,
          consoleVars, uartVars, mallocVars, locksVars>>

\* The calls of the buffer cache's processes: a write, its recycling and a second
\* reader of the block; a pinned block, its installation and enough others to
\* need every buffer; three requests at a time, one more than the descriptors serve.
MCPrograms ==
  {[p \in 1..3 |-> CASE p = 1 -> << <<"write", 1>>, <<"read", 3>> >>
                     [] p = 2 -> << <<"read", 4>> >>
                     [] p = 3 -> << <<"read", 1>> >>],
   [p \in 1..3 |-> CASE p = 1 -> << <<"pin", 1>>, <<"install", 1>>, <<"read", 2>> >>
                     [] p = 2 -> << <<"write", 3>>, <<"read", 2>>, <<"read", 4>> >>
                     [] p = 3 -> << >>],
   [p \in 1..3 |-> << <<"read", p>> >>]}

A == INSTANCE Algorithms WITH Procs <- Users
D == INSTANCE DiskSched WITH Procs <- Users
P == INSTANCE Proc
Pi == INSTANCE Pipe WITH Procs <- {Creator, Child}, Bytes <- {0, 1}, PIPESIZE <- 2, WORD <- 4,
                         Sizes <- {3}
B == INSTANCE BufferCache WITH Procs <- 1..3, Blocks <- 1..4, Data <- {0, 1}, NBUF <- 3, NUM <- 8,
                               Programs <- MCPrograms
C == INSTANCE Console WITH Procs <- Users, INPUT_BUF_SIZE <- 3, WORD <- 6, Sizes <- {2}
U == INSTANCE Uart WITH Procs <- Users, Sizes <- {1, 3}, BATCH <- 2, FIFO <- 3, MaxInput <- 1, input <- rx
M == INSTANCE Umalloc WITH MORECORE <- 4, Break <- 2, Limit <- 14, Requests <- {2, 5}
S == INSTANCE Spinlock WITH Procs <- Users, Locks <- {tickslock}

ASSUME ProcAssumption == P!ProcAssumption
ASSUME PipeAssumption == Pi!PipeAssumption
ASSUME SpinlockAssumption == S!SpinlockAssumption

\* The calls of the scripts are all made.
Finished ==
  /\ part = "bcache"
  /\ \A p \in 1..3 : pc[p] = "idle" /\ (todo[p] # <<>> => B!Kind(p) = "install")
  /\ UNCHANGED MCvars

\* The components whose processes may stop: at the bounds, or killed.
Stopped == part \in {"algorithms", "disk", "pipe", "console", "uart", "umalloc"} /\ UNCHANGED MCvars

\* Nothing tells the CPUs apart, nor the processes of the disk, the console, the
\* UART and the locks; the pipe has its own two processes, which differ.
Symmetric == Permutations(Users) \cup Permutations(Cpus)

NoDisk ==
  /\ reqs = "unused" /\ head = "unused" /\ policy = "unused" /\ total_latency = "unused"
  /\ total_requests = "unused" /\ req = "unused" /\ tl = "unused" /\ avg_disk_latency = "unused"

NoProc ==
  /\ state = "unused" /\ parent = "unused" /\ pid = "unused" /\ chan = "unused"
  /\ nextpid = "unused" /\ wait_lock = "unused" /\ at = "unused" /\ np = "unused"
  /\ havekids = "unused" /\ ans = "unused" /\ shell = "unused" /\ most = "unused"

NoPipe ==
  /\ pi = "unused" /\ ends = "unused" /\ i = "unused" /\ queue = "unused" /\ cut = "unused"

NoCache ==
  /\ buf = "unused" /\ lru = "unused" /\ desc = "unused" /\ free = "unused" /\ info = "unused"
  /\ ops = "unused" /\ avail = "unused" /\ used = "unused" /\ irq = "unused" /\ disk = "unused"
  /\ todo = "unused" /\ b = "unused" /\ idx = "unused" /\ pinned = "unused" /\ truth = "unused"

NoConsole ==
  /\ cons = "unused" /\ got = "unused" /\ line = "unused" /\ edit = "unused"

NoUart ==
  /\ fifo = "unused" /\ txirq = "unused" /\ rx = "unused" /\ typed = "unused" /\ tx_busy = "unused"
  /\ nn = "unused" /\ echo = "unused" /\ sync = "unused"

NoMalloc ==
  /\ freep = "unused" /\ ptr = "unused" /\ size = "unused" /\ brk = "unused" /\ live = "unused"
  /\ core = "unused" /\ failed = "unused"

NoLocks ==
  /\ cpu = "unused" /\ holder = "unused" /\ want = "unused" /\ lk = "unused" /\ trapped = "unused"
  /\ intena = "unused" /\ runnable = "unused" /\ found = "unused" /\ expect = "unused"

\* The parts that have the variables which several parts share.
Has_pc == {"disk", "proc", "pipe", "bcache", "console", "uart", "spinlock"}
Has_panic == {"disk", "proc", "bcache", "spinlock"}
Has_killed == {"proc", "pipe", "console"}
Has_lock == {"pipe", "console"}
Has_n == {"pipe", "console", "uart"}
Has_intr == {"bcache", "uart"}

MCInit ==
  /\ part \in Parts
  /\ IF part = "algorithms" THEN A!Init ELSE input = "unused"
  /\ IF part = "disk" THEN D!Init ELSE NoDisk
  /\ IF part = "proc" THEN P!Init ELSE NoProc
  /\ IF part = "pipe" THEN Pi!Init ELSE NoPipe
  /\ IF part = "bcache" THEN B!Init ELSE NoCache
  /\ IF part = "console" THEN C!Init ELSE NoConsole
  /\ IF part = "uart" THEN U!Init ELSE NoUart
  /\ IF part = "umalloc" THEN M!Init ELSE NoMalloc
  /\ IF part = "spinlock" THEN S!Init ELSE NoLocks
  /\ IF part \in Has_pc THEN TRUE ELSE pc = "unused"
  /\ IF part \in Has_panic THEN TRUE ELSE panic = "unused"
  /\ IF part \in Has_killed THEN TRUE ELSE killed = "unused"
  /\ IF part \in Has_lock THEN TRUE ELSE lock = "unused"
  /\ IF part \in Has_n THEN TRUE ELSE n = "unused"
  /\ IF part \in Has_intr THEN TRUE ELSE intr = "unused"

MCNext ==
  /\ UNCHANGED part
  /\ IF part = "algorithms" THEN TRUE ELSE UNCHANGED input
  /\ IF part = "disk" THEN TRUE ELSE UNCHANGED diskVars
  /\ IF part = "proc" THEN TRUE ELSE UNCHANGED procVars
  /\ IF part = "pipe" THEN TRUE ELSE UNCHANGED pipeVars
  /\ IF part = "bcache" THEN TRUE ELSE UNCHANGED cacheVars
  /\ IF part = "console" THEN TRUE ELSE UNCHANGED consoleVars
  /\ IF part = "uart" THEN TRUE ELSE UNCHANGED uartVars
  /\ IF part = "umalloc" THEN TRUE ELSE UNCHANGED mallocVars
  /\ IF part = "spinlock" THEN TRUE ELSE UNCHANGED locksVars
  /\ IF part \in Has_pc THEN TRUE ELSE UNCHANGED pc
  /\ IF part \in Has_panic THEN TRUE ELSE UNCHANGED panic
  /\ IF part \in Has_killed THEN TRUE ELSE UNCHANGED killed
  /\ IF part \in Has_lock THEN TRUE ELSE UNCHANGED lock
  /\ IF part \in Has_n THEN TRUE ELSE UNCHANGED n
  /\ IF part \in Has_intr THEN TRUE ELSE UNCHANGED intr
  /\ \/ part = "algorithms" /\ A!Next
     \/ part = "disk" /\ D!Next
     \/ part = "proc" /\ P!Next
     \/ part = "pipe" /\ Pi!Next
     \/ part = "bcache" /\ B!Next
     \/ part = "console" /\ C!Next
     \/ part = "uart" /\ U!Next
     \/ part = "umalloc" /\ M!Next
     \/ part = "spinlock" /\ S!Next

MCSpec == MCInit /\ [][MCNext \/ Finished \/ Stopped]_MCvars

-----------------------------------------------------------------------------
In(component, F) == part = component => F

\* The types of the components; wait_lock and pi->lock are held where the code
\* holds them, and bcache's list has every buffer once.
TypesOK ==
  /\ In("disk", D!TypeOK) /\ In("proc", P!TypeOK) /\ In("pipe", Pi!TypeOK) /\ In("bcache", B!TypeOK)

\* The two rounds of clock_evict find the best victim there is, over every frame
\* table.
ScanFindsBest == In("algorithms", A!ScanFindsBest)

\* The address arithmetic of raid_write and raid_read gives every logical block of
\* swap a place of its own, and the offsets keep the RAID modes in regions of
\* their own.
LayoutSound == In("algorithms", A!LayoutInvertible /\ A!ModesApart)

\* disk_schedule_locked takes the request its policy names; and as a process serves
\* what it has queued before it releases diskq.lock, the queue is empty between
\* two requests.
ServesNearest == In("algorithms", A!ServesNearest) /\ In("disk", D!ServedAtOnce)

\* The average latency stored after a request is possible, although the totals go
\* on changing between the two critical sections of disk_submit_and_dispatch.
DiskAverageInBounds == [][In("disk", D!AverageInBounds)]_MCvars

\* The parent of a process is never an unused slot or a zombie, although kexit and
\* reparent, kwait and kfork interleave; and user/init.c always has the shell as
\* a child, so that its wait never fails.
FamilyIntact == In("proc", P!FamilyIntact)

\* sys_getnumchild, which takes no wait_lock, returns a number of live children
\* that was right at some moment of the call.
NumChildIsExact == In("proc", P!NumChildIsExact)

\* No wakeup is lost.  No process sleeps in kwait with a zombie child, in a pipe
\* that lets it go on, for a buffer, a descriptor or the virtio disk without
\* somebody to wake it, for console input that is there or that the full ring
\* keeps out, or for a UART that will not interrupt; and the scheduler executes
\* wfi only with interrupts off.
NoLostWakeup ==
  /\ In("proc", P!NoMissedExit)
  /\ In("pipe", Pi!SleepsOnlyBlocked)
  /\ In("bcache", B!SleepersHaveWaker)
  /\ In("console", C!NeverWedged)
  /\ In("uart", U!SenderWillWake)
  /\ In("spinlock", S!WfiIntrOff)

\* What was written into a ring is what is read from it, in order, although the
\* indices wrap around: the bytes of a pipe, the lines of the console and the text
\* being edited; and the UART is never given more than it holds.
RingsExact ==
  In("pipe", Pi!RingIsQueue) /\ In("console", C!RingIsText) /\ In("uart", U!FifoNeverOverrun)

\* Nothing is freed twice or used after it was freed, and no CPU waits for a lock
\* it holds: neither kfree of a pipe, free_desc, virtio_disk_intr, bget, acquire,
\* release, pop_off nor sched panics.
NeverPanics == In("pipe", Pi!FreedOnce) /\ In("bcache", B!NeverPanics) /\ In("spinlock", S!NeverPanics)

\* A valid buffer of bcache has what was last put into its block, whatever bget
\* recycled since, and a block in no buffer is up to date on the disk.
CacheCoherent == In("bcache", B!CacheCoherent)

\* Free blocks and blocks in use divide the heap of umalloc.c among them, the free
\* list is in order with no two neighbours free, and malloc fails only if nothing
\* fits and sbrk refuses.
HeapSound == In("umalloc", M!HeapPartition /\ M!ListCoalesced /\ M!MallocHonest)

\* noff of a CPU counts the locks it holds, and releasing the last one restores the
\* interrupt enable bit that the thread had, although threads move between CPUs.
InterruptsNested == In("spinlock", S!InterruptsNested)
=============================================================================
