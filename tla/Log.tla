-------------------------------- MODULE Log ---------------------------------
(***************************************************************************)
(* The redo log of the file system (kernel/log.c), with crashes.           *)
(*                                                                         *)
(* A step is one critical section under log.lock or one write of a disk    *)
(* block, which is atomic.  buf holds the pinned buffers of the cache; any *)
(* other buffer may be recycled at any time, so its block is read from the *)
(* disk.  Processes sleep and wake up in begin_op; a process outside the   *)
(* log is at "out".                                                        *)
(***************************************************************************)
EXTENDS Integers, Sequences, FiniteSets, Functions

CONSTANTS Procs, Blocks, Data,
          MAXOPBLOCKS, LOGBLOCKS,
          OpBlocks            \* how many different blocks a system call writes at most

\* "max # of blocks any FS op writes": a system call stays below what begin_op
\* reserves for it.
LogAssumption ==
  /\ MAXOPBLOCKS \in Nat /\ LOGBLOCKS \in Nat /\ OpBlocks \in Nat
  /\ OpBlocks < MAXOPBLOCKS
  /\ IsFiniteSet(Procs)

VARIABLES
  home, area, head,            \* the disk: the blocks, the log blocks, the header block
  lh, outstanding, committing, \* struct log
  buf,                         \* the pinned buffers
  pc, tail, wrote,             \* the processes; tail is the loop variable of commit
  up,                          \* whether recovery is over
  panic

disk == <<home, area, head>>
vars == <<home, area, head, lh, outstanding, committing, buf, pc, tail, wrote, up, panic>>

Committers == {"writelog", "writehead", "install", "clear", "done"}

TypeOK ==
  /\ home \in [Blocks -> Data]
  /\ area \in [1..LOGBLOCKS -> Data]
  /\ head \in Seq(Blocks) /\ Len(head) <= LOGBLOCKS
  /\ lh \in Seq(Blocks) /\ Len(lh) <= LOGBLOCKS
  /\ outstanding \in Nat /\ committing \in BOOLEAN
  /\ DOMAIN buf \subseteq Blocks /\ \A b \in DOMAIN buf : buf[b] \in Data
  /\ pc \in [Procs -> {"out", "asleep", "begin", "op"} \cup Committers]
  /\ tail \in 1..(LOGBLOCKS + 1)
  /\ wrote \in [Procs -> SUBSET Blocks]
  /\ up \in BOOLEAN /\ panic \in BOOLEAN

\* The machine boots from a disk that mkfs made: the log was never used.
Init ==
  /\ home \in [Blocks -> Data]
  /\ \E d \in Data : area = [i \in 1..LOGBLOCKS |-> d]
  /\ head = <<>> /\ lh = <<>>
  /\ outstanding = 0 /\ committing = FALSE
  /\ buf = [b \in {} |-> 0]
  /\ pc = [p \in Procs |-> "out"]
  /\ tail = 1
  /\ wrote = [p \in Procs |-> {}]
  /\ up = TRUE /\ panic = FALSE

\* What bread(b) returns.
View(b) == IF b \in DOMAIN buf THEN buf[b] ELSE home[b]

At(p, l) == ~panic /\ up /\ pc[p] = l
Goto(p, l) == pc' = [pc EXCEPT ![p] = l]

\* p goes to l and the processes asleep on &log wake up.
WakeupAnd(p, l) == pc' = [q \in Procs |-> IF q = p THEN l ELSE IF pc[q] = "asleep" THEN "begin" ELSE pc[q]]

-----------------------------------------------------------------------------
\* A system call, or a woken process, enters begin_op.
BeginOp(p) ==
  /\ At(p, "out") \/ At(p, "begin")
  /\ IF committing \/ Len(lh) + (outstanding + 1) * MAXOPBLOCKS > LOGBLOCKS
     THEN Goto(p, "asleep") /\ UNCHANGED outstanding
     ELSE Goto(p, "op") /\ outstanding' = outstanding + 1
  /\ UNCHANGED <<disk, lh, committing, buf, tail, wrote, up, panic>>

\* The system call changes block b and calls log_write.
LogWrite(p, b, v) ==
  /\ At(p, "op")
  /\ Cardinality(wrote[p] \cup {b}) <= OpBlocks
  /\ IF Len(lh) >= LOGBLOCKS \/ outstanding < 1
     THEN panic' = TRUE /\ UNCHANGED <<lh, buf, wrote>>
     ELSE /\ lh' = IF b \in Range(lh) THEN lh ELSE Append(lh, b)
          /\ buf' = [c \in DOMAIN buf \cup {b} |-> IF c = b THEN v ELSE buf[c]]
          /\ wrote' = [wrote EXCEPT ![p] = @ \cup {b}]
          /\ UNCHANGED panic
  /\ UNCHANGED <<disk, outstanding, committing, pc, tail, up>>

EndOp(p) ==
  /\ At(p, "op")
  /\ outstanding' = outstanding - 1
  /\ wrote' = [wrote EXCEPT ![p] = {}]
  /\ IF committing THEN panic' = TRUE /\ UNCHANGED <<committing, pc, tail>>
     ELSE /\ IF outstanding = 1
             THEN /\ committing' = TRUE
                  /\ Goto(p, IF lh = <<>> THEN "done" ELSE "writelog")
             ELSE WakeupAnd(p, "out") /\ UNCHANGED committing
          /\ tail' = 1
          /\ UNCHANGED panic
  /\ UNCHANGED <<disk, lh, buf, up>>

-----------------------------------------------------------------------------
(* commit.                                                                 *)

\* Mutant: the last block is not copied to the log.
WriteLogShort(p) ==
  /\ At(p, "writelog")
  /\ area' = [area EXCEPT ![tail] = View(lh[tail])]
  /\ IF tail + 1 >= Len(lh) THEN tail' = 1 /\ Goto(p, "writehead")
     ELSE tail' = tail + 1 /\ UNCHANGED pc
  /\ UNCHANGED <<home, head, lh, outstanding, committing, buf, wrote, up, panic>>

WriteLog(p) ==
  /\ At(p, "writelog")
  /\ area' = [area EXCEPT ![tail] = View(lh[tail])]
  /\ IF tail = Len(lh) THEN tail' = 1 /\ Goto(p, "writehead")
     ELSE tail' = tail + 1 /\ UNCHANGED pc
  /\ UNCHANGED <<home, head, lh, outstanding, committing, buf, wrote, up, panic>>

WriteHead(p) ==
  /\ At(p, "writehead")
  /\ head' = lh
  /\ Goto(p, "install")
  /\ UNCHANGED <<home, area, lh, outstanding, committing, buf, tail, wrote, up, panic>>

\* The block is written home and unpinned.
InstallTrans(p) ==
  /\ At(p, "install")
  /\ home' = [home EXCEPT ![lh[tail]] = area[tail]]
  /\ buf' = [b \in DOMAIN buf \ {lh[tail]} |-> buf[b]]
  /\ IF tail = Len(lh) THEN tail' = 1 /\ Goto(p, "clear")
     ELSE tail' = tail + 1 /\ UNCHANGED pc
  /\ UNCHANGED <<area, head, lh, outstanding, committing, wrote, up, panic>>

ClearHead(p) ==
  /\ At(p, "clear")
  /\ lh' = <<>> /\ head' = <<>>
  /\ Goto(p, "done")
  /\ UNCHANGED <<home, area, outstanding, committing, buf, tail, wrote, up, panic>>

\* Mutant: nobody is woken up.
CommitDoneSilent(p) ==
  /\ At(p, "done")
  /\ committing' = FALSE
  /\ Goto(p, "out")
  /\ UNCHANGED <<disk, lh, outstanding, buf, tail, wrote, up, panic>>

CommitDone(p) ==
  /\ At(p, "done")
  /\ committing' = FALSE
  /\ WakeupAnd(p, "out")
  /\ UNCHANGED <<disk, lh, outstanding, buf, tail, wrote, up, panic>>

-----------------------------------------------------------------------------
(* A crash loses everything but the disk; initlog recovers, and may itself *)
(* be cut short.                                                           *)

\* The machine stops and boots again as far as read_head.
Crash ==
  /\ ~panic
  /\ up' = FALSE
  /\ lh' = head
  /\ outstanding' = 0 /\ committing' = FALSE
  /\ buf' = [b \in {} |-> 0]
  /\ pc' = [p \in Procs |-> "out"]
  /\ tail' = 1
  /\ wrote' = [p \in Procs |-> {}]
  /\ UNCHANGED <<disk, panic>>

RecoverInstall ==
  /\ ~up /\ tail <= Len(lh)
  /\ home' = [home EXCEPT ![lh[tail]] = area[tail]]
  /\ tail' = tail + 1
  /\ UNCHANGED <<area, head, lh, outstanding, committing, buf, pc, wrote, up, panic>>

RecoverClear ==
  /\ ~up /\ tail > Len(lh)
  /\ lh' = <<>> /\ head' = <<>>
  /\ up' = TRUE
  /\ tail' = 1
  /\ UNCHANGED <<home, area, outstanding, committing, buf, pc, wrote, panic>>

-----------------------------------------------------------------------------
Commit(p) == WriteLog(p) \/ WriteHead(p) \/ InstallTrans(p) \/ ClearHead(p) \/ CommitDone(p)
Recover == RecoverInstall \/ RecoverClear

Next ==
  \/ \E p \in Procs : BeginOp(p) \/ EndOp(p) \/ Commit(p) \/ \E b \in Blocks, v \in Data : LogWrite(p, b, v)
  \/ Crash
  \/ Recover

Spec == Init /\ [][Next]_vars

\* A system call ends, a commit and a recovery proceed, a woken process runs.
Fairness ==
  /\ \A p \in Procs : WF_vars(EndOp(p)) /\ WF_vars(Commit(p)) /\ WF_vars(pc[p] = "begin" /\ BeginOp(p))
  /\ WF_vars(Recover)

FairSpec == Spec /\ Fairness

-----------------------------------------------------------------------------
\* The blocks as recovery would leave them.
Durable ==
  [b \in Blocks |-> IF b \in Range(head) THEN area[CHOOSE i \in 1..Len(head) : head[i] = b] ELSE home[b]]

Current == IF up THEN [b \in Blocks |-> View(b)] ELSE Durable

T == INSTANCE Transactions WITH durable <- Durable, current <- Current,
                                active <- {p \in Procs : pc[p] = "op"}

\* The log makes system calls atomic (Transactions): a crash at any point of
\* commit, install_trans or recover_from_log leaves all of the last committed
\* changes on the disk and nothing of the later ones, and a commit takes place
\* only while no system call is between begin_op and end_op.
LogAtomic == T!Spec

\* What begin_op reserves is enough: log_write never finds the log full and
\* end_op never meets a commit, because a system call writes fewer than
\* MAXOPBLOCKS blocks.
LogNeverFull == ~panic

\* Every process that sleeps in begin_op is woken up: by the end of the commit,
\* or by an end_op that gives back reserved space.
SleepersWake == \A p \in Procs : pc[p] = "asleep" ~> pc[p] # "asleep"
=============================================================================
