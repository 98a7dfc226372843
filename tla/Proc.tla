-------------------------------- MODULE Proc ---------------------------------
(***************************************************************************)
(* The life of processes: fork, exit, wait, kill and sleep                 *)
(* (kernel/proc.c), the system calls that look at the family of a process  *)
(* (kernel/sysproc.c), and the program of the first process (user/init.c). *)
(*                                                                         *)
(* A step is one critical section under some p->lock, while wait_lock is   *)
(* held over several of them and is modelled by its holder.  Every process *)
(* that is neither asleep nor gone may take the next step: which one runs  *)
(* is up to the scheduler (module Mlfq).                                   *)
(***************************************************************************)
EXTENDS Integers, FiniteSets

CONSTANTS NPROC,
          MaxPid      \* bound: the last pid given out

\* NPROC of param.h; the bound lets at least the first process have a pid.
ProcAssumption == NPROC \in Nat \ {0} /\ MaxPid \in Nat \ {0}

Procs == 1..NPROC     \* slots of the process table
initproc == 1
None == 0

VARIABLES
  state, parent, pid, killed, chan,   \* struct proc
  nextpid,
  wait_lock,    \* the process that holds it, or None
  pc,           \* where a process is; "gone" while its slot is unused
  at,           \* the loop variable of the scans of the process table
  np,           \* the child being forked
  havekids, ans,
  shell,        \* user/init.c: the pid of the shell, or 0
  most,         \* history: the live children of p when its getnumchild began
  panic

table == <<state, parent, pid, killed, chan, nextpid>>
locals == <<at, np, havekids, ans, most>>
vars == <<table, wait_lock, pc, locals, shell, panic>>

Labels == {"gone", "user", "fork", "setparent", "setrunnable", "exit", "reparent", "zombie",
           "wait", "scan", "waitsleep", "kill", "count", "counting", "pause", "pausesleep"}

Ticks == -1           \* the channel &ticks

\* The labels at which a process holds wait_lock.
Locked == {"reparent", "zombie", "scan", "waitsleep"}

\* The types; and wait_lock is held exactly by a process inside kexit or kwait
\* that has acquired it and not released it yet.
TypeOK ==
  /\ \A p \in Procs : wait_lock = p <=> pc[p] \in Locked
  /\ state \in [Procs -> {"UNUSED", "USED", "RUNNABLE", "SLEEPING", "ZOMBIE"}]
  /\ parent \in [Procs -> Procs \cup {None}]
  /\ nextpid \in 1..(MaxPid + 1)
  /\ pid \in [Procs -> 0..MaxPid]
  /\ killed \in [Procs -> BOOLEAN]
  /\ chan \in [Procs -> Procs \cup {None, Ticks}]
  /\ wait_lock \in Procs \cup {None}
  /\ pc \in [Procs -> Labels]
  /\ at \in [Procs -> 1..(NPROC + 1)]
  /\ np \in [Procs -> Procs \cup {None}]
  /\ havekids \in [Procs -> BOOLEAN]
  /\ ans \in [Procs -> 0..NPROC] /\ most \in [Procs -> 0..NPROC]
  /\ shell \in 0..MaxPid
  /\ panic \in BOOLEAN

\* userinit has made the first process.
Init ==
  /\ state = [p \in Procs |-> IF p = initproc THEN "RUNNABLE" ELSE "UNUSED"]
  /\ parent = [p \in Procs |-> None]
  /\ pid = [p \in Procs |-> IF p = initproc THEN 1 ELSE 0]
  /\ killed = [p \in Procs |-> FALSE]
  /\ chan = [p \in Procs |-> None]
  /\ nextpid = 2
  /\ wait_lock = None
  /\ pc = [p \in Procs |-> IF p = initproc THEN "user" ELSE "gone"]
  /\ at = [p \in Procs |-> 1]
  /\ np = [p \in Procs |-> None]
  /\ havekids = [p \in Procs |-> FALSE]
  /\ ans = [p \in Procs |-> 0] /\ most = [p \in Procs |-> 0]
  /\ shell = 0
  /\ panic = FALSE

At(p, l) == ~panic /\ state[p] = "RUNNABLE" /\ pc[p] = l
Goto(p, l) == pc' = [pc EXCEPT ![p] = l]

\* p takes wait_lock and starts a scan of the table.
AcquireAndScan(p, l) ==
  /\ wait_lock = None
  /\ wait_lock' = p
  /\ at' = [at EXCEPT ![p] = 1]
  /\ Goto(p, l)

\* state after wakeup(c) by p.
Awake(c, p) == [q \in Procs |-> IF q # p /\ state[q] = "SLEEPING" /\ chan[q] = c THEN "RUNNABLE" ELSE state[q]]

Kids(p) == {q \in Procs : parent[q] = p}
LiveKids(p) == {q \in Kids(p) : state[q] # "ZOMBIE"}

-----------------------------------------------------------------------------
\* The next call of user/init.c, which forks a shell and waits until that exits.
InitCall == IF shell = 0 THEN "fork" ELSE "wait"

\* A process enters the kernel: it exits if it was killed, and otherwise makes
\* a system call.
Trap(p) ==
  /\ At(p, "user")
  /\ IF killed[p] THEN Goto(p, "exit")
     ELSE IF p = initproc THEN Goto(p, InitCall)
     ELSE \E call \in {"fork", "exit", "wait", "kill", "count", "pause"} : Goto(p, call)
  /\ UNCHANGED <<table, wait_lock, locals, shell, panic>>

-----------------------------------------------------------------------------
(* kfork.                                                                  *)

\* freeproc.
Free(i) ==
  /\ state' = [state EXCEPT ![i] = "UNUSED"]
  /\ parent' = [parent EXCEPT ![i] = None]
  /\ pid' = [pid EXCEPT ![i] = 0]
  /\ killed' = [killed EXCEPT ![i] = FALSE]
  /\ chan' = [chan EXCEPT ![i] = None]

\* The critical section of the new slot's lock: allocproc and uvmcopy.
ForkAlloc(p, i) ==
  /\ At(p, "fork")
  /\ state[i] = "UNUSED" /\ nextpid <= MaxPid
  /\ state' = [state EXCEPT ![i] = "USED"]
  /\ pid' = [pid EXCEPT ![i] = nextpid]
  /\ nextpid' = nextpid + 1
  /\ np' = [np EXCEPT ![p] = i]
  /\ Goto(p, "setparent")
  /\ UNCHANGED <<parent, killed, chan, wait_lock, at, havekids, ans, most, shell, panic>>

\* allocproc found no free slot, perhaps because one was freed behind its scan.
\* The first process then exits.
ForkFails(p) ==
  /\ At(p, "fork")
  /\ Goto(p, IF p = initproc THEN "exit" ELSE "user")
  /\ UNCHANGED <<table, wait_lock, locals, shell, panic>>

\* No memory is left: the slot is given back.
ForkNoMemory(p, i) ==
  /\ At(p, "fork")
  /\ state[i] = "UNUSED" /\ nextpid <= MaxPid
  /\ Free(i)
  /\ nextpid' = nextpid + 1
  /\ Goto(p, IF p = initproc THEN "exit" ELSE "user")
  /\ UNCHANGED <<wait_lock, locals, shell, panic>>

SetParent(p) ==
  /\ At(p, "setparent") /\ wait_lock = None
  /\ parent' = [parent EXCEPT ![np[p]] = p]
  /\ Goto(p, "setrunnable")
  /\ UNCHANGED <<state, pid, killed, chan, nextpid, wait_lock, locals, shell, panic>>

SetRunnable(p) ==
  /\ At(p, "setrunnable")
  /\ state' = [state EXCEPT ![np[p]] = "RUNNABLE"]
  /\ pc' = [pc EXCEPT ![np[p]] = "user", ![p] = "user"]
  /\ shell' = IF p = initproc THEN pid[np[p]] ELSE shell
  /\ np' = [np EXCEPT ![p] = None]
  /\ UNCHANGED <<parent, pid, killed, chan, nextpid, wait_lock, at, havekids, ans, most, panic>>

-----------------------------------------------------------------------------
(* kexit.                                                                  *)

ExitBegin(p) ==
  /\ At(p, "exit")
  /\ IF p = initproc THEN panic' = TRUE /\ UNCHANGED <<wait_lock, at, pc>>
     ELSE AcquireAndScan(p, "reparent") /\ UNCHANGED panic
  /\ UNCHANGED <<table, np, havekids, ans, most, shell>>

\* Mutant: the last slot of the table is not visited.
ReparentShort(p) ==
  /\ At(p, "reparent") /\ at[p] <= NPROC
  /\ IF parent[at[p]] = p /\ at[p] < NPROC
     THEN parent' = [parent EXCEPT ![at[p]] = initproc] /\ state' = Awake(initproc, p)
     ELSE UNCHANGED <<parent, state>>
  /\ at' = [at EXCEPT ![p] = @ + 1]
  /\ UNCHANGED <<pid, killed, chan, nextpid, wait_lock, pc, np, havekids, ans, most, shell, panic>>

Reparent(p) ==
  /\ At(p, "reparent") /\ at[p] <= NPROC
  /\ IF parent[at[p]] = p
     THEN parent' = [parent EXCEPT ![at[p]] = initproc] /\ state' = Awake(initproc, p)
     ELSE UNCHANGED <<parent, state>>
  /\ at' = [at EXCEPT ![p] = @ + 1]
  /\ UNCHANGED <<pid, killed, chan, nextpid, wait_lock, pc, np, havekids, ans, most, shell, panic>>

WakeupParent(p) ==
  /\ At(p, "reparent") /\ at[p] > NPROC
  /\ state' = Awake(parent[p], p)
  /\ Goto(p, "zombie")
  /\ at' = [at EXCEPT ![p] = 1]
  /\ UNCHANGED <<parent, pid, killed, chan, nextpid, wait_lock, np, havekids, ans, most, shell, panic>>

\* p->lock is held until the scheduler has left the process.
BecomeZombie(p) ==
  /\ At(p, "zombie")
  /\ state' = [state EXCEPT ![p] = "ZOMBIE"]
  /\ wait_lock' = None
  /\ Goto(p, "gone")
  /\ UNCHANGED <<parent, pid, killed, chan, nextpid, locals, shell, panic>>

-----------------------------------------------------------------------------
(* kwait; sleep(p, &wait_lock) is its last step.                           *)

WaitBegin(p) ==
  /\ At(p, "wait")
  /\ AcquireAndScan(p, "scan")
  /\ chan' = [chan EXCEPT ![p] = None]
  /\ UNCHANGED <<state, parent, pid, killed, nextpid, np, havekids, ans, most, shell, panic>>

\* wait returns the pid, or -1, to p; init.c looks for a new shell or gives up.
WaitReturns(p, wpid) ==
  /\ wait_lock' = None
  /\ at' = [at EXCEPT ![p] = 1]
  /\ havekids' = [havekids EXCEPT ![p] = FALSE]
  /\ Goto(p, IF p = initproc /\ wpid = -1 THEN "exit" ELSE "user")
  /\ shell' = IF p = initproc /\ wpid = shell THEN 0 ELSE shell

\* One iteration: a zombie is reaped, unless its status cannot be copied out.
Scan(p) ==
  /\ At(p, "scan") /\ at[p] <= NPROC
  /\ LET i == at[p]
     IN IF parent[i] = p /\ state[i] = "ZOMBIE"
        THEN \/ /\ Free(i)
                /\ WaitReturns(p, pid[i])
                /\ UNCHANGED nextpid
             \/ /\ p # initproc
                /\ WaitReturns(p, -1)
                /\ UNCHANGED table
        ELSE /\ havekids' = [havekids EXCEPT ![p] = @ \/ parent[i] = p]
             /\ at' = [at EXCEPT ![p] = i + 1]
             /\ UNCHANGED <<table, wait_lock, pc, shell>>
  /\ UNCHANGED <<np, ans, most, panic>>

\* Mutant: wait returns -1 without releasing wait_lock.
NoZombieHolding(p) ==
  /\ At(p, "scan") /\ at[p] > NPROC
  /\ IF ~havekids[p] \/ killed[p] THEN /\ at' = [at EXCEPT ![p] = 1]
                                       /\ Goto(p, "user")
                                       /\ UNCHANGED <<wait_lock, havekids, shell>>
     ELSE Goto(p, "waitsleep") /\ UNCHANGED <<wait_lock, at, havekids, shell>>
  /\ UNCHANGED <<table, np, ans, most, panic>>

NoZombie(p) ==
  /\ At(p, "scan") /\ at[p] > NPROC
  /\ IF ~havekids[p] \/ killed[p] THEN WaitReturns(p, -1)
     ELSE Goto(p, "waitsleep") /\ UNCHANGED <<wait_lock, at, havekids, shell>>
  /\ UNCHANGED <<table, np, ans, most, panic>>

WaitSleep(p) ==
  /\ At(p, "waitsleep")
  /\ state' = [state EXCEPT ![p] = "SLEEPING"]
  /\ chan' = [chan EXCEPT ![p] = p]
  /\ wait_lock' = None
  /\ Goto(p, "wait")
  /\ at' = [at EXCEPT ![p] = 1]
  /\ havekids' = [havekids EXCEPT ![p] = FALSE]
  /\ UNCHANGED <<parent, pid, killed, nextpid, np, ans, most, shell, panic>>

-----------------------------------------------------------------------------
\* kkill meets process i, whose pid is the argument; 0 meets an unused slot.
Kill(p, i) ==
  /\ At(p, "kill")
  /\ killed' = [killed EXCEPT ![i] = TRUE]
  /\ state' = [state EXCEPT ![i] = IF @ = "SLEEPING" THEN "RUNNABLE" ELSE @]
  /\ Goto(p, "user")
  /\ UNCHANGED <<parent, pid, chan, nextpid, wait_lock, locals, shell, panic>>

KillFails(p) ==
  /\ At(p, "kill")
  /\ Goto(p, "user")
  /\ UNCHANGED <<table, wait_lock, locals, shell, panic>>

-----------------------------------------------------------------------------
(* sys_getnumchild holds one p->lock at a time and never wait_lock.        *)

CountBegin(p) ==
  /\ At(p, "count")
  /\ ans' = [ans EXCEPT ![p] = 0]
  /\ most' = [most EXCEPT ![p] = Cardinality(LiveKids(p))]
  /\ Goto(p, "counting")
  /\ UNCHANGED <<table, wait_lock, at, np, havekids, shell, panic>>

\* Mutant: zombies are counted too.
CountZombies(p) ==
  /\ At(p, "counting") /\ at[p] <= NPROC
  /\ ans' = [ans EXCEPT ![p] = IF at[p] \in Kids(p) THEN @ + 1 ELSE @]
  /\ at' = [at EXCEPT ![p] = @ + 1]
  /\ UNCHANGED <<table, wait_lock, pc, np, havekids, most, shell, panic>>

Count(p) ==
  /\ At(p, "counting") /\ at[p] <= NPROC
  /\ ans' = [ans EXCEPT ![p] = IF at[p] \in LiveKids(p) THEN @ + 1 ELSE @]
  /\ at' = [at EXCEPT ![p] = @ + 1]
  /\ UNCHANGED <<table, wait_lock, pc, np, havekids, most, shell, panic>>

CountEnd(p) ==
  /\ At(p, "counting") /\ at[p] > NPROC
  /\ at' = [at EXCEPT ![p] = 1]
  /\ ans' = [ans EXCEPT ![p] = 0] /\ most' = [most EXCEPT ![p] = 0]
  /\ Goto(p, "user")
  /\ UNCHANGED <<table, wait_lock, np, havekids, shell, panic>>

-----------------------------------------------------------------------------
(* sys_pause; clockintr wakes it up.                                       *)

\* The time is over, or the process was killed, or it goes on to sleep.
Pause(p) ==
  /\ At(p, "pause")
  /\ Goto(p, "user") \/ (~killed[p] /\ Goto(p, "pausesleep"))
  /\ chan' = [chan EXCEPT ![p] = None]
  /\ UNCHANGED <<state, parent, pid, killed, nextpid, wait_lock, locals, shell, panic>>

PauseSleep(p) ==
  /\ At(p, "pausesleep")
  /\ state' = [state EXCEPT ![p] = "SLEEPING"]
  /\ chan' = [chan EXCEPT ![p] = Ticks]
  /\ Goto(p, "pause")
  /\ UNCHANGED <<parent, pid, killed, nextpid, wait_lock, locals, shell, panic>>

Tick ==
  /\ ~panic
  /\ state' = Awake(Ticks, None)
  /\ UNCHANGED <<parent, pid, killed, chan, nextpid, wait_lock, pc, locals, shell, panic>>

-----------------------------------------------------------------------------
Fork(p) ==
  \/ \E i \in Procs : ForkAlloc(p, i) \/ ForkNoMemory(p, i)
  \/ ForkFails(p) \/ SetParent(p) \/ SetRunnable(p)
Exit(p) == ExitBegin(p) \/ Reparent(p) \/ WakeupParent(p) \/ BecomeZombie(p)
Wait(p) == WaitBegin(p) \/ Scan(p) \/ NoZombie(p) \/ WaitSleep(p)
KillAny(p) == KillFails(p) \/ \E i \in Procs : Kill(p, i)
GetNumChild(p) == CountBegin(p) \/ Count(p) \/ CountEnd(p)

\* After a panic the machine spins.
Halted == panic /\ UNCHANGED vars

Next ==
  \/ \E p \in Procs : Trap(p) \/ Fork(p) \/ Exit(p) \/ Wait(p) \/ KillAny(p) \/ GetNumChild(p) \/ Pause(p) \/ PauseSleep(p)
  \/ Tick
  \/ Halted

Spec == Init /\ [][Next]_vars

-----------------------------------------------------------------------------
\* The parent of a process exists and has not exited, whatever exits at the
\* same time, so p->parent never names a slot that was freed or given to
\* another process; every process but the first has a parent once it can run.
ParentAlive ==
  \A p \in Procs :
    /\ parent[p] # None => state[parent[p]] \in {"RUNNABLE", "SLEEPING"}
    /\ state[p] \in {"RUNNABLE", "SLEEPING", "ZOMBIE"} /\ p # initproc => parent[p] # None

\* No exit is missed: when nobody holds wait_lock, no process sleeps in wait
\* while it has a child that has exited, even one it inherited while asleep.
NoMissedExit ==
  wait_lock = None =>
    \A p, q \in Procs : state[p] = "SLEEPING" /\ chan[p] = p /\ parent[q] = p => state[q] # "ZOMBIE"

\* The first process exits only if it was killed or could not fork a shell:
\* its wait always finds a child, so wait never fails in user/init.c.
InitHasShell ==
  pc[initproc] \in {"wait", "scan", "waitsleep"} => \E q \in Kids(initproc) : pid[q] = shell

\* kexit, reparent, kwait and kfork leave every family as the code needs it.
FamilyIntact == ParentAlive /\ InitHasShell

\* getnumchild, which reads parents without wait_lock, returns the number of
\* live children at some moment of the call: not more than there were when it
\* began, and not fewer than there are when it ends.
NumChildIsExact ==
  \A p \in Procs :
    pc[p] = "counting" /\ at[p] > NPROC => ans[p] \in Cardinality(LiveKids(p))..most[p]
=============================================================================
