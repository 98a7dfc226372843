-------------------------------- MODULE Mlfq --------------------------------
(***************************************************************************)
(* The system-call-aware multi-level feedback queue scheduler: scheduler,  *)
(* priority_boost and yield of kernel/proc.c, the timer path of usertrap,  *)
(* kerneltrap and clockintr of kernel/trap.c, and the system call counter  *)
(* of kernel/syscall.c.                                                    *)
(*                                                                         *)
(* There are no queues: a process carries its level, and every CPU scans   *)
(* the process table once per level.  A step is one critical section under *)
(* the p->lock of the process it touches, so the scans of several CPUs,    *)
(* the boost loop and the timer interrupts interleave between any two      *)
(* iterations of a loop.                                                   *)
(*                                                                         *)
(* Two differences are kept instead of two counters, because the code only *)
(* ever reads the difference:                                              *)
(*   newcalls[p]  p->syscount - p->temp, saturated at MaxCalls.  It is     *)
(*                compared with at most a whole time slice, so saturation  *)
(*                above the longest slice decides nothing differently.     *)
(*   ticks, last_boost  are unsigned: they are kept modulo TickMod (2^32   *)
(*                in the code) and so is their difference.                 *)
(* The statistics ticks[4] and no_of_schedules steer nothing and are left  *)
(* out; fork, sleep, wakeup and exit appear as far as they hand a process  *)
(* to the scheduler or take it away.                                       *)
(***************************************************************************)
EXTENDS Naturals

CONSTANTS NPROC,       \* slots of the process table
          NCPU,        \* CPUs; CPU 0 keeps the time
          MaxLevel,    \* the lowest priority level, 3 in the code
          TimeSlice,   \* TimeSlice[l]: ticks of a slice at level l
          BoostTicks,  \* ticks between two boosts, 128 in the code
          TickMod,     \* the tick counter wraps at TickMod
          MaxCalls     \* newcalls saturates here

Procs == 1..NPROC
CPUs == 0..(NCPU - 1)
Levels == 0..MaxLevel

ASSUME SizeAssumption == NPROC \in Nat \ {0} /\ NCPU \in Nat \ {0} /\ MaxLevel \in Nat
ASSUME SliceAssumption == TimeSlice \in [Levels -> Nat \ {0}]
ASSUME TickAssumption == BoostTicks \in Nat \ {0} /\ TickMod \in Nat /\ BoostTicks < TickMod
ASSUME CallsAssumption == MaxCalls \in Nat /\ \A l \in Levels : TimeSlice[l] <= MaxCalls

NoProc == 0     \* c->proc = 0

VARIABLES
  state,             \* p->state
  cur_queue_lvl,     \* p->cur_queue_lvl
  ticks_each_level,  \* p->ticks_each_level
  newcalls,          \* p->syscount - p->temp
  mode,              \* p is in user code, inside a system call, or in the
                     \* kexit that usertrap calls for a killed process
  proc,              \* c->proc
  pc,                \* what CPU c executes
  scan,              \* the level and index of CPU c's scheduler loops
  found,             \* the scheduler's found, a local variable of one pass
  intr,              \* interrupts are enabled during CPU c's pass
  boostAt,           \* index of priority_boost's loop, run by CPU 0 only
  resume,            \* where CPU 0's handler goes on after that loop
  ticks,             \* the global tick counter
  last_boost         \* clockintr's static last_boost

procVars == <<state, cur_queue_lvl, ticks_each_level, newcalls, mode>>
cpuVars == <<proc, pc, scan, found, intr>>
clockVars == <<boostAt, resume, ticks, last_boost>>
vars == <<procVars, cpuVars, clockVars>>

States == {"UNUSED", "SLEEPING", "RUNNABLE", "RUNNING", "ZOMBIE"}

\* "start": top of the scheduler's loop.  "scan": inside the two for loops.
\* "idle": wfi.  "run": executing proc[c].  The rest are the stages of the
\* timer interrupt: the boost loop, usertrap's accounting, yield.
PCs == {"start", "scan", "idle", "run", "boost", "account", "yield"}

TypeOK ==
  /\ state \in [Procs -> States]
  /\ cur_queue_lvl \in [Procs -> Levels]
  /\ ticks_each_level \in [Procs -> Nat]
  /\ newcalls \in [Procs -> 0..MaxCalls]
  /\ mode \in [Procs -> {"user", "kernel", "exit"}]
  /\ proc \in [CPUs -> Procs \cup {NoProc}]
  /\ pc \in [CPUs -> PCs]
  /\ scan \in [CPUs -> Levels \X Procs]
  /\ found \in [CPUs -> BOOLEAN]
  /\ intr \in [CPUs -> BOOLEAN]
  /\ boostAt \in Procs
  /\ resume \in PCs
  /\ ticks \in 0..(TickMod - 1)
  /\ last_boost \in 0..(TickMod - 1)

\* userinit: the first process is runnable, every CPU enters scheduler().
Init ==
  /\ state = [p \in Procs |-> IF p = 1 THEN "RUNNABLE" ELSE "UNUSED"]
  /\ cur_queue_lvl = [p \in Procs |-> 0]
  /\ ticks_each_level = [p \in Procs |-> 0]
  /\ newcalls = [p \in Procs |-> 0]
  /\ mode = [p \in Procs |-> "user"]
  /\ proc = [c \in CPUs |-> NoProc]
  /\ pc = [c \in CPUs |-> "start"]
  /\ scan = [c \in CPUs |-> <<0, 1>>]
  /\ found = [c \in CPUs |-> FALSE]
  /\ intr = [c \in CPUs |-> FALSE]
  /\ boostAt = 1
  /\ resume = "start"
  /\ ticks = 0
  /\ last_boost = 0

-----------------------------------------------------------------------------
(***************************************************************************)
(* The scheduler's loops                                                   *)
(***************************************************************************)

\* intr_on(); intr_off(); found = 0; level = 0; p = proc.
StartPass(c) ==
  /\ pc[c] = "start"
  /\ pc' = [pc EXCEPT ![c] = "scan"]
  /\ scan' = [scan EXCEPT ![c] = <<0, 1>>]
  /\ found' = [found EXCEPT ![c] = FALSE]
  /\ intr' = [intr EXCEPT ![c] = FALSE]
  /\ UNCHANGED <<procVars, proc, clockVars>>

\* Mutant: after a process ran, the pass starts over.
NextProbeRestart(c, ran) ==
  LET lvl == scan[c][1]
      p == scan[c][2]
      next == IF ran THEN <<0, 1>>
              ELSE IF p < NPROC THEN <<lvl, p + 1>>
              ELSE IF lvl < MaxLevel THEN <<lvl + 1, 1>> ELSE <<0, 1>>
  IN /\ scan' = [scan EXCEPT ![c] = next]
     /\ pc' = [pc EXCEPT ![c] = IF ran THEN "start" ELSE IF next = <<0, 1>> THEN "idle" ELSE "scan"]

\* p++, and at the end of the table level++; after the last level the pass is
\* over and a CPU that found nothing executes wfi.
NextProbe(c, ran) ==
  LET lvl == scan[c][1]
      p == scan[c][2]
  IN IF p < NPROC
     THEN /\ scan' = [scan EXCEPT ![c] = <<lvl, p + 1>>]
          /\ pc' = [pc EXCEPT ![c] = "scan"]
     ELSE IF lvl < MaxLevel
     THEN /\ scan' = [scan EXCEPT ![c] = <<lvl + 1, 1>>]
          /\ pc' = [pc EXCEPT ![c] = "scan"]
     ELSE /\ scan' = [scan EXCEPT ![c] = <<0, 1>>]
          /\ pc' = [pc EXCEPT ![c] = IF ran THEN "start" ELSE "idle"]

\* found and intr in the rest of the pass.  After the last probe both are dead:
\* the next pass sets them.
InPass(c, f, on) ==
  LET more == scan[c] # <<MaxLevel, NPROC>>
  IN /\ found' = [found EXCEPT ![c] = f /\ more]
     /\ intr' = [intr EXCEPT ![c] = on /\ more]

\* Mutant: a process that another CPU runs is taken as well.
EligibleRunning(c) ==
  LET p == scan[c][2] IN state[p] \in {"RUNNABLE", "RUNNING"} /\ cur_queue_lvl[p] = scan[c][1]

Eligible(c) ==
  LET p == scan[c][2] IN state[p] = "RUNNABLE" /\ cur_queue_lvl[p] = scan[c][1]

\* The probed process is not RUNNABLE at this level.
Skip(c) ==
  /\ pc[c] = "scan"
  /\ ~Eligible(c)
  /\ NextProbe(c, found[c])
  /\ InPass(c, found[c], intr[c])
  /\ UNCHANGED <<procVars, proc, clockVars>>

\* Switch to the probed process; p->temp = p->syscount.
Dispatch(c) ==
  LET p == scan[c][2] IN
  /\ pc[c] = "scan"
  /\ Eligible(c)
  /\ state' = [state EXCEPT ![p] = "RUNNING"]
  /\ proc' = [proc EXCEPT ![c] = p]
  /\ newcalls' = [newcalls EXCEPT ![p] = 0]
  /\ pc' = [pc EXCEPT ![c] = "run"]
  /\ intr' = [intr EXCEPT ![c] = FALSE]
  /\ UNCHANGED <<cur_queue_lvl, ticks_each_level, mode, scan, found, clockVars>>

\* The return from swtch: c->proc = 0, found = 1, release(&p->lock), which
\* re-enables interrupts if the departing process had them on.
BackToScheduler(c, on) ==
  /\ proc' = [proc EXCEPT ![c] = NoProc]
  /\ InPass(c, TRUE, on)
  /\ NextProbe(c, TRUE)

-----------------------------------------------------------------------------
(***************************************************************************)
(* The process running on CPU c                                            *)
(***************************************************************************)

RunningIn(c, m) == pc[c] = "run" /\ mode[proc[c]] = m

InKernel(c) == RunningIn(c, "kernel") \/ RunningIn(c, "exit")

\* usertrap, scause 8: syscall() counts the call before it dispatches it.
Syscall(c) ==
  LET p == proc[c] IN
  /\ RunningIn(c, "user")
  /\ mode' = [mode EXCEPT ![p] = "kernel"]
  /\ newcalls' = [newcalls EXCEPT ![p] = IF @ < MaxCalls THEN @ + 1 ELSE @]
  /\ UNCHANGED <<state, cur_queue_lvl, ticks_each_level, cpuVars, clockVars>>

SyscallReturn(c) ==
  /\ RunningIn(c, "kernel")
  /\ mode' = [mode EXCEPT ![proc[c]] = "user"]
  /\ UNCHANGED <<state, cur_queue_lvl, ticks_each_level, newcalls, cpuVars, clockVars>>

\* kfork: allocproc resets the scheduling fields; the child starts in forkret.
Fork(c, q) ==
  /\ RunningIn(c, "kernel")
  /\ state[q] = "UNUSED"
  /\ state' = [state EXCEPT ![q] = "RUNNABLE"]
  /\ cur_queue_lvl' = [cur_queue_lvl EXCEPT ![q] = 0]
  /\ ticks_each_level' = [ticks_each_level EXCEPT ![q] = 0]
  /\ newcalls' = [newcalls EXCEPT ![q] = 0]
  /\ mode' = [mode EXCEPT ![q] = "user"]
  /\ UNCHANGED <<cpuVars, clockVars>>

\* usertrap finds the process killed or kills it for a fault: kexit(-1), with
\* interrupts off.  For a timer interrupt that is before the accounting.  The
\* kernel panics if it is init.
Killed(c) ==
  /\ RunningIn(c, "user") \/ pc[c] = "account"
  /\ proc[c] # 1
  /\ mode' = [mode EXCEPT ![proc[c]] = "exit"]
  /\ pc' = [pc EXCEPT ![c] = "run"]
  /\ UNCHANGED <<state, cur_queue_lvl, ticks_each_level, newcalls, proc, scan, found, intr, clockVars>>

\* sleep() inside the kernel: neither the level nor the ticks change.
Sleep(c) ==
  /\ InKernel(c)
  /\ state' = [state EXCEPT ![proc[c]] = "SLEEPING"]
  /\ BackToScheduler(c, RunningIn(c, "kernel"))
  /\ UNCHANGED <<cur_queue_lvl, ticks_each_level, newcalls, mode, clockVars>>

\* wakeup() or kill by whoever the process waits for.
Wakeup(p) ==
  /\ state[p] = "SLEEPING"
  /\ state' = [state EXCEPT ![p] = "RUNNABLE"]
  /\ UNCHANGED <<cur_queue_lvl, ticks_each_level, newcalls, mode, cpuVars, clockVars>>

\* The end of kexit, after which the process executes nothing.  init never
\* exits.
Exit(c) ==
  /\ InKernel(c)
  /\ proc[c] # 1
  /\ state' = [state EXCEPT ![proc[c]] = "ZOMBIE"]
  /\ mode' = [mode EXCEPT ![proc[c]] = "user"]
  /\ BackToScheduler(c, RunningIn(c, "kernel"))
  /\ UNCHANGED <<cur_queue_lvl, ticks_each_level, newcalls, clockVars>>

\* freeproc, called by the parent's kwait; p->syscount = 0.
Reap(p) ==
  /\ state[p] = "ZOMBIE"
  /\ state' = [state EXCEPT ![p] = "UNUSED"]
  /\ newcalls' = [newcalls EXCEPT ![p] = 0]
  /\ UNCHANGED <<cur_queue_lvl, ticks_each_level, mode, cpuVars, clockVars>>

-----------------------------------------------------------------------------
(***************************************************************************)
(* The timer interrupt                                                     *)
(***************************************************************************)

\* A CPU takes interrupts in a running process, at the top of the scheduler's
\* loop, out of wfi, and in the scan when the last process left them enabled.
Interruptible(c) ==
  CASE pc[c] \in {"start", "idle"} -> TRUE
    [] pc[c] = "scan" -> intr[c]
    [] pc[c] = "run" -> mode[proc[c]] # "exit"
    [] OTHER -> FALSE

\* Where the handler goes once clockintr is done: usertrap accounts for the
\* tick, kerneltrap yields at once, and in the scheduler there is no process.
AfterClock(c) ==
  CASE pc[c] = "scan" -> "scan"
    [] pc[c] \in {"start", "idle"} -> "start"
    [] OTHER -> IF mode[proc[c]] = "user" THEN "account" ELSE "yield"

\* Unsigned subtraction and increment: both wrap at TickMod.
Minus(a, b) == IF b <= a THEN a - b ELSE a + TickMod - b
Tick(a) == IF a + 1 = TickMod THEN 0 ELSE a + 1

\* Mutant: one tick late.
BoostDueLate(now) == Minus(now, last_boost) > BoostTicks

BoostDue(now) == Minus(now, last_boost) >= BoostTicks

\* clockintr, up to the call of priority_boost.  CPU 0 alone counts ticks; the
\* sleepers on &ticks it wakes are among those of Wakeup.
Timer(c) ==
  LET now == Tick(ticks) IN
  /\ Interruptible(c)
  /\ IF c # 0
     THEN pc' = [pc EXCEPT ![c] = AfterClock(c)] /\ UNCHANGED clockVars
     ELSE /\ ticks' = now
          /\ IF BoostDue(now)
             THEN pc' = [pc EXCEPT ![c] = "boost"] /\ resume' = AfterClock(c)
             ELSE pc' = [pc EXCEPT ![c] = AfterClock(c)] /\ UNCHANGED resume
          /\ UNCHANGED <<boostAt, last_boost>>
  /\ UNCHANGED <<procVars, proc, scan, found, intr>>

\* Another device interrupts wfi.
IdleInterrupt(c) ==
  /\ pc[c] = "idle"
  /\ pc' = [pc EXCEPT ![c] = "start"]
  /\ UNCHANGED <<procVars, proc, scan, found, intr, clockVars>>

\* Mutant: RUNNING processes are boosted too.
BoostableRunning(p) == state[p] \in {"RUNNABLE", "RUNNING"}

Boostable(p) == state[p] = "RUNNABLE"

\* Mutant: the loop stops before the last slot.
MoreToBoostShort(p) == p + 1 < NPROC

MoreToBoost(p) == p < NPROC

\* One iteration of priority_boost, and after the last one last_boost.
PriorityBoost(c) ==
  LET p == boostAt IN
  /\ pc[c] = "boost"
  /\ IF Boostable(p)
     THEN /\ cur_queue_lvl' = [cur_queue_lvl EXCEPT ![p] = 0]
          /\ ticks_each_level' = [ticks_each_level EXCEPT ![p] = 0]
          /\ newcalls' = [newcalls EXCEPT ![p] = 0]
     ELSE UNCHANGED <<cur_queue_lvl, ticks_each_level, newcalls>>
  /\ IF MoreToBoost(p)
     THEN boostAt' = p + 1 /\ UNCHANGED <<pc, resume, last_boost>>
     ELSE /\ boostAt' = 1
          /\ pc' = [pc EXCEPT ![c] = resume]
          /\ resume' = "start"
          /\ last_boost' = ticks
  /\ UNCHANGED <<state, mode, proc, scan, found, intr, ticks>>

\* Mutant: off by one.
SliceOverLate(p, used) == used > TimeSlice[cur_queue_lvl[p]]

SliceOver(p, used) == used >= TimeSlice[cur_queue_lvl[p]]

\* Mutant: the lowest level is not the last.
NextLevelUnbounded(p, used) ==
  IF newcalls[p] < used THEN cur_queue_lvl[p] + 1 ELSE cur_queue_lvl[p]

\* Mutant: one system call makes a process interactive.
NextLevelOneCall(p, used) ==
  IF newcalls[p] = 0 /\ cur_queue_lvl[p] < MaxLevel THEN cur_queue_lvl[p] + 1 ELSE cur_queue_lvl[p]

NextLevel(p, used) ==
  IF newcalls[p] < used /\ cur_queue_lvl[p] < MaxLevel THEN cur_queue_lvl[p] + 1 ELSE cur_queue_lvl[p]

\* usertrap, which_dev = 2: charge the tick; at the end of the slice demote the
\* process unless it made as many system calls as it consumed ticks.
Account(c) ==
  LET p == proc[c]
      used == ticks_each_level[p] + 1
  IN
  /\ pc[c] = "account"
  /\ IF SliceOver(p, used)
     THEN /\ cur_queue_lvl' = [cur_queue_lvl EXCEPT ![p] = NextLevel(p, used)]
          /\ ticks_each_level' = [ticks_each_level EXCEPT ![p] = 0]
          /\ newcalls' = [newcalls EXCEPT ![p] = 0]
     ELSE /\ ticks_each_level' = [ticks_each_level EXCEPT ![p] = used]
          /\ UNCHANGED <<cur_queue_lvl, newcalls>>
  /\ pc' = [pc EXCEPT ![c] = "yield"]
  /\ UNCHANGED <<state, mode, proc, scan, found, intr, clockVars>>

\* yield(), called with interrupts off by both trap handlers.
Yield(c) ==
  /\ pc[c] = "yield"
  /\ state' = [state EXCEPT ![proc[c]] = "RUNNABLE"]
  /\ BackToScheduler(c, FALSE)
  /\ UNCHANGED <<cur_queue_lvl, ticks_each_level, newcalls, mode, clockVars>>

-----------------------------------------------------------------------------
SchedulerStep(c) == StartPass(c) \/ Skip(c) \/ Dispatch(c)

ProcessStep(c) ==
  \/ Syscall(c)
  \/ SyscallReturn(c)
  \/ \E q \in Procs : Fork(c, q)
  \/ Sleep(c)
  \/ Killed(c)
  \/ Exit(c)

InterruptStep(c) == Timer(c) \/ PriorityBoost(c) \/ Account(c) \/ Yield(c)

Next ==
  \/ \E c \in CPUs : SchedulerStep(c) \/ ProcessStep(c) \/ InterruptStep(c) \/ IdleInterrupt(c)
  \/ \E p \in Procs : Wakeup(p) \/ Reap(p)

Spec == Init /\ [][Next]_vars

\* Timer interrupts keep coming, handlers run to their end, and so does a kexit
\* that no interrupt can preempt (one condition suffices for both, because a
\* CPU in such a kexit takes no interrupt and leaves it by no other step).  Between two ticks the scheduler executes at
\* least one step, hence strong fairness: the step is disabled while the same
\* CPU is in the interrupt handler.
Fairness ==
  \A c \in CPUs : /\ SF_vars(SchedulerStep(c))
                  /\ WF_vars(InterruptStep(c) \/ (RunningIn(c, "exit") /\ (Sleep(c) \/ Exit(c))))

FairSpec == Spec /\ Fairness

-----------------------------------------------------------------------------
(***************************************************************************)
(* Properties                                                              *)
(***************************************************************************)

\* A process is RUNNING exactly when one CPU, and only one, has it as c->proc
\* and is outside its scheduler: scans of several CPUs never dispatch the same
\* process, and no interrupt path loses or keeps a process it gave up.
OneCpuPerProcess ==
  /\ \A c \in CPUs : proc[c] # NoProc => state[proc[c]] = "RUNNING"
  /\ \A p \in Procs : state[p] = "RUNNING" => \E c \in CPUs : proc[c] = p
  /\ \A c, d \in CPUs : proc[c] = proc[d] /\ proc[c] # NoProc => c = d

\* The ticks charged at the current level stay below that level's slice, even
\* when boosts and demotions move the process between slices of different
\* length: usertrap never leaves an exhausted slice behind.
SliceNotExhausted ==
  \A p \in Procs : ticks_each_level[p] < TimeSlice[cur_queue_lvl[p]]

\* A process moves down one level at a time, only while it runs, and only with
\* its slice used up; it moves up only to level 0 and never while it runs, so
\* usertrap's read-modify-write of the level never races with the boost.
LevelStep ==
  \A p \in Procs : cur_queue_lvl'[p] # cur_queue_lvl[p] =>
    \/ /\ cur_queue_lvl'[p] = cur_queue_lvl[p] + 1
       /\ state[p] = "RUNNING"
       /\ ticks_each_level[p] + 1 = TimeSlice[cur_queue_lvl[p]]
    \/ cur_queue_lvl'[p] = 0 /\ state[p] # "RUNNING"
LevelMoves == [][LevelStep]_vars

\* Boosts are never further apart than BoostTicks ticks, across the wrap of the
\* tick counter too; within the handler of the due tick the boost is running.
BoostOnTime ==
  Minus(ticks, last_boost) < BoostTicks \/ (pc[0] = "boost" /\ Minus(ticks, last_boost) = BoostTicks)

\* No starvation: a RUNNABLE process is eventually dispatched, whatever the
\* levels of the others, the boosts and the number of CPUs.
NoStarvation ==
  \A p \in Procs : state[p] = "RUNNABLE" ~> state[p] = "RUNNING"

=============================================================================
