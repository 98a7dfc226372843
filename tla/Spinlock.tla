------------------------------ MODULE Spinlock ------------------------------
(***************************************************************************)
(* Spin locks and the nesting of interrupt disabling (kernel/spinlock.c)   *)
(* across traps (kernel/trap.c) and switches between the threads of the    *)
(* processes and the scheduler threads of the CPUs (sched, yield, sleep,   *)
(* scheduler and forkret in kernel/proc.c).                                *)
(*                                                                         *)
(* A thread is a process or the scheduler of a CPU, named like the CPU.    *)
(* Locks are the p->lock of each process, named like the process, and the  *)
(* locks in Locks, of which code holds one at a time; holding one, wakeup  *)
(* takes the p->lock of other processes.                                   *)
(***************************************************************************)
EXTENDS Integers, FiniteSets

CONSTANTS Cpus, Procs, Locks

VARIABLES cpu,         \* struct cpu, its interrupt enable bit and the thread it runs
          holder,      \* lock -> the CPU of lk->cpu, or None
          pc,          \* thread -> where it is
          want,        \* thread -> the lock it acquires
          lk,          \* thread -> the lock in Locks it holds or sleeps with, or None
          trapped,     \* thread -> where kerneltrap interrupted it, or None
          intena,      \* process -> the local variable of sched
          runnable,    \* processes that are RUNNABLE
          found,       \* CPUs whose scheduler has run a process in this pass
          expect,      \* history: process -> interrupts are on where it holds no lock
          panic

\* The names of CPUs, processes and locks are those of different things.
SpinlockAssumption ==
  /\ Cpus \cap Procs = {} /\ Cpus \cap Locks = {} /\ Procs \cap Locks = {}
  /\ "none" \notin Cpus \cup Procs \cup Locks

vars == <<cpu, holder, pc, want, lk, trapped, intena, runnable, found, expect, panic>>

None == "none"
Threads == Procs \cup Cpus

Init ==
  /\ cpu = [c \in Cpus |-> [intr |-> FALSE, noff |-> 0, intena |-> FALSE, run |-> c]]
  /\ holder = [l \in Procs \cup Locks |-> None]
  /\ pc = [t \in Threads |-> IF t \in Cpus THEN "loop" ELSE "forkret"]
  /\ want = [t \in Threads |-> None] /\ lk = [t \in Threads |-> None]
  /\ trapped = [t \in Threads |-> None] /\ runnable = Procs /\ found = {}
  /\ intena = [p \in Procs |-> FALSE] /\ expect = [t \in Threads |-> FALSE]
  /\ panic = FALSE

Runs(c, t) == cpu[c].run = t
Holds(c, l) == holder[l] = c

Push_off(s) == [s EXCEPT !.intr = FALSE, !.noff = @ + 1,
                         !.intena = IF s.noff = 0 THEN s.intr ELSE @]
Pop_off(s) == [s EXCEPT !.noff = @ - 1, !.intr = (s.noff = 1 /\ s.intena)]

\* Thread t calls acquire(l) and goes on at the label next.
Acquire(c, t, l, next) ==
  /\ cpu' = [cpu EXCEPT ![c] = Push_off(@)]
  /\ panic' = Holds(c, l)
  /\ want' = [want EXCEPT ![t] = l]
  /\ pc' = [pc EXCEPT ![t] = next]

\* release(l): panics unless this CPU holds it, or pop_off does.
Release(c, l) ==
  /\ panic' = (~Holds(c, l) \/ cpu[c].intr \/ cpu[c].noff < 1)
  /\ holder' = [holder EXCEPT ![l] = None]
  /\ cpu' = [cpu EXCEPT ![c] = Pop_off(@)]

Goto(t, l) == pc' = [pc EXCEPT ![t] = l]

\* The test-and-set of acquire succeeds.  A label is the place of a thread that
\* spins, and Got the place where it goes on.
Spins == {"spin", "spinwake", "spinsleep", "spinyield", "spinback", "spinscan"}
Got == [l \in Spins |-> CASE l = "spin" -> "in" [] l = "spinwake" -> "woke"
                          [] l = "spinsleep" -> "unlock" [] l = "spinyield" -> "sched"
                          [] l = "spinback" -> "in" [] l = "spinscan" -> "probe"]
TestAndSet(c, t) ==
  /\ Runs(c, t) /\ pc[t] \in Spins /\ holder[want[t]] = None
  /\ holder' = [holder EXCEPT ![want[t]] = c]
  /\ Goto(t, Got[pc[t]])
  /\ want' = [want EXCEPT ![t] = IF pc[t] \in {"spinwake", "spinscan"} THEN @ ELSE None]
  /\ UNCHANGED <<cpu, lk, trapped, intena, runnable, found, expect, panic>>

-----------------------------------------------------------------------------
(* Kernel code of a thread, in a system call, the scheduler or a trap.     *)

AcquireLock(c, t, l) ==
  /\ Runs(c, t) /\ pc[t] \in {"kernel", "trap"}
  /\ Acquire(c, t, l, "spin") /\ lk' = [lk EXCEPT ![t] = l]
  /\ UNCHANGED <<holder, trapped, intena, runnable, found, expect>>

\* wakeup, holding a lock: p->lock of another process, whose state may change.
WakeupLock(c, t, p) ==
  /\ Runs(c, t) /\ pc[t] = "in" /\ p \in Procs \ {t}
  /\ Acquire(c, t, p, "spinwake")
  /\ UNCHANGED <<holder, lk, trapped, intena, runnable, found, expect>>

Wake(c, t) ==
  /\ Runs(c, t) /\ pc[t] = "woke"
  /\ runnable' = IF pc[want[t]] = "asleep" THEN runnable \cup {want[t]} ELSE runnable
  /\ Release(c, want[t])
  /\ Goto(t, "in") /\ want' = [want EXCEPT ![t] = None]
  /\ UNCHANGED <<lk, trapped, intena, expect, found>>

Base(t) == IF trapped[t] # None THEN "trap" ELSE "kernel"

ReleaseLock(c, t) ==
  /\ Runs(c, t) /\ pc[t] = "in"
  /\ Release(c, lk[t])
  /\ lk' = [lk EXCEPT ![t] = None] /\ Goto(t, Base(t))
  /\ UNCHANGED <<want, trapped, intena, runnable, found, expect>>

-----------------------------------------------------------------------------
(* Giving up the CPU.                                                      *)

\* yield, of a process that holds nothing: from usertrap or from kerneltrap.
Yield(c, p) ==
  /\ Runs(c, p) /\ p \in Procs /\ pc[p] \in {"kernel", "trap"}
  /\ Acquire(c, p, p, "spinyield")
  /\ UNCHANGED <<holder, lk, trapped, intena, runnable, found, expect>>

\* sleep(chan, lk), not inside a trap.
Sleep(c, p) ==
  /\ Runs(c, p) /\ p \in Procs /\ trapped[p] = None /\ pc[p] = "in"
  /\ Acquire(c, p, p, "spinsleep")
  /\ UNCHANGED <<holder, lk, trapped, intena, runnable, found, expect>>

\* Mutant: sleep does not release lk.
SleepUnlockForgets(c, p) ==
  /\ Runs(c, p) /\ pc[p] = "unlock"
  /\ Goto(p, "sleepsched")
  /\ UNCHANGED <<cpu, holder, panic, want, lk, trapped, intena, runnable, found, expect>>

SleepUnlock(c, p) ==
  /\ Runs(c, p) /\ pc[p] = "unlock"
  /\ Release(c, lk[p])
  /\ Goto(p, "sleepsched")
  /\ UNCHANGED <<want, lk, trapped, intena, runnable, found, expect>>

\* sched: the checks, and swtch to the scheduler of this CPU.
Sched(c, p) ==
  /\ Runs(c, p) /\ pc[p] \in {"sched", "sleepsched"}
  /\ panic' = (~Holds(c, p) \/ cpu[c].noff # 1 \/ cpu[c].intr)
  /\ intena' = [intena EXCEPT ![p] = cpu[c].intena]
  /\ runnable' = IF pc[p] = "sched" THEN runnable \cup {p} ELSE runnable
  /\ cpu' = [cpu EXCEPT ![c].run = c]
  /\ Goto(p, IF pc[p] = "sched" THEN "yielded" ELSE "asleep")
  /\ UNCHANGED <<holder, want, lk, trapped, expect, found>>

\* Mutant: sched does not restore intena.
ResumeKeepsCpu(c, p) ==
  /\ Runs(c, p) /\ pc[p] \in {"yielded", "asleep", "forkret"}
  /\ panic' = (~Holds(c, p) \/ cpu[c].intr \/ cpu[c].noff < 1)
  /\ holder' = [holder EXCEPT ![p] = None]
  /\ cpu' = [cpu EXCEPT ![c] = Pop_off(@)]
  /\ Goto(p, IF pc[p] = "asleep" THEN "relock" ELSE Base(p))
  /\ expect' = [expect EXCEPT ![p] = IF pc[p] = "forkret" THEN cpu'[c].intr ELSE @]
  /\ intena' = [intena EXCEPT ![p] = FALSE]
  /\ UNCHANGED <<want, lk, trapped, runnable, found>>

\* Back from swtch: the rest of sched and release(&p->lock); a sleeper then
\* acquires lk again, and a new process goes on in forkret.
Resume(c, p) ==
  /\ Runs(c, p) /\ pc[p] \in {"yielded", "asleep", "forkret"}
  /\ panic' = (~Holds(c, p) \/ cpu[c].intr \/ cpu[c].noff < 1)
  /\ holder' = [holder EXCEPT ![p] = None]
  /\ cpu' = [cpu EXCEPT ![c] = Pop_off(IF pc[p] = "forkret" THEN @
                                       ELSE [@ EXCEPT !.intena = intena[p]])]
  /\ Goto(p, IF pc[p] = "asleep" THEN "relock" ELSE Base(p))
  /\ expect' = [expect EXCEPT ![p] = IF pc[p] = "forkret" THEN cpu'[c].intr ELSE @]
  /\ intena' = [intena EXCEPT ![p] = FALSE]
  /\ UNCHANGED <<want, lk, trapped, runnable, found>>

Relock(c, p) ==
  /\ Runs(c, p) /\ pc[p] = "relock"
  /\ Acquire(c, p, lk[p], "spinback")
  /\ UNCHANGED <<holder, lk, trapped, intena, runnable, found, expect>>

-----------------------------------------------------------------------------
(* Traps.                                                                  *)

\* From user space: a system call turns interrupts on, an interrupt does not.
UserTrap(c, p, syscall) ==
  /\ Runs(c, p) /\ pc[p] = "user"
  /\ cpu' = [cpu EXCEPT ![c].intr = syscall] /\ expect' = [expect EXCEPT ![p] = syscall]
  /\ Goto(p, "kernel")
  /\ UNCHANGED <<holder, want, lk, trapped, intena, runnable, panic, found>>

\* prepare_return: interrupts off in the kernel; user space has them on.
UserRet(c, p) ==
  /\ Runs(c, p) /\ p \in Procs /\ pc[p] = "kernel"
  /\ cpu' = [cpu EXCEPT ![c].intr = FALSE] /\ expect' = [expect EXCEPT ![p] = FALSE]
  /\ Goto(p, "user")
  /\ UNCHANGED <<holder, want, lk, trapped, intena, runnable, panic, found>>

\* kernelvec and kerneltrap, wherever kernel code has interrupts on; and sret,
\* which turns them on again.  Only one level: a handler has them off.
KernelTrap(c, t) ==
  /\ Runs(c, t) /\ cpu[c].intr /\ pc[t] \in {"kernel", "on", "scan", "loop", "wfi"}
  /\ cpu' = [cpu EXCEPT ![c].intr = FALSE] /\ expect' = [expect EXCEPT ![t] = FALSE]
  /\ trapped' = [trapped EXCEPT ![t] = pc[t]]
  /\ Goto(t, "trap")
  /\ UNCHANGED <<holder, want, lk, intena, runnable, panic, found>>

KernelRet(c, t) ==
  /\ Runs(c, t) /\ pc[t] = "trap"
  /\ cpu' = [cpu EXCEPT ![c].intr = TRUE] /\ expect' = [expect EXCEPT ![t] = TRUE]
  /\ trapped' = [trapped EXCEPT ![t] = None]
  /\ Goto(t, trapped[t])
  /\ UNCHANGED <<holder, want, lk, intena, runnable, panic, found>>

-----------------------------------------------------------------------------
(* scheduler.                                                              *)

\* intr_on, and later intr_off.
SchedOn(c) ==
  /\ Runs(c, c) /\ pc[c] = "loop"
  /\ cpu' = [cpu EXCEPT ![c].intr = TRUE]
  /\ Goto(c, "on")
  /\ UNCHANGED <<holder, want, lk, trapped, intena, runnable, found, expect, panic>>

SchedOff(c) ==
  /\ Runs(c, c) /\ pc[c] = "on"
  /\ cpu' = [cpu EXCEPT ![c].intr = FALSE]
  /\ found' = found \ {c}
  /\ Goto(c, "scan")
  /\ UNCHANGED <<holder, want, lk, trapped, intena, runnable, expect, panic>>

SchedLock(c, p) ==
  /\ Runs(c, c) /\ pc[c] = "scan"
  /\ Acquire(c, c, p, "spinscan")
  /\ UNCHANGED <<holder, lk, trapped, intena, runnable, found, expect>>

\* swtch to a runnable process, which goes on with its lock held.
SchedSwtch(c) ==
  /\ Runs(c, c) /\ pc[c] = "probe" /\ want[c] \in runnable
  /\ runnable' = runnable \ {want[c]}
  /\ cpu' = [cpu EXCEPT ![c].run = want[c]]
  /\ found' = found \cup {c}
  /\ Goto(c, "back")
  /\ UNCHANGED <<holder, want, lk, trapped, intena, expect, panic>>

\* release(&p->lock), after a process that was not runnable or that came back.
\* The intena that a process leaves behind may turn interrupts on here.
SchedUnlock(c) ==
  /\ Runs(c, c) /\ (pc[c] = "back" \/ (pc[c] = "probe" /\ want[c] \notin runnable))
  /\ Release(c, want[c])
  /\ \E l \in {"scan", IF c \in found THEN "loop" ELSE "wfi"} : Goto(c, l)
  /\ want' = [want EXCEPT ![c] = None]
  /\ UNCHANGED <<lk, trapped, intena, runnable, found, expect>>

\* An interrupt, pending or new, ends the wait.
Wfi(c) ==
  /\ Runs(c, c) /\ pc[c] = "wfi"
  /\ Goto(c, "loop")
  /\ UNCHANGED <<cpu, holder, want, lk, trapped, intena, runnable, found, expect, panic>>

Next ==
  /\ ~panic
  /\ \E c \in Cpus :
       \/ \E t \in Threads :
            \/ TestAndSet(c, t) \/ \E l \in Locks : AcquireLock(c, t, l)
            \/ \E p \in Procs : WakeupLock(c, t, p)
            \/ Wake(c, t) \/ ReleaseLock(c, t) \/ KernelTrap(c, t) \/ KernelRet(c, t)
       \/ \E p \in Procs :
            \/ Yield(c, p) \/ Sleep(c, p) \/ SleepUnlock(c, p) \/ Sched(c, p) \/ Resume(c, p)
            \/ Relock(c, p) \/ UserRet(c, p) \/ SchedLock(c, p)
            \/ \E syscall \in BOOLEAN : UserTrap(c, p, syscall)
       \/ SchedOn(c) \/ SchedOff(c) \/ SchedSwtch(c) \/ SchedUnlock(c) \/ Wfi(c)

Spec == Init /\ [][Next]_vars

-----------------------------------------------------------------------------
\* Neither acquire, release, pop_off nor sched panics: no CPU waits for a lock
\* it holds, although interrupt handlers take the same locks.
NeverPanics == ~panic

\* The nesting depth of a CPU is the number of locks that it holds or spins
\* for, and at a depth above 0 its interrupts are off, although the depth
\* stays with the CPU when threads are switched.
NoffExact ==
  \A c \in Cpus :
    /\ cpu[c].noff = Cardinality({l \in DOMAIN holder : Holds(c, l)})
                     + (IF pc[cpu[c].run] \in Spins THEN 1 ELSE 0)
    /\ cpu[c].noff > 0 => ~cpu[c].intr

\* A process that has released its last lock has interrupts as they were before
\* it acquired the first, even if it slept in between and woke on a CPU where
\* other threads had been running.
IntrRestored ==
  \A c \in Cpus : cpu[c].noff = 0 /\ cpu[c].run \in Procs => cpu[c].intr = expect[cpu[c].run]

\* push_off and pop_off nest, across switches of the thread that a CPU runs.
InterruptsNested == NoffExact /\ IntrRestored

\* A CPU waits for an interrupt only with interrupts off: one that makes a
\* process runnable after the scheduler has looked at it ends the wait, and is
\* not taken before the wait begins.
WfiIntrOff == \A c \in Cpus : pc[c] = "wfi" => ~cpu[c].intr
=============================================================================
