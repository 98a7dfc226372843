--------------------------- MODULE SpinlockProofs ---------------------------
(***************************************************************************)
(* Theorems about Spinlock, for any number of CPUs, processes and locks.   *)
(* The argument: where a thread is determines which locks it holds (Owns), *)
(* so the locks of a CPU are those of the thread it runs (LockInv), its    *)
(* nesting depth is their number (DepthInv), and the interrupt bit that    *)
(* the last pop_off restores travels with the thread (IntrInv).            *)
(***************************************************************************)
EXTENDS Spinlock, FiniteSetTheorems, TLAPS

\* Where a thread holds the lock in lk, the lock in want and its own p->lock.
HasLk == {"in", "spinwake", "woke", "spinsleep", "unlock"}
HasWant == {"woke", "probe", "back"}
HasSelf == {"unlock", "sched", "sleepsched", "yielded", "asleep", "forkret"}
Parked == {"yielded", "asleep", "forkret"}

Owns(t, l) ==
  \/ pc[t] \in HasLk /\ l = lk[t]
  \/ pc[t] \in HasWant /\ l = want[t]
  \/ pc[t] \in HasSelf /\ l = t

One(B) == IF B THEN 1 ELSE 0
Depth(l) == One(l \in HasLk) + One(l \in HasWant) + One(l \in HasSelf) + One(l \in Spins)

\* Where code common to processes and trapped schedulers runs, where only
\* processes and only schedulers are.
CommonAt == {"trap", "spin", "in", "spinwake", "woke"}
ProcAt == CommonAt \cup Parked \cup {"kernel", "user", "spinyield", "sched", "spinsleep", "unlock",
                                     "sleepsched", "relock", "spinback"}
SchedAt == CommonAt \cup {"loop", "on", "scan", "wfi", "spinscan", "probe", "back"}

CpuState == [intr : BOOLEAN, noff : Int, intena : BOOLEAN, run : Threads]

TypeOK ==
  /\ cpu \in [Cpus -> CpuState]
  /\ holder \in [Procs \cup Locks -> Cpus \cup {None}]
  /\ pc \in [Threads -> ProcAt \cup SchedAt]
  /\ want \in [Threads -> Procs \cup Locks \cup {None}]
  /\ lk \in [Threads -> Locks \cup {None}]
  /\ trapped \in [Threads -> {None, "kernel", "on", "scan", "loop"}]
  /\ intena \in [Procs -> BOOLEAN] /\ expect \in [Threads -> BOOLEAN]
  /\ runnable \subseteq Procs /\ found \subseteq Cpus
  /\ panic = FALSE

\* The variables of a thread suit the place where it is.
PlaceInv ==
  /\ \A t \in Threads :
       /\ pc[t] \in HasLk \cup {"spin", "sleepsched", "asleep", "relock", "spinback"} => lk[t] \in Locks
       /\ pc[t] \in {"spin", "spinback"} => want[t] = lk[t]
       /\ pc[t] \in {"spinwake", "woke"} => want[t] \in Procs \ {t}
       /\ pc[t] \in {"spinsleep", "spinyield"} => want[t] = t
  /\ \A p \in Procs : pc[p] \in ProcAt /\ trapped[p] \in {None, "kernel"}
                      /\ (pc[p] = "trap" => trapped[p] # None)
  /\ \A c \in Cpus : /\ pc[c] \in SchedAt
                     /\ trapped[c] \in {None, "on", "scan", "loop"}
                     /\ pc[c] \in CommonAt <=> trapped[c] # None
                     /\ pc[c] \in {"spinscan", "probe", "back"} => want[c] \in Procs

\* A CPU runs its scheduler, or the process that its scheduler waits for; no two
\* run the same process, and what none runs is parked.
RunInv ==
  /\ \A c \in Cpus : cpu[c].run # c => cpu[c].run \in Procs /\ pc[c] = "back" /\ want[c] = cpu[c].run
  /\ \A c, d \in Cpus : cpu[c].run = cpu[d].run => c = d
  /\ \A p \in Procs : (\A c \in Cpus : cpu[c].run # p) => pc[p] \in Parked
  /\ \A p \in runnable : pc[p] \in Parked /\ \A c \in Cpus : cpu[c].run # p

LockInv == \A c \in Cpus, l \in Procs \cup Locks : Holds(c, l) <=> Owns(cpu[c].run, l)

DepthInv ==
  \A c \in Cpus : cpu[c].noff = Depth(pc[cpu[c].run]) /\ (cpu[c].noff > 0 => ~cpu[c].intr)

IntrInv ==
  /\ \A c \in Cpus : cpu[c].run \in Procs =>
       /\ cpu[c].noff = 0 => (cpu[c].intr <=> expect[cpu[c].run])
       /\ cpu[c].noff > 0 /\ pc[cpu[c].run] \notin Parked => (cpu[c].intena <=> expect[cpu[c].run])
  /\ \A p \in Procs : pc[p] \in {"yielded", "asleep"} => (intena[p] <=> expect[p])

\* Interrupts come on in a pass over the processes only after one has run.
WfiInv ==
  \A c \in Cpus :
    /\ pc[c] = "back" \/ trapped[c] = "scan" => c \in found
    /\ pc[c] = "scan" /\ c \notin found => ~cpu[c].intr
    /\ pc[c] \in {"spinscan", "probe"} /\ c \notin found => ~cpu[c].intena
    /\ pc[c] = "wfi" => ~cpu[c].intr

SpinInv == TypeOK /\ PlaceInv /\ RunInv /\ LockInv /\ DepthInv /\ IntrInv /\ WfiInv

-----------------------------------------------------------------------------
(* The places of the threads.                                              *)

\* At boot the schedulers run with interrupts off and no lock is held.
LEMMA InitSpin ==
  ASSUME SpinlockAssumption, Init
  PROVE  SpinInv
<1>. USE DEF SpinlockAssumption, Init, None, Threads
<1>1. TypeOK BY DEF TypeOK, CpuState, ProcAt, SchedAt, Parked, CommonAt
<1>2. PlaceInv BY DEF PlaceInv, HasLk, ProcAt, SchedAt, Parked, CommonAt
<1>3. RunInv BY DEF RunInv, Parked
<1>4. LockInv BY DEF LockInv, Holds, Owns, HasLk, HasWant, HasSelf
<1>5. DepthInv BY DEF DepthInv, Depth, One, Spins, HasLk, HasWant, HasSelf
<1>6. IntrInv BY DEF IntrInv
<1>7. WfiInv
  <2>1. \A c \in Cpus : pc[c] = "loop" /\ trapped[c] = "none" OBVIOUS
  <2>. QED BY ONLY <2>1 DEF WfiInv
<1>. QED BY <1>1, <1>2, <1>3, <1>4, <1>5, <1>6, <1>7 DEF SpinInv

\* Every action leaves a thread with the variables of its new place.
LEMMA StepPlace ==
  ASSUME SpinlockAssumption, SpinInv, [Next]_vars
  PROVE  PlaceInv'
<1>. USE DEF SpinlockAssumption, SpinInv, TypeOK, PlaceInv, CpuState, Runs, None, Threads
<1>. USE DEF HasLk, ProcAt, SchedAt, Parked, CommonAt
<1>1. ASSUME NEW c \in Cpus, NEW t \in Threads, TestAndSet(c, t) PROVE PlaceInv'
  BY <1>1, SMTT(60) DEF TestAndSet, Goto, Spins, Got
<1>2. ASSUME NEW c \in Cpus, NEW t \in Threads, NEW l \in Locks, AcquireLock(c, t, l) PROVE PlaceInv'
  BY <1>2 DEF AcquireLock, Acquire, Push_off
<1>3. ASSUME NEW c \in Cpus, NEW t \in Threads, NEW q \in Procs, WakeupLock(c, t, q) PROVE PlaceInv'
  BY <1>3 DEF WakeupLock, Acquire, Push_off
<1>4. ASSUME NEW c \in Cpus, NEW t \in Threads, Wake(c, t) PROVE PlaceInv'
  BY <1>4 DEF Wake, Release, Pop_off, Goto
<1>5. ASSUME NEW c \in Cpus, NEW t \in Threads, ReleaseLock(c, t) PROVE PlaceInv'
  BY <1>5 DEF ReleaseLock, Release, Pop_off, Goto, Base
<1>6. ASSUME NEW c \in Cpus, NEW t \in Threads, KernelTrap(c, t) PROVE PlaceInv'
  BY <1>6 DEF KernelTrap, Goto, RunInv, WfiInv
<1>7. ASSUME NEW c \in Cpus, NEW t \in Threads, KernelRet(c, t) PROVE PlaceInv'
  BY <1>7 DEF KernelRet, Goto
<1>8. ASSUME NEW c \in Cpus, NEW p \in Procs, Yield(c, p) PROVE PlaceInv'
  BY <1>8 DEF Yield, Acquire, Push_off
<1>9. ASSUME NEW c \in Cpus, NEW p \in Procs, Sleep(c, p) PROVE PlaceInv'
  BY <1>9 DEF Sleep, Acquire, Push_off
<1>10. ASSUME NEW c \in Cpus, NEW p \in Procs, SleepUnlock(c, p) PROVE PlaceInv'
  BY <1>10 DEF SleepUnlock, Release, Pop_off, Goto
<1>11. ASSUME NEW c \in Cpus, NEW p \in Procs, Sched(c, p) PROVE PlaceInv'
  BY <1>11 DEF Sched, Goto
<1>12. ASSUME NEW c \in Cpus, NEW p \in Procs, Resume(c, p) PROVE PlaceInv'
  BY <1>12 DEF Resume, Pop_off, Goto, Base
<1>13. ASSUME NEW c \in Cpus, NEW p \in Procs, Relock(c, p) PROVE PlaceInv'
  BY <1>13 DEF Relock, Acquire, Push_off
<1>14. ASSUME NEW c \in Cpus, NEW p \in Procs, UserRet(c, p) PROVE PlaceInv'
  BY <1>14 DEF UserRet, Goto
<1>15. ASSUME NEW c \in Cpus, NEW p \in Procs, SchedLock(c, p) PROVE PlaceInv'
  BY <1>15 DEF SchedLock, Acquire, Push_off
<1>16. ASSUME NEW c \in Cpus, NEW p \in Procs, NEW sc \in BOOLEAN, UserTrap(c, p, sc) PROVE PlaceInv'
  BY <1>16 DEF UserTrap, Goto
<1>17. ASSUME NEW c \in Cpus, SchedOn(c) PROVE PlaceInv'
  BY <1>17 DEF SchedOn, Goto
<1>18. ASSUME NEW c \in Cpus, SchedOff(c) PROVE PlaceInv'
  BY <1>18 DEF SchedOff, Goto
<1>19. ASSUME NEW c \in Cpus, SchedSwtch(c) PROVE PlaceInv'
  BY <1>19 DEF SchedSwtch, Goto
<1>20. ASSUME NEW c \in Cpus, SchedUnlock(c) PROVE PlaceInv'
  BY <1>20 DEF SchedUnlock, Release, Pop_off, Goto
<1>21. ASSUME NEW c \in Cpus, Wfi(c) PROVE PlaceInv'
  BY <1>21 DEF Wfi, Goto
<1>22. CASE UNCHANGED vars
  BY ONLY <1>22, SpinInv DEF vars, SpinInv, PlaceInv
<1>. QED
  BY ONLY Zenon, [Next]_vars, <1>1, <1>2, <1>3, <1>4, <1>5, <1>6, <1>7, <1>8, <1>9, <1>10, <1>11,
      <1>12, <1>13, <1>14, <1>15, <1>16, <1>17, <1>18, <1>19, <1>20, <1>21, <1>22
   DEF Next

-----------------------------------------------------------------------------
(* Locks, depth of nesting and the interrupt enable bit.                  *)

\* No two CPUs run the same process: a scheduler switches only to a runnable one,
\* and Wake finds a sleeper whose lock it holds, so that nobody runs it.
LEMMA StepRun ==
  ASSUME SpinlockAssumption, SpinInv, [Next]_vars
  PROVE  RunInv'
<1>. USE DEF SpinlockAssumption, SpinInv, TypeOK, PlaceInv, CpuState, Runs, None, Threads
<1>. USE DEF RunInv, HasLk, ProcAt, SchedAt, Parked, CommonAt
<1>1. ASSUME NEW c \in Cpus, NEW t \in Threads, TestAndSet(c, t) PROVE RunInv'
  BY <1>1 DEF TestAndSet, Goto, Spins, Got
<1>2. ASSUME NEW c \in Cpus, NEW t \in Threads, NEW l \in Locks, AcquireLock(c, t, l) PROVE RunInv'
  BY <1>2 DEF AcquireLock, Acquire, Push_off
<1>3. ASSUME NEW c \in Cpus, NEW t \in Threads, NEW q \in Procs, WakeupLock(c, t, q) PROVE RunInv'
  BY <1>3 DEF WakeupLock, Acquire, Push_off
<1>4. ASSUME NEW c \in Cpus, NEW t \in Threads, Wake(c, t) PROVE RunInv'
  <2>. USE <1>4 DEF Wake
  <2>1. \A d \in Cpus : pc[want[t]] = "asleep" => cpu[d].run # want[t]
    BY DEF LockInv, Holds, Owns, HasSelf, HasWant
  <2>. QED BY <2>1 DEF Release, Pop_off, Goto
<1>5. ASSUME NEW c \in Cpus, NEW t \in Threads, ReleaseLock(c, t) PROVE RunInv'
  BY <1>5 DEF ReleaseLock, Release, Pop_off, Goto, Base
<1>6. ASSUME NEW c \in Cpus, NEW t \in Threads, KernelTrap(c, t) PROVE RunInv'
  BY <1>6 DEF KernelTrap, Goto
<1>7. ASSUME NEW c \in Cpus, NEW t \in Threads, KernelRet(c, t) PROVE RunInv'
  BY <1>7 DEF KernelRet, Goto
<1>8. ASSUME NEW c \in Cpus, NEW p \in Procs, Yield(c, p) PROVE RunInv'
  BY <1>8 DEF Yield, Acquire, Push_off
<1>9. ASSUME NEW c \in Cpus, NEW p \in Procs, Sleep(c, p) PROVE RunInv'
  BY <1>9 DEF Sleep, Acquire, Push_off
<1>10. ASSUME NEW c \in Cpus, NEW p \in Procs, SleepUnlock(c, p) PROVE RunInv'
  BY <1>10 DEF SleepUnlock, Release, Pop_off, Goto
<1>11. ASSUME NEW c \in Cpus, NEW p \in Procs, Sched(c, p) PROVE RunInv'
  BY <1>11 DEF Sched, Goto
<1>12. ASSUME NEW c \in Cpus, NEW p \in Procs, Resume(c, p) PROVE RunInv'
  BY <1>12 DEF Resume, Pop_off, Goto, Base
<1>13. ASSUME NEW c \in Cpus, NEW p \in Procs, Relock(c, p) PROVE RunInv'
  BY <1>13 DEF Relock, Acquire, Push_off
<1>14. ASSUME NEW c \in Cpus, NEW p \in Procs, UserRet(c, p) PROVE RunInv'
  BY <1>14 DEF UserRet, Goto
<1>15. ASSUME NEW c \in Cpus, NEW p \in Procs, SchedLock(c, p) PROVE RunInv'
  BY <1>15 DEF SchedLock, Acquire, Push_off
<1>16. ASSUME NEW c \in Cpus, NEW p \in Procs, NEW sc \in BOOLEAN, UserTrap(c, p, sc) PROVE RunInv'
  BY <1>16 DEF UserTrap, Goto
<1>17. ASSUME NEW c \in Cpus, SchedOn(c) PROVE RunInv'
  BY <1>17 DEF SchedOn, Goto
<1>18. ASSUME NEW c \in Cpus, SchedOff(c) PROVE RunInv'
  BY <1>18 DEF SchedOff, Goto
<1>19. ASSUME NEW c \in Cpus, SchedSwtch(c) PROVE RunInv'
  BY <1>19 DEF SchedSwtch, Goto
<1>20. ASSUME NEW c \in Cpus, SchedUnlock(c) PROVE RunInv'
  BY <1>20 DEF SchedUnlock, Release, Pop_off, Goto
<1>21. ASSUME NEW c \in Cpus, Wfi(c) PROVE RunInv'
  BY <1>21 DEF Wfi, Goto
<1>22. CASE UNCHANGED vars
  BY ONLY <1>22, SpinInv DEF vars, SpinInv, RunInv
<1>. QED
  BY ONLY Zenon, [Next]_vars, <1>1, <1>2, <1>3, <1>4, <1>5, <1>6, <1>7, <1>8, <1>9, <1>10, <1>11,
      <1>12, <1>13, <1>14, <1>15, <1>16, <1>17, <1>18, <1>19, <1>20, <1>21, <1>22
   DEF Next

\* No action panics: the acting CPU holds what its thread releases and does not
\* hold what its thread acquires.
LEMMA StepPanic ==
  ASSUME SpinlockAssumption, SpinInv, [Next]_vars
  PROVE  panic' = FALSE
<1>. USE DEF SpinlockAssumption, SpinInv, TypeOK, PlaceInv, CpuState, Runs, None, Threads
<1>. USE DEF RunInv, LockInv, DepthInv, Holds, Owns, Depth, One, Spins, HasLk, HasWant, HasSelf
<1>. USE DEF HasLk, ProcAt, SchedAt, Parked, CommonAt
<1>1. ASSUME NEW c \in Cpus, NEW t \in Threads, TestAndSet(c, t) PROVE panic' = FALSE
  BY <1>1 DEF TestAndSet, Goto, Spins, Got
<1>2. ASSUME NEW c \in Cpus, NEW t \in Threads, NEW l \in Locks, AcquireLock(c, t, l) PROVE panic' = FALSE
  <2>1. ~Holds(c, l) BY <1>2 DEF AcquireLock
  <2>. QED BY Zenon, <1>2, <2>1 DEF AcquireLock, Acquire
<1>3. ASSUME NEW c \in Cpus, NEW t \in Threads, NEW q \in Procs, WakeupLock(c, t, q) PROVE panic' = FALSE
  <2>1. ~Holds(c, q) BY <1>3 DEF WakeupLock
  <2>. QED BY <1>3, <2>1 DEF WakeupLock, Acquire
<1>4. ASSUME NEW c \in Cpus, NEW t \in Threads, Wake(c, t) PROVE panic' = FALSE
  BY <1>4 DEF Wake, Release, Pop_off, Goto
<1>5. ASSUME NEW c \in Cpus, NEW t \in Threads, ReleaseLock(c, t) PROVE panic' = FALSE
  BY <1>5 DEF ReleaseLock, Release, Pop_off, Goto, Base
<1>6. ASSUME NEW c \in Cpus, NEW t \in Threads, KernelTrap(c, t) PROVE panic' = FALSE
  BY <1>6 DEF KernelTrap, Goto
<1>7. ASSUME NEW c \in Cpus, NEW t \in Threads, KernelRet(c, t) PROVE panic' = FALSE
  BY <1>7 DEF KernelRet, Goto
<1>8. ASSUME NEW c \in Cpus, NEW p \in Procs, Yield(c, p) PROVE panic' = FALSE
  <2>1. ~Holds(c, p) BY <1>8 DEF Yield
  <2>. QED BY Zenon, <1>8, <2>1 DEF Yield, Acquire
<1>9. ASSUME NEW c \in Cpus, NEW p \in Procs, Sleep(c, p) PROVE panic' = FALSE
  <2>0. p # lk[p] BY <1>9 DEF Sleep
  <2>1. ~Holds(c, p) BY <1>9, <2>0 DEF Sleep
  <2>. QED BY <1>9, <2>1 DEF Sleep, Acquire
<1>10. ASSUME NEW c \in Cpus, NEW p \in Procs, SleepUnlock(c, p) PROVE panic' = FALSE
  BY <1>10 DEF SleepUnlock, Release, Pop_off, Goto
<1>11. ASSUME NEW c \in Cpus, NEW p \in Procs, Sched(c, p) PROVE panic' = FALSE
  BY <1>11 DEF Sched, Goto
<1>12. ASSUME NEW c \in Cpus, NEW p \in Procs, Resume(c, p) PROVE panic' = FALSE
  <2>1. Holds(c, p) /\ ~cpu[c].intr /\ cpu[c].noff >= 1 BY <1>12 DEF Resume
  <2>. QED BY <1>12, <2>1 DEF Resume
<1>13. ASSUME NEW c \in Cpus, NEW p \in Procs, Relock(c, p) PROVE panic' = FALSE
  <2>1. ~Holds(c, lk[p]) BY <1>13 DEF Relock
  <2>. QED BY Zenon, <1>13, <2>1 DEF Relock, Acquire
<1>14. ASSUME NEW c \in Cpus, NEW p \in Procs, UserRet(c, p) PROVE panic' = FALSE
  BY <1>14 DEF UserRet, Goto
<1>15. ASSUME NEW c \in Cpus, NEW p \in Procs, SchedLock(c, p) PROVE panic' = FALSE
  <2>1. ~Holds(c, p) BY <1>15 DEF SchedLock
  <2>. QED BY Zenon, <1>15, <2>1 DEF SchedLock, Acquire
<1>16. ASSUME NEW c \in Cpus, NEW p \in Procs, NEW sc \in BOOLEAN, UserTrap(c, p, sc) PROVE panic' = FALSE
  BY <1>16 DEF UserTrap, Goto
<1>17. ASSUME NEW c \in Cpus, SchedOn(c) PROVE panic' = FALSE
  BY <1>17 DEF SchedOn, Goto
<1>18. ASSUME NEW c \in Cpus, SchedOff(c) PROVE panic' = FALSE
  BY <1>18 DEF SchedOff, Goto
<1>19. ASSUME NEW c \in Cpus, SchedSwtch(c) PROVE panic' = FALSE
  BY <1>19 DEF SchedSwtch, Goto
<1>20. ASSUME NEW c \in Cpus, SchedUnlock(c) PROVE panic' = FALSE
  BY <1>20 DEF SchedUnlock, Release, Pop_off, Goto
<1>21. ASSUME NEW c \in Cpus, Wfi(c) PROVE panic' = FALSE
  BY <1>21 DEF Wfi, Goto
<1>22. CASE UNCHANGED vars
  BY ONLY <1>22, SpinInv DEF vars, SpinInv, TypeOK
<1>. QED
  BY ONLY Zenon, [Next]_vars, <1>1, <1>2, <1>3, <1>4, <1>5, <1>6, <1>7, <1>8, <1>9, <1>10, <1>11,
      <1>12, <1>13, <1>14, <1>15, <1>16, <1>17, <1>18, <1>19, <1>20, <1>21, <1>22
   DEF Next

\* The depth follows the places of the threads, also when the CPU switches.
LEMMA StepDepth ==
  ASSUME SpinlockAssumption, SpinInv, [Next]_vars
  PROVE  DepthInv'
<1>. USE DEF SpinlockAssumption, SpinInv, TypeOK, PlaceInv, CpuState, Runs, None, Threads
<1>. USE DEF RunInv, DepthInv, Depth, One, Spins, HasLk, HasWant, HasSelf
<1>. USE DEF HasLk, ProcAt, SchedAt, Parked, CommonAt
<1>1. ASSUME NEW c \in Cpus, NEW t \in Threads, TestAndSet(c, t) PROVE DepthInv'
  BY <1>1 DEF TestAndSet, Goto, Spins, Got
<1>2. ASSUME NEW c \in Cpus, NEW t \in Threads, NEW l \in Locks, AcquireLock(c, t, l) PROVE DepthInv'
  BY <1>2 DEF AcquireLock, Acquire, Push_off
<1>3. ASSUME NEW c \in Cpus, NEW t \in Threads, NEW q \in Procs, WakeupLock(c, t, q) PROVE DepthInv'
  BY <1>3 DEF WakeupLock, Acquire, Push_off
<1>4. ASSUME NEW c \in Cpus, NEW t \in Threads, Wake(c, t) PROVE DepthInv'
  BY <1>4 DEF Wake, Release, Pop_off, Goto
<1>5. ASSUME NEW c \in Cpus, NEW t \in Threads, ReleaseLock(c, t) PROVE DepthInv'
  BY <1>5 DEF ReleaseLock, Release, Pop_off, Goto, Base
<1>6. ASSUME NEW c \in Cpus, NEW t \in Threads, KernelTrap(c, t) PROVE DepthInv'
  BY <1>6 DEF KernelTrap, Goto
<1>7. ASSUME NEW c \in Cpus, NEW t \in Threads, KernelRet(c, t) PROVE DepthInv'
  BY <1>7 DEF KernelRet, Goto
<1>8. ASSUME NEW c \in Cpus, NEW p \in Procs, Yield(c, p) PROVE DepthInv'
  BY <1>8 DEF Yield, Acquire, Push_off
<1>9. ASSUME NEW c \in Cpus, NEW p \in Procs, Sleep(c, p) PROVE DepthInv'
  BY <1>9 DEF Sleep, Acquire, Push_off
<1>10. ASSUME NEW c \in Cpus, NEW p \in Procs, SleepUnlock(c, p) PROVE DepthInv'
  BY <1>10 DEF SleepUnlock, Release, Pop_off, Goto
<1>11. ASSUME NEW c \in Cpus, NEW p \in Procs, Sched(c, p) PROVE DepthInv'
  BY <1>11 DEF Sched, Goto
<1>12. ASSUME NEW c \in Cpus, NEW p \in Procs, Resume(c, p) PROVE DepthInv'
  BY <1>12 DEF Resume, Pop_off, Goto, Base
<1>13. ASSUME NEW c \in Cpus, NEW p \in Procs, Relock(c, p) PROVE DepthInv'
  BY <1>13 DEF Relock, Acquire, Push_off
<1>14. ASSUME NEW c \in Cpus, NEW p \in Procs, UserRet(c, p) PROVE DepthInv'
  BY <1>14 DEF UserRet, Goto
<1>15. ASSUME NEW c \in Cpus, NEW p \in Procs, SchedLock(c, p) PROVE DepthInv'
  BY <1>15 DEF SchedLock, Acquire, Push_off
<1>16. ASSUME NEW c \in Cpus, NEW p \in Procs, NEW sc \in BOOLEAN, UserTrap(c, p, sc) PROVE DepthInv'
  BY <1>16 DEF UserTrap, Goto
<1>17. ASSUME NEW c \in Cpus, SchedOn(c) PROVE DepthInv'
  BY <1>17 DEF SchedOn, Goto
<1>18. ASSUME NEW c \in Cpus, SchedOff(c) PROVE DepthInv'
  BY <1>18 DEF SchedOff, Goto
<1>19. ASSUME NEW c \in Cpus, SchedSwtch(c) PROVE DepthInv'
  BY <1>19 DEF SchedSwtch, Goto
<1>20. ASSUME NEW c \in Cpus, SchedUnlock(c) PROVE DepthInv'
  BY <1>20 DEF SchedUnlock, Release, Pop_off, Goto
<1>21. ASSUME NEW c \in Cpus, Wfi(c) PROVE DepthInv'
  BY <1>21 DEF Wfi, Goto
<1>22. CASE UNCHANGED vars
  BY ONLY <1>22, SpinInv DEF vars, SpinInv, DepthInv
<1>. QED
  BY ONLY Zenon, [Next]_vars, <1>1, <1>2, <1>3, <1>4, <1>5, <1>6, <1>7, <1>8, <1>9, <1>10, <1>11,
      <1>12, <1>13, <1>14, <1>15, <1>16, <1>17, <1>18, <1>19, <1>20, <1>21, <1>22
   DEF Next

\* The locks of a CPU are those of its thread, also when the CPU switches: p->lock
\* is handed over by swtch.
LEMMA StepLock ==
  ASSUME SpinlockAssumption, SpinInv, [Next]_vars
  PROVE  LockInv'
<1>. USE DEF SpinlockAssumption, SpinInv, TypeOK, PlaceInv, CpuState, Runs, None, Threads
<1>. USE DEF RunInv, LockInv, Holds, Owns, HasLk, HasWant, HasSelf, ProcAt, SchedAt, Parked, CommonAt
<1>1. ASSUME NEW c \in Cpus, NEW t \in Threads, TestAndSet(c, t) PROVE LockInv'
  BY <1>1 DEF TestAndSet, Goto, Spins, Got
<1>2. ASSUME NEW c \in Cpus, NEW t \in Threads, NEW l \in Locks, AcquireLock(c, t, l) PROVE LockInv'
  BY <1>2 DEF AcquireLock, Acquire, Push_off
<1>3. ASSUME NEW c \in Cpus, NEW t \in Threads, NEW q \in Procs, WakeupLock(c, t, q) PROVE LockInv'
  BY <1>3 DEF WakeupLock, Acquire, Push_off
<1>4. ASSUME NEW c \in Cpus, NEW t \in Threads, Wake(c, t) PROVE LockInv'
  BY <1>4 DEF Wake, Release, Pop_off, Goto
<1>5. ASSUME NEW c \in Cpus, NEW t \in Threads, ReleaseLock(c, t) PROVE LockInv'
  BY <1>5 DEF ReleaseLock, Release, Pop_off, Goto, Base
<1>6. ASSUME NEW c \in Cpus, NEW t \in Threads, KernelTrap(c, t) PROVE LockInv'
  BY <1>6 DEF KernelTrap, Goto
<1>7. ASSUME NEW c \in Cpus, NEW t \in Threads, KernelRet(c, t) PROVE LockInv'
  BY <1>7 DEF KernelRet, Goto
<1>8. ASSUME NEW c \in Cpus, NEW p \in Procs, Yield(c, p) PROVE LockInv'
  BY <1>8 DEF Yield, Acquire, Push_off
<1>9. ASSUME NEW c \in Cpus, NEW p \in Procs, Sleep(c, p) PROVE LockInv'
  BY <1>9 DEF Sleep, Acquire, Push_off
<1>10. ASSUME NEW c \in Cpus, NEW p \in Procs, SleepUnlock(c, p) PROVE LockInv'
  BY <1>10 DEF SleepUnlock, Release, Pop_off, Goto
<1>11. ASSUME NEW c \in Cpus, NEW p \in Procs, Sched(c, p) PROVE LockInv'
  BY <1>11 DEF Sched, Goto
<1>12. ASSUME NEW c \in Cpus, NEW p \in Procs, Resume(c, p) PROVE LockInv'
  BY <1>12 DEF Resume, Pop_off, Goto, Base
<1>13. ASSUME NEW c \in Cpus, NEW p \in Procs, Relock(c, p) PROVE LockInv'
  BY <1>13 DEF Relock, Acquire, Push_off
<1>14. ASSUME NEW c \in Cpus, NEW p \in Procs, UserRet(c, p) PROVE LockInv'
  BY <1>14 DEF UserRet, Goto
<1>15. ASSUME NEW c \in Cpus, NEW p \in Procs, SchedLock(c, p) PROVE LockInv'
  BY <1>15 DEF SchedLock, Acquire, Push_off
<1>16. ASSUME NEW c \in Cpus, NEW p \in Procs, NEW sc \in BOOLEAN, UserTrap(c, p, sc) PROVE LockInv'
  BY <1>16 DEF UserTrap, Goto
<1>17. ASSUME NEW c \in Cpus, SchedOn(c) PROVE LockInv'
  BY <1>17 DEF SchedOn, Goto
<1>18. ASSUME NEW c \in Cpus, SchedOff(c) PROVE LockInv'
  BY <1>18 DEF SchedOff, Goto
<1>19. ASSUME NEW c \in Cpus, SchedSwtch(c) PROVE LockInv'
  BY <1>19 DEF SchedSwtch, Goto
<1>20. ASSUME NEW c \in Cpus, SchedUnlock(c) PROVE LockInv'
  BY <1>20 DEF SchedUnlock, Release, Pop_off, Goto
<1>21. ASSUME NEW c \in Cpus, Wfi(c) PROVE LockInv'
  BY <1>21 DEF Wfi, Goto
<1>22. CASE UNCHANGED vars
  BY ONLY <1>22, SpinInv DEF vars, SpinInv, LockInv, Holds, Owns
<1>. QED
  BY ONLY Zenon, [Next]_vars, <1>1, <1>2, <1>3, <1>4, <1>5, <1>6, <1>7, <1>8, <1>9, <1>10, <1>11,
      <1>12, <1>13, <1>14, <1>15, <1>16, <1>17, <1>18, <1>19, <1>20, <1>21, <1>22
   DEF Next

\* intena of sched carries the interrupt bit of a process to its next CPU.
LEMMA StepIntr ==
  ASSUME SpinlockAssumption, SpinInv, [Next]_vars
  PROVE  IntrInv'
<1>. USE DEF SpinlockAssumption, SpinInv, TypeOK, PlaceInv, CpuState, Runs, None, Threads
<1>. USE DEF RunInv, IntrInv, DepthInv, Depth, One, Spins, HasLk, HasWant, HasSelf, ProcAt, SchedAt,
     Parked, CommonAt
<1>1. ASSUME NEW c \in Cpus, NEW t \in Threads, TestAndSet(c, t) PROVE IntrInv'
  BY <1>1 DEF TestAndSet, Goto, Spins, Got
<1>2. ASSUME NEW c \in Cpus, NEW t \in Threads, NEW l \in Locks, AcquireLock(c, t, l) PROVE IntrInv'
  BY <1>2 DEF AcquireLock, Acquire, Push_off
<1>3. ASSUME NEW c \in Cpus, NEW t \in Threads, NEW q \in Procs, WakeupLock(c, t, q) PROVE IntrInv'
  BY <1>3 DEF WakeupLock, Acquire, Push_off
<1>4. ASSUME NEW c \in Cpus, NEW t \in Threads, Wake(c, t) PROVE IntrInv'
  BY <1>4 DEF Wake, Release, Pop_off, Goto
<1>5. ASSUME NEW c \in Cpus, NEW t \in Threads, ReleaseLock(c, t) PROVE IntrInv'
  BY <1>5 DEF ReleaseLock, Release, Pop_off, Goto, Base
<1>6. ASSUME NEW c \in Cpus, NEW t \in Threads, KernelTrap(c, t) PROVE IntrInv'
  BY <1>6 DEF KernelTrap, Goto
<1>7. ASSUME NEW c \in Cpus, NEW t \in Threads, KernelRet(c, t) PROVE IntrInv'
  BY <1>7 DEF KernelRet, Goto
<1>8. ASSUME NEW c \in Cpus, NEW p \in Procs, Yield(c, p) PROVE IntrInv'
  BY <1>8 DEF Yield, Acquire, Push_off
<1>9. ASSUME NEW c \in Cpus, NEW p \in Procs, Sleep(c, p) PROVE IntrInv'
  BY <1>9 DEF Sleep, Acquire, Push_off
<1>10. ASSUME NEW c \in Cpus, NEW p \in Procs, SleepUnlock(c, p) PROVE IntrInv'
  BY <1>10 DEF SleepUnlock, Release, Pop_off, Goto
<1>11. ASSUME NEW c \in Cpus, NEW p \in Procs, Sched(c, p) PROVE IntrInv'
  BY <1>11 DEF Sched, Goto
<1>12. ASSUME NEW c \in Cpus, NEW p \in Procs, Resume(c, p) PROVE IntrInv'
  BY <1>12 DEF Resume, Pop_off, Goto, Base
<1>13. ASSUME NEW c \in Cpus, NEW p \in Procs, Relock(c, p) PROVE IntrInv'
  BY <1>13 DEF Relock, Acquire, Push_off
<1>14. ASSUME NEW c \in Cpus, NEW p \in Procs, UserRet(c, p) PROVE IntrInv'
  BY <1>14 DEF UserRet, Goto
<1>15. ASSUME NEW c \in Cpus, NEW p \in Procs, SchedLock(c, p) PROVE IntrInv'
  BY <1>15 DEF SchedLock, Acquire, Push_off
<1>16. ASSUME NEW c \in Cpus, NEW p \in Procs, NEW sc \in BOOLEAN, UserTrap(c, p, sc) PROVE IntrInv'
  BY <1>16 DEF UserTrap, Goto
<1>17. ASSUME NEW c \in Cpus, SchedOn(c) PROVE IntrInv'
  BY <1>17 DEF SchedOn, Goto
<1>18. ASSUME NEW c \in Cpus, SchedOff(c) PROVE IntrInv'
  BY <1>18 DEF SchedOff, Goto
<1>19. ASSUME NEW c \in Cpus, SchedSwtch(c) PROVE IntrInv'
  BY <1>19 DEF SchedSwtch, Goto
<1>20. ASSUME NEW c \in Cpus, SchedUnlock(c) PROVE IntrInv'
  BY <1>20 DEF SchedUnlock, Release, Pop_off, Goto
<1>21. ASSUME NEW c \in Cpus, Wfi(c) PROVE IntrInv'
  BY <1>21 DEF Wfi, Goto
<1>22. CASE UNCHANGED vars
  BY ONLY <1>22, SpinInv DEF vars, SpinInv, IntrInv
<1>. QED
  BY ONLY Zenon, [Next]_vars, <1>1, <1>2, <1>3, <1>4, <1>5, <1>6, <1>7, <1>8, <1>9, <1>10, <1>11,
      <1>12, <1>13, <1>14, <1>15, <1>16, <1>17, <1>18, <1>19, <1>20, <1>21, <1>22
   DEF Next

\* An interrupt bit left behind by a process comes with found.
LEMMA StepWfi ==
  ASSUME SpinlockAssumption, SpinInv, [Next]_vars
  PROVE  WfiInv'
<1>. USE DEF SpinlockAssumption, SpinInv, TypeOK, PlaceInv, CpuState, Runs, None, Threads
<1>. USE DEF RunInv, WfiInv, DepthInv, Depth, One, Spins, HasLk, HasWant, HasSelf, ProcAt, SchedAt,
     Parked, CommonAt
<1>1. ASSUME NEW c \in Cpus, NEW t \in Threads, TestAndSet(c, t) PROVE WfiInv'
  BY <1>1 DEF TestAndSet, Goto, Spins, Got
<1>2. ASSUME NEW c \in Cpus, NEW t \in Threads, NEW l \in Locks, AcquireLock(c, t, l) PROVE WfiInv'
  BY <1>2 DEF AcquireLock, Acquire, Push_off
<1>3. ASSUME NEW c \in Cpus, NEW t \in Threads, NEW q \in Procs, WakeupLock(c, t, q) PROVE WfiInv'
  BY <1>3 DEF WakeupLock, Acquire, Push_off
<1>4. ASSUME NEW c \in Cpus, NEW t \in Threads, Wake(c, t) PROVE WfiInv'
  BY <1>4 DEF Wake, Release, Pop_off, Goto
<1>5. ASSUME NEW c \in Cpus, NEW t \in Threads, ReleaseLock(c, t) PROVE WfiInv'
  BY <1>5 DEF ReleaseLock, Release, Pop_off, Goto, Base
<1>6. ASSUME NEW c \in Cpus, NEW t \in Threads, KernelTrap(c, t) PROVE WfiInv'
  BY <1>6 DEF KernelTrap, Goto
<1>7. ASSUME NEW c \in Cpus, NEW t \in Threads, KernelRet(c, t) PROVE WfiInv'
  BY <1>7 DEF KernelRet, Goto
<1>8. ASSUME NEW c \in Cpus, NEW p \in Procs, Yield(c, p) PROVE WfiInv'
  BY <1>8 DEF Yield, Acquire, Push_off
<1>9. ASSUME NEW c \in Cpus, NEW p \in Procs, Sleep(c, p) PROVE WfiInv'
  BY <1>9 DEF Sleep, Acquire, Push_off
<1>10. ASSUME NEW c \in Cpus, NEW p \in Procs, SleepUnlock(c, p) PROVE WfiInv'
  BY <1>10 DEF SleepUnlock, Release, Pop_off, Goto
<1>11. ASSUME NEW c \in Cpus, NEW p \in Procs, Sched(c, p) PROVE WfiInv'
  BY <1>11 DEF Sched, Goto
<1>12. ASSUME NEW c \in Cpus, NEW p \in Procs, Resume(c, p) PROVE WfiInv'
  BY <1>12 DEF Resume, Pop_off, Goto, Base
<1>13. ASSUME NEW c \in Cpus, NEW p \in Procs, Relock(c, p) PROVE WfiInv'
  BY <1>13 DEF Relock, Acquire, Push_off
<1>14. ASSUME NEW c \in Cpus, NEW p \in Procs, UserRet(c, p) PROVE WfiInv'
  BY <1>14 DEF UserRet, Goto
<1>15. ASSUME NEW c \in Cpus, NEW p \in Procs, SchedLock(c, p) PROVE WfiInv'
  BY <1>15 DEF SchedLock, Acquire, Push_off
<1>16. ASSUME NEW c \in Cpus, NEW p \in Procs, NEW sc \in BOOLEAN, UserTrap(c, p, sc) PROVE WfiInv'
  BY <1>16 DEF UserTrap, Goto
<1>17. ASSUME NEW c \in Cpus, SchedOn(c) PROVE WfiInv'
  BY <1>17 DEF SchedOn, Goto
<1>18. ASSUME NEW c \in Cpus, SchedOff(c) PROVE WfiInv'
  BY <1>18 DEF SchedOff, Goto
<1>19. ASSUME NEW c \in Cpus, SchedSwtch(c) PROVE WfiInv'
  BY <1>19 DEF SchedSwtch, Goto
<1>20. ASSUME NEW c \in Cpus, SchedUnlock(c) PROVE WfiInv'
  BY <1>20 DEF SchedUnlock, Release, Pop_off, Goto
<1>21. ASSUME NEW c \in Cpus, Wfi(c) PROVE WfiInv'
  BY <1>21 DEF Wfi, Goto
<1>22. CASE UNCHANGED vars
  BY ONLY <1>22, SpinInv DEF vars, SpinInv, WfiInv
<1>. QED
  BY ONLY Zenon, [Next]_vars, <1>1, <1>2, <1>3, <1>4, <1>5, <1>6, <1>7, <1>8, <1>9, <1>10, <1>11,
      <1>12, <1>13, <1>14, <1>15, <1>16, <1>17, <1>18, <1>19, <1>20, <1>21, <1>22
   DEF Next

\* push_off, pop_off and the writes of the fields of struct cpu keep its type.
LEMMA CpuUpdates ==
  ASSUME NEW s \in CpuState
  PROVE  /\ Push_off(s) \in CpuState /\ Pop_off(s) \in CpuState
         /\ \A v \in BOOLEAN : [s EXCEPT !.intr = v] \in CpuState /\ [s EXCEPT !.intena = v] \in CpuState
         /\ \A t \in Threads : [s EXCEPT !.run = t] \in CpuState
<1>1. \A v, w \in BOOLEAN, n \in Int : [s EXCEPT !.intr = v, !.noff = n, !.intena = w] \in CpuState
  BY Zenon DEF CpuState
<1>2. \A v \in BOOLEAN, n \in Int : [s EXCEPT !.noff = n, !.intr = v] \in CpuState
  BY Zenon DEF CpuState
<1>3. \A v \in BOOLEAN : [s EXCEPT !.intr = v] \in CpuState /\ [s EXCEPT !.intena = v] \in CpuState
  BY DEF CpuState
<1>4. \A t \in Threads : [s EXCEPT !.run = t] \in CpuState BY DEF CpuState
<1>5. s.noff + 1 \in Int /\ s.noff - 1 \in Int /\ s.intr \in BOOLEAN /\ s.intena \in BOOLEAN
  BY DEF CpuState
<1>6. (IF s.noff = 0 THEN s.intr ELSE s.intena) \in BOOLEAN BY <1>5
<1>7. Push_off(s) \in CpuState BY Zenon, <1>1, <1>5, <1>6 DEF Push_off
<1>8. Pop_off(s) \in CpuState BY Zenon, <1>2, <1>5 DEF Pop_off
<1>. QED BY ONLY Zenon, <1>3, <1>4, <1>7, <1>8

\* Every action keeps the types.
LEMMA StepType ==
  ASSUME SpinlockAssumption, SpinInv, [Next]_vars
  PROVE  TypeOK'
<1>0. panic' = FALSE BY Zenon, StepPanic
<1>. USE DEF SpinlockAssumption, SpinInv, TypeOK, PlaceInv, Runs, None, Threads
<1>. USE <1>0 DEF HasLk, ProcAt, SchedAt, Parked, CommonAt, Spins, Got
<1>1. ASSUME NEW c \in Cpus, NEW t \in Threads, TestAndSet(c, t) PROVE TypeOK'
  <2>1. cpu' \in [Cpus -> CpuState] BY <1>1, CpuUpdates DEF TestAndSet
  <2>. QED BY <1>1, <2>1 DEF TestAndSet, Goto, Spins, Got
<1>2. ASSUME NEW c \in Cpus, NEW t \in Threads, NEW l \in Locks, AcquireLock(c, t, l) PROVE TypeOK'
  <2>1. cpu' \in [Cpus -> CpuState] BY <1>2, CpuUpdates DEF AcquireLock, Acquire
  <2>. QED BY <1>2, <2>1 DEF AcquireLock, Acquire, Push_off
<1>3. ASSUME NEW c \in Cpus, NEW t \in Threads, NEW q \in Procs, WakeupLock(c, t, q) PROVE TypeOK'
  <2>1. cpu' \in [Cpus -> CpuState] BY <1>3, CpuUpdates DEF WakeupLock, Acquire
  <2>. QED BY <1>3, <2>1 DEF WakeupLock, Acquire, Push_off
<1>4. ASSUME NEW c \in Cpus, NEW t \in Threads, Wake(c, t) PROVE TypeOK'
  <2>1. cpu' \in [Cpus -> CpuState] BY <1>4, CpuUpdates DEF Wake, Release
  <2>. QED BY <1>4, <2>1 DEF Wake, Release, Pop_off, Goto
<1>5. ASSUME NEW c \in Cpus, NEW t \in Threads, ReleaseLock(c, t) PROVE TypeOK'
  <2>1. cpu' \in [Cpus -> CpuState] BY <1>5, CpuUpdates DEF ReleaseLock, Release
  <2>. QED BY <1>5, <2>1 DEF ReleaseLock, Release, Pop_off, Goto, Base
<1>6. ASSUME NEW c \in Cpus, NEW t \in Threads, KernelTrap(c, t) PROVE TypeOK'
  <2>1. cpu[c] \in CpuState OBVIOUS
  <2>2. [cpu[c] EXCEPT !.intr = FALSE] \in CpuState BY ONLY Zenon, <2>1, CpuUpdates
  <2>3. cpu' \in [Cpus -> CpuState] BY <1>6, <2>2 DEF KernelTrap
  <2>. QED BY <1>6, <2>3 DEF KernelTrap, Goto, RunInv, WfiInv
<1>7. ASSUME NEW c \in Cpus, NEW t \in Threads, KernelRet(c, t) PROVE TypeOK'
  <2>1. cpu[c] \in CpuState OBVIOUS
  <2>2. [cpu[c] EXCEPT !.intr = TRUE] \in CpuState BY ONLY Zenon, <2>1, CpuUpdates
  <2>3. cpu' \in [Cpus -> CpuState] BY <1>7, <2>2 DEF KernelRet
  <2>. QED BY <1>7, <2>3 DEF KernelRet, Goto
<1>8. ASSUME NEW c \in Cpus, NEW p \in Procs, Yield(c, p) PROVE TypeOK'
  <2>1. cpu' \in [Cpus -> CpuState] BY <1>8, CpuUpdates DEF Yield, Acquire
  <2>. QED BY <1>8, <2>1 DEF Yield, Acquire, Push_off
<1>9. ASSUME NEW c \in Cpus, NEW p \in Procs, Sleep(c, p) PROVE TypeOK'
  <2>1. cpu' \in [Cpus -> CpuState] BY <1>9, CpuUpdates DEF Sleep, Acquire
  <2>. QED BY <1>9, <2>1 DEF Sleep, Acquire, Push_off
<1>10. ASSUME NEW c \in Cpus, NEW p \in Procs, SleepUnlock(c, p) PROVE TypeOK'
  <2>1. cpu' \in [Cpus -> CpuState] BY <1>10, CpuUpdates DEF SleepUnlock, Release
  <2>. QED BY <1>10, <2>1 DEF SleepUnlock, Release, Pop_off, Goto
<1>11. ASSUME NEW c \in Cpus, NEW p \in Procs, Sched(c, p) PROVE TypeOK'
  <2>1. cpu[c].intena \in BOOLEAN BY DEF CpuState
  <2>2. cpu' \in [Cpus -> CpuState] BY <1>11, CpuUpdates DEF Sched
  <2>3. intena' \in [Procs -> BOOLEAN] BY <1>11, <2>1 DEF Sched
  <2>. QED BY <1>11, <2>2, <2>3 DEF Sched, Goto
<1>12. ASSUME NEW c \in Cpus, NEW p \in Procs, Resume(c, p) PROVE TypeOK'
  <2>1. cpu[c] \in CpuState /\ intena[p] \in BOOLEAN OBVIOUS
  <2>2. /\ Pop_off(cpu[c]) \in CpuState
        /\ Pop_off([cpu[c] EXCEPT !.intena = intena[p]]) \in CpuState
    BY ONLY Zenon, <2>1, CpuUpdates
  <2>3. cpu' \in [Cpus -> CpuState] BY <1>12, <2>2 DEF Resume
  <2>4. cpu'[c].intr \in BOOLEAN BY <2>3 DEF CpuState
  <2>5. expect' \in [Threads -> BOOLEAN] BY <1>12, <2>4 DEF Resume
  <2>. QED BY <1>12, <2>3, <2>5 DEF Resume, Pop_off, Goto, Base
<1>13. ASSUME NEW c \in Cpus, NEW p \in Procs, Relock(c, p) PROVE TypeOK'
  <2>1. cpu' \in [Cpus -> CpuState] BY <1>13, CpuUpdates DEF Relock, Acquire
  <2>. QED BY <1>13, <2>1 DEF Relock, Acquire, Push_off
<1>14. ASSUME NEW c \in Cpus, NEW p \in Procs, UserRet(c, p) PROVE TypeOK'
  <2>1. cpu[c] \in CpuState OBVIOUS
  <2>2. [cpu[c] EXCEPT !.intr = FALSE] \in CpuState BY ONLY Zenon, <2>1, CpuUpdates
  <2>3. cpu' \in [Cpus -> CpuState] BY <1>14, <2>2 DEF UserRet
  <2>. QED BY <1>14, <2>3 DEF UserRet, Goto
<1>15. ASSUME NEW c \in Cpus, NEW p \in Procs, SchedLock(c, p) PROVE TypeOK'
  <2>1. cpu' \in [Cpus -> CpuState] BY <1>15, CpuUpdates DEF SchedLock, Acquire
  <2>. QED BY <1>15, <2>1 DEF SchedLock, Acquire, Push_off
<1>16. ASSUME NEW c \in Cpus, NEW p \in Procs, NEW sc \in BOOLEAN, UserTrap(c, p, sc) PROVE TypeOK'
  <2>1. cpu[c] \in CpuState OBVIOUS
  <2>2. [cpu[c] EXCEPT !.intr = sc] \in CpuState BY ONLY Zenon, <2>1, CpuUpdates
  <2>3. cpu' \in [Cpus -> CpuState] BY <1>16, <2>2 DEF UserTrap
  <2>. QED BY <1>16, <2>3 DEF UserTrap, Goto
<1>17. ASSUME NEW c \in Cpus, SchedOn(c) PROVE TypeOK'
  <2>1. cpu[c] \in CpuState OBVIOUS
  <2>2. [cpu[c] EXCEPT !.intr = TRUE] \in CpuState BY ONLY Zenon, <2>1, CpuUpdates
  <2>3. cpu' \in [Cpus -> CpuState] BY <1>17, <2>2 DEF SchedOn
  <2>. QED BY <1>17, <2>3 DEF SchedOn, Goto
<1>18. ASSUME NEW c \in Cpus, SchedOff(c) PROVE TypeOK'
  <2>1. cpu[c] \in CpuState OBVIOUS
  <2>2. [cpu[c] EXCEPT !.intr = FALSE] \in CpuState BY ONLY Zenon, <2>1, CpuUpdates
  <2>3. cpu' \in [Cpus -> CpuState] BY <1>18, <2>2 DEF SchedOff
  <2>. QED BY <1>18, <2>3 DEF SchedOff, Goto
<1>19. ASSUME NEW c \in Cpus, SchedSwtch(c) PROVE TypeOK'
  <2>1. cpu' \in [Cpus -> CpuState] BY <1>19, CpuUpdates DEF SchedSwtch
  <2>. QED BY <1>19, <2>1 DEF SchedSwtch, Goto
<1>20. ASSUME NEW c \in Cpus, SchedUnlock(c) PROVE TypeOK'
  <2>1. cpu' \in [Cpus -> CpuState] BY <1>20, CpuUpdates DEF SchedUnlock, Release
  <2>. QED BY <1>20, <2>1 DEF SchedUnlock, Release, Pop_off, Goto
<1>21. ASSUME NEW c \in Cpus, Wfi(c) PROVE TypeOK'
  <2>1. cpu' \in [Cpus -> CpuState] BY <1>21, CpuUpdates DEF Wfi
  <2>. QED BY <1>21, <2>1 DEF Wfi, Goto
<1>22. CASE UNCHANGED vars
  BY ONLY <1>22, SpinInv DEF vars, SpinInv, TypeOK
<1>. QED
  BY ONLY Zenon, [Next]_vars, <1>1, <1>2, <1>3, <1>4, <1>5, <1>6, <1>7, <1>8, <1>9, <1>10, <1>11,
      <1>12, <1>13, <1>14, <1>15, <1>16, <1>17, <1>18, <1>19, <1>20, <1>21, <1>22
   DEF Next

\* Every step keeps the inductive invariant.
LEMMA SpinInductive ==
  ASSUME SpinlockAssumption
  PROVE  Spec => []SpinInv
<1>1. Init => SpinInv BY InitSpin
<1>2. SpinInv /\ [Next]_vars => SpinInv'
  BY StepType, StepPlace, StepRun, StepLock, StepDepth, StepIntr, StepWfi DEF SpinInv
<1>. QED BY <1>1, <1>2, PTL DEF Spec

-----------------------------------------------------------------------------
(* The theorems.                                                           *)

\* acquire, release, pop_off and sched never panic.
THEOREM LocksNeverPanic ==
  ASSUME SpinlockAssumption
  PROVE  Spec => []NeverPanics
<1>1. SpinInv => NeverPanics BY DEF SpinInv, TypeOK, NeverPanics
<1>. QED BY <1>1, SpinInductive, PTL

\* Two CPUs run threads that both own a lock only if they are the same CPU.
Exclusive ==
  \A c, d \in Cpus, l \in Procs \cup Locks : Owns(cpu[c].run, l) /\ Owns(cpu[d].run, l) => c = d

\* A lock has one holder: two CPUs never run threads that are both in the
\* critical section of the same lock.
THEOREM LocksExclude ==
  ASSUME SpinlockAssumption
  PROVE  Spec => []Exclusive
<1>1. SpinInv => Exclusive BY DEF SpinInv, LockInv, Holds, Exclusive
<1>. QED BY <1>1, SpinInductive, PTL

\* A pair of different locks counts as two.
LEMMA TwoElements ==
  ASSUME NEW x, NEW y, x # y
  PROVE  Cardinality({x} \cup {y}) = 2
<1>1. IsFiniteSet({x}) /\ Cardinality({x}) = 1 BY FS_Singleton
<1>2. Cardinality({x} \cup {y}) = Cardinality({x}) + 1 BY <1>1, FS_AddElement
<1>. QED BY <1>1, <1>2

\* The locks of a CPU are as many as the depth, less the one it spins for.
LEMMA HeldCount ==
  ASSUME SpinlockAssumption, SpinInv, NEW c \in Cpus
  PROVE  cpu[c].noff = Cardinality({l \in DOMAIN holder : Holds(c, l)}) + One(pc[cpu[c].run] \in Spins)
<1>. DEFINE t == cpu[c].run
            Held == {l \in DOMAIN holder : Holds(c, l)}
<1>. USE DEF SpinlockAssumption, SpinInv, TypeOK, CpuState, PlaceInv, RunInv, Threads, None, ProcAt,
     SchedAt, Parked,
     CommonAt, HasLk, HasWant, HasSelf
<1>1. Held = {l \in Procs \cup Locks : Owns(t, l)} BY DEF LockInv
<1>2. cpu[c].noff = Depth(pc[t]) BY DEF DepthInv
<1>3. CASE pc[t] = "woke"
  <2>1. lk[t] # want[t] /\ lk[t] \in Procs \cup Locks /\ want[t] \in Procs \cup Locks BY <1>3
  <2>2. Held = {lk[t]} \cup {want[t]} BY <1>1, <1>3, <2>1 DEF Owns
  <2>3. Depth(pc[t]) = 2 + One(pc[t] \in Spins) BY <1>3 DEF Depth, One, Spins
  <2>4. Cardinality({lk[t]} \cup {want[t]}) = 2 BY ONLY Zenon, <2>1, TwoElements
  <2>5. Cardinality(Held) = 2 BY ONLY Zenon, <2>2, <2>4
  <2>. QED BY ONLY <1>2, <2>3, <2>5 DEF One
<1>4. CASE pc[t] = "unlock"
  <2>1. t \in Procs /\ lk[t] # t /\ lk[t] \in Locks BY <1>4
  <2>2. Held = {lk[t]} \cup {t} BY <1>1, <1>4, <2>1 DEF Owns
  <2>3. Depth(pc[t]) = 2 + One(pc[t] \in Spins) BY <1>4 DEF Depth, One, Spins
  <2>4. Cardinality({lk[t]} \cup {t}) = 2 BY ONLY Zenon, <2>1, TwoElements
  <2>5. Cardinality(Held) = 2 BY ONLY Zenon, <2>2, <2>4
  <2>. QED BY ONLY <1>2, <2>3, <2>5 DEF One
<1>5. CASE pc[t] \in {"in", "spinwake", "spinsleep"}
  <2>1. Held = {lk[t]} BY <1>1, <1>5 DEF Owns
  <2>3. Depth(pc[t]) = 1 + One(pc[t] \in Spins) BY <1>5 DEF Depth, One, Spins
  <2>4. Cardinality(Held) = 1 BY ONLY Zenon, <2>1, FS_Singleton
  <2>. QED BY ONLY <1>2, <2>3, <2>4 DEF One
<1>6. CASE pc[t] \in {"probe", "back"}
  <2>1. Held = {want[t]} BY <1>1, <1>6 DEF Owns
  <2>3. Depth(pc[t]) = 1 + One(pc[t] \in Spins) BY <1>6 DEF Depth, One, Spins
  <2>4. Cardinality(Held) = 1 BY ONLY Zenon, <2>1, FS_Singleton
  <2>. QED BY ONLY <1>2, <2>3, <2>4 DEF One
<1>7. CASE pc[t] \in HasSelf \ {"unlock"}
  <2>1. Held = {t} BY <1>1, <1>7 DEF Owns
  <2>3. Depth(pc[t]) = 1 + One(pc[t] \in Spins) BY <1>7 DEF Depth, One, Spins
  <2>4. Cardinality(Held) = 1 BY ONLY Zenon, <2>1, FS_Singleton
  <2>. QED BY ONLY <1>2, <2>3, <2>4 DEF One
<1>8. CASE pc[t] \notin HasLk \cup HasWant \cup HasSelf
  <2>1. Held = {} BY <1>1, <1>8 DEF Owns
  <2>3. Depth(pc[t]) = 0 + One(pc[t] \in Spins) BY <1>8 DEF Depth, One, Spins
  <2>4. Cardinality(Held) = 0 BY ONLY <2>1, FS_EmptySet
  <2>. QED BY ONLY <1>2, <2>3, <2>4 DEF One
<1>. QED BY <1>3, <1>4, <1>5, <1>6, <1>7, <1>8

\* noff counts the locks, and the last pop_off restores what the first push_off
\* found, on whatever CPU the process has woken.
THEOREM InterruptsNest ==
  ASSUME SpinlockAssumption
  PROVE  Spec => []InterruptsNested
<1>1. SpinInv => NoffExact BY HeldCount DEF SpinInv, DepthInv, NoffExact, One
<1>2. SpinInv => IntrRestored
  <2>. SUFFICES ASSUME SpinInv, NEW c \in Cpus, cpu[c].noff = 0 /\ cpu[c].run \in Procs
                PROVE  cpu[c].intr = expect[cpu[c].run]
    BY DEF IntrRestored
  <2>1. cpu[c].intr \in BOOLEAN /\ expect[cpu[c].run] \in BOOLEAN
    BY DEF SpinInv, TypeOK, CpuState, Threads
  <2>2. cpu[c].intr <=> expect[cpu[c].run] BY DEF SpinInv, IntrInv
  <2>. QED BY ONLY Zenon, <2>1, <2>2
<1>. QED BY <1>1, <1>2, SpinInductive, PTL DEF InterruptsNested

\* No CPU executes wfi with interrupts on.
THEOREM WfiWaits ==
  ASSUME SpinlockAssumption
  PROVE  Spec => []WfiIntrOff
<1>1. SpinInv => WfiIntrOff BY DEF SpinInv, WfiInv, WfiIntrOff
<1>. QED BY <1>1, SpinInductive, PTL
=============================================================================
