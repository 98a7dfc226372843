------------------------------ MODULE MlfqProofs ------------------------------
(***************************************************************************)
(* Safety of the scheduler for any number of processes, CPUs and levels,   *)
(* any time slices and any boost period.                                   *)
(*                                                                         *)
(* The properties are not inductive: that a CPU which yields gives up a    *)
(* process that it really runs depends on how pc, c->proc and the place to *)
(* resume after a boost belong together.  PcInv states that, and IInv is   *)
(* the inductive invariant.                                                *)
(***************************************************************************)
EXTENDS Mlfq, TLAPS

\* Which stages have a process.  Only CPU 0 runs the boost loop, and the place
\* where it resumes afterwards decides whether it has one.
PcInv ==
  \A c \in CPUs :
    /\ pc[c] \in {"start", "scan", "idle"} => proc[c] = NoProc
    /\ pc[c] \in {"run", "account", "yield"} => proc[c] # NoProc
    /\ pc[c] = "boost" =>
         /\ c = 0
         /\ \/ resume \in {"start", "scan"} /\ proc[c] = NoProc
            \/ resume \in {"account", "yield"} /\ proc[c] # NoProc

IInv == TypeOK /\ PcInv /\ OneCpuPerProcess /\ SliceNotExhausted /\ BoostOnTime

-----------------------------------------------------------------------------
\* The initial state of the process table and of the CPUs satisfies IInv.
LEMMA InitIInv == Init => IInv
  BY SizeAssumption, SliceAssumption, TickAssumption, CallsAssumption
  DEF Init, IInv, TypeOK, PcInv, OneCpuPerProcess, SliceNotExhausted, BoostOnTime, Minus,
      Procs, CPUs, Levels, NoProc, States, PCs


\* What the proofs below use of the index sets.
LEMMA Sets ==
  /\ 0 \in CPUs /\ 1 \in Procs /\ 0 \in Levels
  /\ NoProc \notin Procs
  /\ Procs \subseteq Nat /\ Levels \subseteq Nat
  /\ \A p \in Procs : p < NPROC => p + 1 \in Procs
  /\ \A l \in Levels : l < MaxLevel => l + 1 \in Levels
  /\ 0 \in 0..MaxCalls
  BY SizeAssumption, CallsAssumption DEF CPUs, Procs, Levels, NoProc

\* Advancing the scan stays within the table and the levels.
LEMMA NextProbeType ==
  ASSUME TypeOK, NEW c \in CPUs, NEW ran, NextProbe(c, ran)
  PROVE  scan' \in [CPUs -> Levels \X Procs] /\ pc' \in [CPUs -> PCs]
<1> DEFINE lvl == scan[c][1]
           p == scan[c][2]
<1>1. lvl \in Levels /\ p \in Procs
  BY DEF TypeOK
<1>2. CASE p < NPROC
  <2>1. scan' = [scan EXCEPT ![c] = <<lvl, p + 1>>] /\ pc' = [pc EXCEPT ![c] = "scan"]
    BY <1>2 DEF NextProbe
  <2>2. <<lvl, p + 1>> \in Levels \X Procs
    BY <1>1, <1>2, Sets, ZenonT(60)
  <2> QED
    BY <2>1, <2>2 DEF TypeOK, PCs
<1>3. CASE ~(p < NPROC) /\ lvl < MaxLevel
  <2>1. scan' = [scan EXCEPT ![c] = <<lvl + 1, 1>>] /\ pc' = [pc EXCEPT ![c] = "scan"]
    BY <1>3 DEF NextProbe
  <2>2. <<lvl + 1, 1>> \in Levels \X Procs
    BY <1>1, <1>3, Sets, ZenonT(60)
  <2> QED
    BY <2>1, <2>2 DEF TypeOK, PCs
<1>4. CASE ~(p < NPROC) /\ ~(lvl < MaxLevel)
  <2>1. scan' = [scan EXCEPT ![c] = <<0, 1>>] /\ pc' = [pc EXCEPT ![c] = IF ran THEN "start" ELSE "idle"]
    BY <1>4 DEF NextProbe
  <2>2. <<0, 1>> \in Levels \X Procs
    BY Sets
  <2> QED
    BY <2>1, <2>2 DEF TypeOK, PCs
<1> QED
  BY <1>2, <1>3, <1>4

\* The pass's local variables remain Boolean.
LEMMA InPassType ==
  ASSUME TypeOK, NEW c \in CPUs, NEW f \in BOOLEAN, NEW on \in BOOLEAN, InPass(c, f, on)
  PROVE  found' \in [CPUs -> BOOLEAN] /\ intr' \in [CPUs -> BOOLEAN]
<1> DEFINE more == scan[c] # <<MaxLevel, NPROC>>
<1>1. (f /\ more) \in BOOLEAN /\ (on /\ more) \in BOOLEAN
  OBVIOUS
<1>2. found' = [found EXCEPT ![c] = f /\ more] /\ intr' = [intr EXCEPT ![c] = on /\ more]
  BY Zenon DEF InPass
<1> HIDE DEF more
<1> QED
  BY <1>1, <1>2 DEF TypeOK

\* Every step preserves the types.
LEMMA NextTypeOK == TypeOK /\ PcInv /\ [Next]_vars => TypeOK'
<1> SUFFICES ASSUME TypeOK, PcInv, [Next]_vars
             PROVE  TypeOK'
  OBVIOUS
<1> USE Sets, SizeAssumption, SliceAssumption, TickAssumption, CallsAssumption
    DEF TypeOK, PcInv, States, PCs, procVars, cpuVars, clockVars
<1>1. ASSUME NEW c \in CPUs, StartPass(c)
      PROVE  TypeOK'
  BY <1>1 DEF StartPass
<1>2. ASSUME NEW c \in CPUs, Skip(c)
      PROVE  TypeOK'
  <2>1. found[c] \in BOOLEAN /\ intr[c] \in BOOLEAN
    BY Zenon
  <2>2. found' \in [CPUs -> BOOLEAN] /\ intr' \in [CPUs -> BOOLEAN]
    <3>1. PICK f \in BOOLEAN, on \in BOOLEAN : f = found[c] /\ on = intr[c]
      BY <2>1, Zenon
    <3>2. InPass(c, f, on)
      BY <1>2, <3>1, Zenon DEF Skip
    <3> QED
      BY <3>2, InPassType
  <2>3. scan' \in [CPUs -> Levels \X Procs] /\ pc' \in [CPUs -> PCs]
    BY <1>2, <2>1, NextProbeType, Zenon DEF Skip
  <2> QED
    BY <1>2, <2>2, <2>3, Zenon DEF Skip
<1>3. ASSUME NEW c \in CPUs, Dispatch(c)
      PROVE  TypeOK'
  BY <1>3 DEF Dispatch, Eligible
<1>4. ASSUME NEW c \in CPUs, Syscall(c)
      PROVE  TypeOK'
  <2>1. proc[c] \in Procs
    BY <1>4 DEF Syscall, RunningIn
  <2>2. newcalls[proc[c]] \in 0..MaxCalls
    BY <2>1, ZenonT(60)
  <2>3. newcalls' \in [Procs -> 0..MaxCalls]
    BY <1>4, <2>1, <2>2 DEF Syscall
  <2> QED
    BY <1>4, <2>1, <2>3 DEF Syscall
<1>5. ASSUME NEW c \in CPUs, SyscallReturn(c)
      PROVE  TypeOK'
  BY <1>5 DEF SyscallReturn, RunningIn
<1>6. ASSUME NEW c \in CPUs, NEW q \in Procs, Fork(c, q)
      PROVE  TypeOK'
  BY <1>6 DEF Fork, RunningIn
<1>7. ASSUME NEW c \in CPUs, Sleep(c)
      PROVE  TypeOK'
  <2>1. found' \in [CPUs -> BOOLEAN] /\ intr' \in [CPUs -> BOOLEAN]
    BY <1>7, InPassType, Zenon DEF Sleep, BackToScheduler, RunningIn
  <2>2. scan' \in [CPUs -> Levels \X Procs] /\ pc' \in [CPUs -> PCs]
    BY <1>7, NextProbeType, Zenon DEF Sleep, BackToScheduler
  <2> QED
    BY <1>7, <2>1, <2>2, ZenonT(60) DEF Sleep, InKernel, RunningIn, BackToScheduler
<1>8. ASSUME NEW c \in CPUs, Exit(c)
      PROVE  TypeOK'
  <2>1. found' \in [CPUs -> BOOLEAN] /\ intr' \in [CPUs -> BOOLEAN]
    BY <1>8, InPassType, Zenon DEF Exit, BackToScheduler, RunningIn
  <2>2. scan' \in [CPUs -> Levels \X Procs] /\ pc' \in [CPUs -> PCs]
    BY <1>8, NextProbeType, Zenon DEF Exit, BackToScheduler
  <2> QED
    BY <1>8, <2>1, <2>2, ZenonT(60) DEF Exit, InKernel, RunningIn, BackToScheduler
<1>9. ASSUME NEW c \in CPUs, Timer(c)
      PROVE  TypeOK'
  <2>1. AfterClock(c) \in PCs
    BY DEF AfterClock
  <2>2. ticks' \in 0..(TickMod - 1)
    BY <1>9 DEF Timer, Tick
  <2>3. pc' \in [CPUs -> PCs] /\ resume' \in PCs
    BY <1>9, <2>1 DEF Timer
  <2> QED
    BY <1>9, <2>2, <2>3 DEF Timer, BoostDue
<1>10. ASSUME NEW c \in CPUs, PriorityBoost(c)
       PROVE  TypeOK'
  <2>1. boostAt' \in Procs
    BY <1>10 DEF PriorityBoost, Boostable, MoreToBoost
  <2>2. /\ cur_queue_lvl' \in [Procs -> Levels]
        /\ ticks_each_level' \in [Procs -> Nat]
        /\ newcalls' \in [Procs -> 0..MaxCalls]
    <3>1. CASE state[boostAt] = "RUNNABLE"
      <4>1. /\ cur_queue_lvl' = [cur_queue_lvl EXCEPT ![boostAt] = 0]
            /\ ticks_each_level' = [ticks_each_level EXCEPT ![boostAt] = 0]
            /\ newcalls' = [newcalls EXCEPT ![boostAt] = 0]
        BY <1>10, <3>1 DEF PriorityBoost, Boostable, MoreToBoost
      <4> QED
        BY <4>1
    <3>2. CASE state[boostAt] # "RUNNABLE"
      BY <1>10, <3>2 DEF PriorityBoost, Boostable, MoreToBoost
    <3> QED
      BY <3>1, <3>2
  <2>3. pc' \in [CPUs -> PCs] /\ resume' \in PCs /\ last_boost' \in 0..(TickMod - 1)
    BY <1>10 DEF PriorityBoost, Boostable, MoreToBoost
  <2> QED
    BY <1>10, <2>1, <2>2, <2>3 DEF PriorityBoost, Boostable, MoreToBoost
<1>11. ASSUME NEW c \in CPUs, Account(c)
       PROVE  TypeOK'
  <2>1. proc[c] \in Procs
    BY <1>11 DEF Account, SliceOver, NextLevel
  <2>2. /\ cur_queue_lvl' \in [Procs -> Levels]
        /\ ticks_each_level' \in [Procs -> Nat]
        /\ newcalls' \in [Procs -> 0..MaxCalls]
    <3> DEFINE p == proc[c]
               lvl == cur_queue_lvl[p]
               next == IF newcalls[p] < ticks_each_level[p] + 1 /\ lvl < MaxLevel THEN lvl + 1 ELSE lvl
    <3>1. next \in Levels /\ ticks_each_level[p] + 1 \in Nat
      <4>1. lvl \in Levels /\ ticks_each_level[p] \in Nat
        BY <2>1, ZenonT(60)
      <4>2. lvl < MaxLevel => lvl + 1 \in Levels
        BY <4>1, ZenonT(60)
      <4> QED
        BY <4>1, <4>2
    <3>2. CASE ticks_each_level[p] + 1 >= TimeSlice[lvl]
      <4>1. /\ cur_queue_lvl' = [cur_queue_lvl EXCEPT ![p] = next]
            /\ ticks_each_level' = [ticks_each_level EXCEPT ![p] = 0]
            /\ newcalls' = [newcalls EXCEPT ![p] = 0]
        BY <1>11, <3>2 DEF Account, SliceOver, NextLevel
      <4> QED
        BY <4>1, <3>1, ZenonT(60)
    <3>3. CASE ~(ticks_each_level[p] + 1 >= TimeSlice[lvl])
      <4>1. /\ ticks_each_level' = [ticks_each_level EXCEPT ![p] = ticks_each_level[p] + 1]
            /\ UNCHANGED <<cur_queue_lvl, newcalls>>
        BY <1>11, <3>3 DEF Account, SliceOver, NextLevel
      <4> QED
        BY <4>1, <3>1, ZenonT(60)
    <3> QED
      BY <3>2, <3>3
  <2> QED
    BY <1>11, <2>2 DEF Account, SliceOver, NextLevel
<1>12. ASSUME NEW c \in CPUs, Yield(c)
       PROVE  TypeOK'
  <2>1. found' \in [CPUs -> BOOLEAN] /\ intr' \in [CPUs -> BOOLEAN]
    BY <1>12, InPassType, Zenon DEF Yield, BackToScheduler, RunningIn
  <2>2. scan' \in [CPUs -> Levels \X Procs] /\ pc' \in [CPUs -> PCs]
    BY <1>12, NextProbeType, Zenon DEF Yield, BackToScheduler
  <2> QED
    BY <1>12, <2>1, <2>2, ZenonT(60) DEF Yield, BackToScheduler
<1>13. ASSUME NEW c \in CPUs, IdleInterrupt(c)
       PROVE  TypeOK'
  BY <1>13 DEF IdleInterrupt
<1>14. ASSUME NEW p \in Procs, Wakeup(p)
       PROVE  TypeOK'
  BY <1>14 DEF Wakeup
<1>15. ASSUME NEW p \in Procs, Reap(p)
       PROVE  TypeOK'
  BY <1>15 DEF Reap
<1>16. ASSUME NEW c \in CPUs, Killed(c)
       PROVE  TypeOK'
  BY <1>16 DEF Killed, RunningIn
<1>17. CASE UNCHANGED vars
  BY <1>17 DEF vars
<1> QED
  BY <1>1, <1>2, <1>3, <1>4, <1>5, <1>6, <1>7, <1>8, <1>9, <1>10, <1>11, <1>12, <1>13, <1>14, <1>15, <1>16, <1>17, ZenonT(60)
  DEF Next, SchedulerStep, ProcessStep, InterruptStep

\* Every step keeps pc, c->proc and the resume point together.
LEMMA NextPcInv == TypeOK /\ PcInv /\ [Next]_vars => PcInv'
<1> SUFFICES ASSUME TypeOK, PcInv, [Next]_vars
             PROVE  PcInv'
  OBVIOUS
<1> USE Sets
    DEF TypeOK, PcInv, procVars, cpuVars, clockVars
<1>1. ASSUME NEW c \in CPUs, StartPass(c)
      PROVE  PcInv'
  BY <1>1 DEF StartPass
<1>2. ASSUME NEW c \in CPUs, Skip(c)
      PROVE  PcInv'
  BY <1>2 DEF Skip, NextProbe
<1>3. ASSUME NEW c \in CPUs, Dispatch(c)
      PROVE  PcInv'
  BY <1>3 DEF Dispatch, Eligible
<1>4. ASSUME NEW c \in CPUs, Syscall(c)
      PROVE  PcInv'
  BY <1>4 DEF Syscall, RunningIn
<1>5. ASSUME NEW c \in CPUs, SyscallReturn(c)
      PROVE  PcInv'
  BY <1>5 DEF SyscallReturn, RunningIn
<1>6. ASSUME NEW c \in CPUs, NEW q \in Procs, Fork(c, q)
      PROVE  PcInv'
  BY <1>6 DEF Fork, RunningIn
<1>7. ASSUME NEW c \in CPUs, Sleep(c)
      PROVE  PcInv'
  BY <1>7 DEF Sleep, InKernel, RunningIn, BackToScheduler, NextProbe
<1>8. ASSUME NEW c \in CPUs, Exit(c)
      PROVE  PcInv'
  BY <1>8 DEF Exit, InKernel, RunningIn, BackToScheduler, NextProbe
<1>9. ASSUME NEW c \in CPUs, Timer(c)
      PROVE  PcInv'
  BY <1>9 DEF Timer, Interruptible, AfterClock, Tick, BoostDue
<1>10. ASSUME NEW c \in CPUs, PriorityBoost(c)
       PROVE  PcInv'
  BY <1>10 DEF PriorityBoost, Boostable, MoreToBoost
<1>11. ASSUME NEW c \in CPUs, Account(c)
       PROVE  PcInv'
  BY <1>11 DEF Account, SliceOver, NextLevel
<1>12. ASSUME NEW c \in CPUs, Yield(c)
       PROVE  PcInv'
  BY <1>12 DEF Yield, BackToScheduler, NextProbe
<1>13. ASSUME NEW c \in CPUs, IdleInterrupt(c)
       PROVE  PcInv'
  BY <1>13 DEF IdleInterrupt
<1>14. ASSUME NEW p \in Procs, Wakeup(p)
       PROVE  PcInv'
  BY <1>14 DEF Wakeup
<1>15. ASSUME NEW p \in Procs, Reap(p)
       PROVE  PcInv'
  BY <1>15 DEF Reap
<1>16. ASSUME NEW c \in CPUs, Killed(c)
       PROVE  PcInv'
  BY <1>16 DEF Killed, RunningIn
<1>17. CASE UNCHANGED vars
  BY <1>17, SMTT(60), ZenonT(60) DEF vars
<1> QED
  BY <1>1, <1>2, <1>3, <1>4, <1>5, <1>6, <1>7, <1>8, <1>9, <1>10, <1>11, <1>12, <1>13, <1>14, <1>15, <1>16, <1>17
  DEF Next, SchedulerStep, ProcessStep, InterruptStep

\* Every step keeps a process on at most one CPU.
LEMMA NextOneCpu == TypeOK /\ PcInv /\ OneCpuPerProcess /\ [Next]_vars => OneCpuPerProcess'
<1> SUFFICES ASSUME TypeOK, PcInv, OneCpuPerProcess, [Next]_vars
             PROVE  OneCpuPerProcess'
  OBVIOUS
<1> USE Sets
    DEF TypeOK, PcInv, OneCpuPerProcess, procVars, cpuVars, clockVars
<1>1. ASSUME NEW c \in CPUs, StartPass(c)
      PROVE  OneCpuPerProcess'
  BY <1>1 DEF StartPass
<1>2. ASSUME NEW c \in CPUs, Skip(c)
      PROVE  OneCpuPerProcess'
  BY <1>2 DEF Skip, NextProbe
<1>3. ASSUME NEW c \in CPUs, Dispatch(c)
      PROVE  OneCpuPerProcess'
  BY <1>3 DEF Dispatch, Eligible
<1>4. ASSUME NEW c \in CPUs, Syscall(c)
      PROVE  OneCpuPerProcess'
  BY <1>4 DEF Syscall, RunningIn
<1>5. ASSUME NEW c \in CPUs, SyscallReturn(c)
      PROVE  OneCpuPerProcess'
  BY <1>5 DEF SyscallReturn, RunningIn
<1>6. ASSUME NEW c \in CPUs, NEW q \in Procs, Fork(c, q)
      PROVE  OneCpuPerProcess'
  BY <1>6, SMTT(60), ZenonT(60) DEF Fork, RunningIn
<1>7. ASSUME NEW c \in CPUs, Sleep(c)
      PROVE  OneCpuPerProcess'
  BY <1>7, SMTT(60), ZenonT(60) DEF Sleep, InKernel, RunningIn, BackToScheduler, NextProbe
<1>8. ASSUME NEW c \in CPUs, Exit(c)
      PROVE  OneCpuPerProcess'
  BY <1>8 DEF Exit, InKernel, RunningIn, BackToScheduler, NextProbe
<1>9. ASSUME NEW c \in CPUs, Timer(c)
      PROVE  OneCpuPerProcess'
  BY <1>9, SMTT(60), ZenonT(60) DEF Timer, Interruptible, AfterClock, Tick, BoostDue
<1>10. ASSUME NEW c \in CPUs, PriorityBoost(c)
       PROVE  OneCpuPerProcess'
  BY <1>10, SMTT(60), ZenonT(60) DEF PriorityBoost, Boostable, MoreToBoost
<1>11. ASSUME NEW c \in CPUs, Account(c)
       PROVE  OneCpuPerProcess'
  BY <1>11 DEF Account, SliceOver, NextLevel
<1>12. ASSUME NEW c \in CPUs, Yield(c)
       PROVE  OneCpuPerProcess'
  BY <1>12 DEF Yield, BackToScheduler, NextProbe
<1>13. ASSUME NEW c \in CPUs, IdleInterrupt(c)
       PROVE  OneCpuPerProcess'
  BY <1>13 DEF IdleInterrupt
<1>14. ASSUME NEW p \in Procs, Wakeup(p)
       PROVE  OneCpuPerProcess'
  BY <1>14 DEF Wakeup
<1>15. ASSUME NEW p \in Procs, Reap(p)
       PROVE  OneCpuPerProcess'
  BY <1>15 DEF Reap
<1>16. ASSUME NEW c \in CPUs, Killed(c)
       PROVE  OneCpuPerProcess'
  BY <1>16 DEF Killed, RunningIn
<1>17. CASE UNCHANGED vars
  BY <1>17, SMTT(60), ZenonT(60) DEF vars
<1> QED
  BY <1>1, <1>2, <1>3, <1>4, <1>5, <1>6, <1>7, <1>8, <1>9, <1>10, <1>11, <1>12, <1>13, <1>14, <1>15, <1>16, <1>17
  DEF Next, SchedulerStep, ProcessStep, InterruptStep

\* Every step leaves unused ticks in every slice.
LEMMA NextSlice == TypeOK /\ PcInv /\ SliceNotExhausted /\ [Next]_vars => SliceNotExhausted'
<1> SUFFICES ASSUME TypeOK, PcInv, SliceNotExhausted, [Next]_vars
             PROVE  SliceNotExhausted'
  OBVIOUS
<1> USE Sets, SliceAssumption
    DEF TypeOK, PcInv, SliceNotExhausted, procVars, cpuVars, clockVars
<1>1. ASSUME NEW c \in CPUs, StartPass(c)
      PROVE  SliceNotExhausted'
  BY <1>1 DEF StartPass
<1>2. ASSUME NEW c \in CPUs, Skip(c)
      PROVE  SliceNotExhausted'
  BY <1>2 DEF Skip, NextProbe
<1>3. ASSUME NEW c \in CPUs, Dispatch(c)
      PROVE  SliceNotExhausted'
  BY <1>3 DEF Dispatch, Eligible
<1>4. ASSUME NEW c \in CPUs, Syscall(c)
      PROVE  SliceNotExhausted'
  BY <1>4 DEF Syscall, RunningIn
<1>5. ASSUME NEW c \in CPUs, SyscallReturn(c)
      PROVE  SliceNotExhausted'
  BY <1>5 DEF SyscallReturn, RunningIn
<1>6. ASSUME NEW c \in CPUs, NEW q \in Procs, Fork(c, q)
      PROVE  SliceNotExhausted'
  BY <1>6, SMTT(60), ZenonT(60) DEF Fork, RunningIn
<1>7. ASSUME NEW c \in CPUs, Sleep(c)
      PROVE  SliceNotExhausted'
  BY <1>7, SMTT(60), ZenonT(60) DEF Sleep, InKernel, RunningIn, BackToScheduler, NextProbe
<1>8. ASSUME NEW c \in CPUs, Exit(c)
      PROVE  SliceNotExhausted'
  BY <1>8 DEF Exit, InKernel, RunningIn, BackToScheduler, NextProbe
<1>9. ASSUME NEW c \in CPUs, Timer(c)
      PROVE  SliceNotExhausted'
  BY <1>9 DEF Timer, Interruptible, AfterClock, Tick, BoostDue
<1>10. ASSUME NEW c \in CPUs, PriorityBoost(c)
       PROVE  SliceNotExhausted'
  BY <1>10, SMTT(60), ZenonT(60) DEF PriorityBoost, Boostable, MoreToBoost
<1>11. ASSUME NEW c \in CPUs, Account(c)
       PROVE  SliceNotExhausted'
  <2>1. proc[c] \in Procs
    BY <1>11 DEF Account, SliceOver, NextLevel
  <2>2. ASSUME NEW p \in Procs
        PROVE  (ticks_each_level[p] < TimeSlice[cur_queue_lvl[p]])'
    <3>1. CASE p # proc[c]
      BY <1>11, <2>1, <3>1 DEF Account, SliceOver, NextLevel
    <3>2. CASE p = proc[c] /\ ticks_each_level[p] + 1 >= TimeSlice[cur_queue_lvl[p]]
      <4>1. cur_queue_lvl'[p] \in Levels
        <5>1. cur_queue_lvl' \in [Procs -> Levels]
          BY NextTypeOK, TypeOK', SMTT(60), ZenonT(60)
        <5> QED
          BY <5>1, SMTT(60), ZenonT(60)
      <4>2. ticks_each_level'[p] = 0
        BY <1>11, <2>1, <3>2 DEF Account, SliceOver, NextLevel
      <4>3. TimeSlice[cur_queue_lvl'[p]] \in Nat \ {0}
        BY <4>1, ZenonT(60)
      <4> QED
        BY <4>2, <4>3
    <3>3. CASE p = proc[c] /\ ~(ticks_each_level[p] + 1 >= TimeSlice[cur_queue_lvl[p]])
      <4>1. ticks_each_level'[p] = ticks_each_level[p] + 1 /\ cur_queue_lvl'[p] = cur_queue_lvl[p]
        BY <1>11, <2>1, <3>3 DEF Account, SliceOver, NextLevel
      <4>2. TimeSlice[cur_queue_lvl[p]] \in Nat
        OBVIOUS
      <4> QED
        BY <4>1, <4>2, <3>3
    <3> QED
      BY <3>1, <3>2, <3>3
  <2> QED
    BY <2>2
<1>12. ASSUME NEW c \in CPUs, Yield(c)
       PROVE  SliceNotExhausted'
  BY <1>12 DEF Yield, BackToScheduler, NextProbe
<1>13. ASSUME NEW c \in CPUs, IdleInterrupt(c)
       PROVE  SliceNotExhausted'
  BY <1>13 DEF IdleInterrupt
<1>14. ASSUME NEW p \in Procs, Wakeup(p)
       PROVE  SliceNotExhausted'
  BY <1>14, SMTT(60), ZenonT(60) DEF Wakeup
<1>15. ASSUME NEW p \in Procs, Reap(p)
       PROVE  SliceNotExhausted'
  BY <1>15, SMTT(60), ZenonT(60) DEF Reap
<1>16. ASSUME NEW c \in CPUs, Killed(c)
       PROVE  SliceNotExhausted'
  BY <1>16, SMTT(60), ZenonT(60) DEF Killed, RunningIn
<1>17. CASE UNCHANGED vars
  BY <1>17, SMTT(60), ZenonT(60) DEF vars
<1> QED
  BY <1>1, <1>2, <1>3, <1>4, <1>5, <1>6, <1>7, <1>8, <1>9, <1>10, <1>11, <1>12, <1>13, <1>14, <1>15, <1>16, <1>17, SMTT(60), ZenonT(60)
  DEF Next, SchedulerStep, ProcessStep, InterruptStep

\* Every step keeps the boosts on time.
LEMMA NextBoost == TypeOK /\ PcInv /\ BoostOnTime /\ [Next]_vars => BoostOnTime'
<1> SUFFICES ASSUME TypeOK, PcInv, BoostOnTime, [Next]_vars
             PROVE  BoostOnTime'
  OBVIOUS
<1> USE Sets, TickAssumption
    DEF TypeOK, PcInv, BoostOnTime, Minus, procVars, cpuVars, clockVars
<1>1. ASSUME NEW c \in CPUs, StartPass(c)
      PROVE  BoostOnTime'
  BY <1>1, SMTT(60), ZenonT(60) DEF StartPass
<1>2. ASSUME NEW c \in CPUs, Skip(c)
      PROVE  BoostOnTime'
  BY <1>2, SMTT(60), ZenonT(60) DEF Skip, NextProbe
<1>3. ASSUME NEW c \in CPUs, Dispatch(c)
      PROVE  BoostOnTime'
  BY <1>3, SMTT(60), ZenonT(60) DEF Dispatch, Eligible
<1>4. ASSUME NEW c \in CPUs, Syscall(c)
      PROVE  BoostOnTime'
  BY <1>4 DEF Syscall, RunningIn
<1>5. ASSUME NEW c \in CPUs, SyscallReturn(c)
      PROVE  BoostOnTime'
  BY <1>5, SMTT(60), ZenonT(60) DEF SyscallReturn, RunningIn
<1>6. ASSUME NEW c \in CPUs, NEW q \in Procs, Fork(c, q)
      PROVE  BoostOnTime'
  BY <1>6, SMTT(60), ZenonT(60) DEF Fork, RunningIn
<1>7. ASSUME NEW c \in CPUs, Sleep(c)
      PROVE  BoostOnTime'
  BY <1>7, SMTT(60), ZenonT(60) DEF Sleep, InKernel, RunningIn, BackToScheduler, NextProbe
<1>8. ASSUME NEW c \in CPUs, Exit(c)
      PROVE  BoostOnTime'
  BY <1>8, SMTT(60), ZenonT(60) DEF Exit, InKernel, RunningIn, BackToScheduler, NextProbe
<1>9. ASSUME NEW c \in CPUs, Timer(c)
      PROVE  BoostOnTime'
  <2>1. CASE c = 0
    <3>1. pc[0] # "boost" /\ Minus(ticks, last_boost) < BoostTicks
      BY <1>9, <2>1, SMTT(60), ZenonT(60) DEF Timer, Interruptible
    <3>2. ticks' = Tick(ticks) /\ last_boost' = last_boost
      BY <1>9, <2>1 DEF Timer
    <3>3. Minus(Tick(ticks), last_boost) = Minus(ticks, last_boost) + 1
      BY <3>1 DEF Tick
    <3>4. CASE Minus(Tick(ticks), last_boost) >= BoostTicks
      <4>1. pc'[0] = "boost"
        BY <1>9, <2>1, <3>4, SMTT(60), ZenonT(60) DEF Timer, BoostDue
      <4>2. Minus(Tick(ticks), last_boost) = BoostTicks
        <5> DEFINE m == Minus(ticks, last_boost)
                   n == Minus(Tick(ticks), last_boost)
        <5>1. m \in Nat /\ BoostTicks \in Nat
          OBVIOUS
        <5>2. n = m + 1 /\ m < BoostTicks /\ n >= BoostTicks
          BY <3>1, <3>3, <3>4
        <5> HIDE DEF m, n
        <5>3. n = BoostTicks
          BY <5>1, <5>2, SMTT(60), ZenonT(60)
        <5> QED
          BY <5>3 DEF n
      <4>3. Minus(ticks', last_boost') = BoostTicks
        BY <3>2, <4>2, SMTT(60), ZenonT(60)
      <4> QED
        BY <4>1, <4>3, SMTT(60), ZenonT(60)
    <3>5. CASE ~(Minus(Tick(ticks), last_boost) >= BoostTicks)
      <4>1. Minus(ticks', last_boost') < BoostTicks
        BY <3>1, <3>2, <3>3, <3>5, SMTT(60), ZenonT(60)
      <4> QED
        BY <4>1, SMTT(60), ZenonT(60)
    <3> QED
      BY <3>4, <3>5
  <2>2. CASE c # 0
    BY <1>9, <2>2, SMTT(60), ZenonT(60) DEF Timer, BoostDue
  <2> QED
    BY <2>1, <2>2, SMTT(60), ZenonT(60)
<1>10. ASSUME NEW c \in CPUs, PriorityBoost(c)
       PROVE  BoostOnTime'
  <2>1. c = 0 /\ ticks' = ticks
    BY <1>10, SMTT(60), ZenonT(60) DEF PriorityBoost, Boostable, MoreToBoost
  <2>2. CASE boostAt < NPROC
    BY <1>10, <2>1, <2>2, SMTT(60), ZenonT(60) DEF PriorityBoost, Boostable, MoreToBoost
  <2>3. CASE ~(boostAt < NPROC)
    <3>1. last_boost' = ticks'
      BY <1>10, <2>1, <2>3, SMTT(60), ZenonT(60) DEF PriorityBoost, Boostable, MoreToBoost
    <3> QED
      BY <2>1, <3>1, SMTT(60), ZenonT(60)
  <2> QED
    BY <2>2, <2>3, SMTT(60), ZenonT(60)
<1>11. ASSUME NEW c \in CPUs, Account(c)
       PROVE  BoostOnTime'
  BY <1>11, SMTT(60), ZenonT(60) DEF Account, SliceOver, NextLevel
<1>12. ASSUME NEW c \in CPUs, Yield(c)
       PROVE  BoostOnTime'
  BY <1>12, SMTT(60), ZenonT(60) DEF Yield, BackToScheduler, NextProbe
<1>13. ASSUME NEW c \in CPUs, IdleInterrupt(c)
       PROVE  BoostOnTime'
  BY <1>13, SMTT(60), ZenonT(60) DEF IdleInterrupt
<1>14. ASSUME NEW p \in Procs, Wakeup(p)
       PROVE  BoostOnTime'
  BY <1>14, SMTT(60), ZenonT(60) DEF Wakeup
<1>15. ASSUME NEW p \in Procs, Reap(p)
       PROVE  BoostOnTime'
  BY <1>15, SMTT(60), ZenonT(60) DEF Reap
<1>16. ASSUME NEW c \in CPUs, Killed(c)
       PROVE  BoostOnTime'
  BY <1>16, SMTT(60), ZenonT(60) DEF Killed, RunningIn
<1>17. CASE UNCHANGED vars
  BY <1>17 DEF vars
<1> QED
  BY <1>1, <1>2, <1>3, <1>4, <1>5, <1>6, <1>7, <1>8, <1>9, <1>10, <1>11, <1>12, <1>13, <1>14, <1>15, <1>16, <1>17, SMTT(60), ZenonT(60)
  DEF Next, SchedulerStep, ProcessStep, InterruptStep

-----------------------------------------------------------------------------
\* IInv is inductive.
LEMMA NextIInv == IInv /\ [Next]_vars => IInv'
  BY NextTypeOK, NextPcInv, NextOneCpu, NextSlice, NextBoost DEF IInv

\* IInv holds in every reachable state.
LEMMA Invariance == Spec => []IInv
  BY InitIInv, NextIInv, PTL DEF Spec

\* Type correctness, for every size of the system.
THEOREM TypeCorrect == Spec => []TypeOK
<1>1. IInv => TypeOK
  BY DEF IInv
<1> QED
  BY <1>1, Invariance, PTL

\* No two CPUs run the same process, and a process is RUNNING exactly while a
\* CPU has it, for any number of CPUs scanning the table (scheduler, yield,
\* sleep and kexit of kernel/proc.c).
THEOREM MutualExclusion == Spec => []OneCpuPerProcess
<1>1. IInv => OneCpuPerProcess
  BY DEF IInv
<1> QED
  BY <1>1, Invariance, PTL

\* No slice is left exhausted, for any table of slice lengths (usertrap and
\* priority_boost).
THEOREM SlicesHold == Spec => []SliceNotExhausted
<1>1. IInv => SliceNotExhausted
  BY DEF IInv
<1> QED
  BY <1>1, Invariance, PTL

\* The boost is never late, for any period and any width of the tick counter
\* (clockintr).
THEOREM BoostsHold == Spec => []BoostOnTime
<1>1. IInv => BoostOnTime
  BY SMTT(60), ZenonT(60) DEF IInv
<1> QED
  BY <1>1, Invariance, PTL

\* Levels only move as LevelStep allows: down one level at the end of the own
\* slice, up to level 0 when not running (usertrap, priority_boost, allocproc).
THEOREM LevelsMove == Spec => LevelMoves
<1>1. IInv /\ [Next]_vars => [LevelStep]_vars
  <2> SUFFICES ASSUME IInv, [Next]_vars, ~UNCHANGED cur_queue_lvl
               PROVE  LevelStep
    BY SMTT(60), ZenonT(60) DEF LevelStep
  <2> USE Sets, SliceAssumption
      DEF IInv, TypeOK, PcInv, OneCpuPerProcess, SliceNotExhausted, LevelStep,
          procVars, cpuVars, clockVars
  <2>1. ASSUME NEW c \in CPUs, NEW q \in Procs, Fork(c, q)
        PROVE  LevelStep
    BY <2>1, SMTT(60), ZenonT(60) DEF Fork
  <2>2. ASSUME NEW c \in CPUs, PriorityBoost(c)
        PROVE  LevelStep
    BY <2>2, SMTT(60), ZenonT(60) DEF PriorityBoost, Boostable
  <2>3. ASSUME NEW c \in CPUs, Account(c)
        PROVE  LevelStep
    <3>1. proc[c] \in Procs /\ state[proc[c]] = "RUNNING"
      BY <2>3, SMTT(60), ZenonT(60) DEF Account
    <3>2. SliceOver(proc[c], ticks_each_level[proc[c]] + 1)
      BY <2>3 DEF Account
    <3>3. ticks_each_level[proc[c]] + 1 = TimeSlice[cur_queue_lvl[proc[c]]]
      <4> DEFINE t == ticks_each_level[proc[c]]
                 s == TimeSlice[cur_queue_lvl[proc[c]]]
      <4>1. s \in Nat /\ t \in Nat /\ t < s
        BY <3>1, ZenonT(60)
      <4>2. t + 1 >= s
        BY ONLY <3>2 DEF SliceOver
      <4> HIDE DEF t, s
      <4>3. t + 1 = s
        BY ONLY <4>1, <4>2
      <4> QED
        BY ONLY <4>3, SMTT(60), ZenonT(60) DEF t, s
    <3>4. cur_queue_lvl' = [cur_queue_lvl EXCEPT ![proc[c]] = NextLevel(proc[c], ticks_each_level[proc[c]] + 1)]
      BY <2>3, <3>2 DEF Account
    <3> QED
      BY <3>1, <3>3, <3>4, SMTT(60), ZenonT(60) DEF NextLevel
  <2> QED
    BY <2>1, <2>2, <2>3, ZenonT(60)
    DEF Next, vars, SchedulerStep, ProcessStep, InterruptStep, StartPass, Skip, Dispatch, Syscall,
        SyscallReturn, Sleep, Killed, Exit, Timer, Yield, IdleInterrupt, Wakeup, Reap
<1> QED
  BY <1>1, Invariance, PTL DEF Spec, LevelMoves

=============================================================================
