----------------------------- MODULE ProcProofs -----------------------------
(***************************************************************************)
(* Theorems about Proc, for any size of the process table.  The argument:  *)
(* wait_lock keeps the parents as they are while kexit and kwait scan the  *)
(* table, so what a scan has seen of the slots before at[p] stays true:    *)
(* none of them is a child of the process that exits (ParentInv), none is  *)
(* a zombie child of the one that waits (WaitInv).  getnumchild scans      *)
(* without that lock, and what it has seen only bounds what is there       *)
(* (CountInv).                                                             *)
(***************************************************************************)
EXTENDS Proc, FiniteSetTheorems, TLAPS

\* The values of the loop variables, the counters and the pids.
Positions == 1..(NPROC + 1)
Counts == 0..NPROC
Pids == 0..MaxPid

Alive == {"RUNNABLE", "SLEEPING"}
Forking == {"setparent", "setrunnable"}

\* The place of a process suits its state, a forked slot belongs to one parent,
\* and the first process never exits.
LifeInv ==
  /\ \A p \in Procs :
       /\ pc[p] = "gone" <=> state[p] \notin Alive
       /\ state[p] = "SLEEPING" => (pc[p] = "wait" /\ chan[p] = p) \/ (pc[p] = "pause" /\ chan[p] = Ticks)
       /\ state[p] = "UNUSED" => parent[p] = None
       /\ pc[p] \in Forking => /\ np[p] \in Procs /\ state[np[p]] = "USED"
                               /\ parent[np[p]] = IF pc[p] = "setparent" THEN None ELSE p
       /\ pc[p] \notin {"reparent", "scan", "waitsleep", "counting"} => at[p] = 1
  /\ \A p, q \in Procs : pc[p] \in Forking /\ pc[q] \in Forking /\ np[p] = np[q] => p = q
  /\ parent[initproc] = None
  /\ pc[initproc] \in {"user", "fork", "setparent", "setrunnable", "exit", "wait", "scan", "waitsleep"}

\* A parent is alive, and a process that exits has no children behind its scan.
ParentInv ==
  /\ ParentAlive
  /\ \A p, q \in Procs : pc[p] = "zombie" \/ (pc[p] = "reparent" /\ q < at[p]) => parent[q] # p

\* A process that waits has no zombie child behind its scan, and none asleep; the
\* parent of a process about to become a zombie is awake.
SleepsInWait(p) == state[p] = "SLEEPING" /\ chan[p] = p
WaitInv ==
  /\ \A p, q \in Procs :
       parent[q] = p /\ (SleepsInWait(p) \/ pc[p] = "waitsleep" \/ (pc[p] = "scan" /\ q < at[p]))
         => state[q] # "ZOMBIE"
  /\ \A q \in Procs : pc[q] = "zombie" => ~SleepsInWait(parent[q])

\* init.c waits only when it has a shell.
ShellInv ==
  /\ shell # 0 => \E q \in Kids(initproc) : pid[q] = shell
  /\ pc[initproc] \in {"wait", "scan", "waitsleep"} => shell # 0

\* What getnumchild has counted bounds the live children behind its scan, and
\* with those ahead of it is at most what there was.
Behind(p) == {q \in LiveKids(p) : q < at[p]}
Ahead(p) == {q \in LiveKids(p) : q >= at[p]}
CountOk(p) ==
  /\ ans[p] < at[p] /\ Cardinality(Behind(p)) <= ans[p]
  /\ ans[p] + Cardinality(Ahead(p)) <= most[p]
CountInv == \A p \in Procs : pc[p] = "counting" => CountOk(p)

ProcInv == TypeOK /\ LifeInv /\ ParentInv /\ WaitInv /\ ShellInv /\ CountInv

-----------------------------------------------------------------------------
(* Life of a process.                                                      *)

\* The constants that name slots, no slot and the channel of the clock differ.
LEMMA Names ==
  ASSUME ProcAssumption
  PROVE  /\ initproc \in Procs /\ None \notin Procs /\ Ticks \notin Procs /\ None # Ticks
         /\ initproc # None /\ Procs \subseteq Int /\ NPROC \in Nat
BY DEF ProcAssumption, Procs, initproc, None, Ticks

\* The numbers of the slots and the ranges of the locals that range over them.
LEMMA Bounds ==
  ASSUME ProcAssumption, ProcInv
  PROVE  /\ NPROC \in Int /\ Procs \subseteq Int /\ at \in [Procs -> Int]
         /\ ans \in [Procs -> Int] /\ most \in [Procs -> Int]
         /\ \A q \in Procs : 1 <= q /\ q <= NPROC /\ (at[q] <= NPROC => at[q] \in Procs)
<1>1. at \in [Procs -> 1..(NPROC + 1)] /\ ans \in [Procs -> 0..NPROC] /\ most \in [Procs -> 0..NPROC]
  BY Zenon DEF ProcInv, TypeOK
<1>2. NPROC \in Nat BY DEF ProcAssumption
<1>3. \A q \in Procs : 1 <= q /\ q <= NPROC /\ q \in Int BY ONLY <1>2 DEF Procs
<1>4. \A q \in Procs : at[q] <= NPROC => at[q] \in Procs BY ONLY <1>1, <1>2 DEF Procs
<1>5. at \in [Procs -> Int] /\ ans \in [Procs -> Int] /\ most \in [Procs -> Int] BY ONLY <1>1, <1>2
<1>. QED BY ONLY <1>2, <1>3, <1>4, <1>5


\* Every action keeps places, states and forked slots in step.
LEMMA StepLife ==
  ASSUME ProcAssumption, ProcInv, [Next]_vars
  PROVE  LifeInv'
<1>. /\ initproc \in Procs /\ None \notin Procs /\ Ticks \notin Procs /\ None # Ticks /\ initproc # None
  BY Names
<1>. /\ state \in [Procs -> {"UNUSED", "USED", "RUNNABLE", "SLEEPING", "ZOMBIE"}]
     /\ parent \in [Procs -> Procs \cup {None}] /\ chan \in [Procs -> Procs \cup {None, Ticks}]
     /\ pc \in [Procs -> Labels] /\ np \in [Procs -> Procs \cup {None}] /\ at \in [Procs -> 1..(NPROC + 1)]
  BY DEF ProcInv, TypeOK
<1>. LifeInv BY DEF ProcInv
<1>. USE DEF Alive, Forking, At, table, locals
<1>. USE DEF LifeInv
<1>1. ASSUME NEW p \in Procs, Trap(p) PROVE LifeInv'
  BY <1>1 DEF Trap, Goto, InitCall
<1>2. ASSUME NEW p \in Procs, NEW i \in Procs, ForkAlloc(p, i) PROVE LifeInv'
  BY <1>2 DEF ForkAlloc, Goto
<1>3. ASSUME NEW p \in Procs, ForkFails(p) PROVE LifeInv'
  BY <1>3 DEF ForkFails, Goto
<1>4. ASSUME NEW p \in Procs, NEW i \in Procs, ForkNoMemory(p, i) PROVE LifeInv'
  BY <1>4 DEF ForkNoMemory, Goto, Free
<1>5. ASSUME NEW p \in Procs, SetParent(p) PROVE LifeInv'
  BY <1>5 DEF SetParent, Goto
<1>6. ASSUME NEW p \in Procs, SetRunnable(p) PROVE LifeInv'
  BY <1>6 DEF SetRunnable, Goto
<1>7. ASSUME NEW p \in Procs, ExitBegin(p) PROVE LifeInv'
  BY <1>7 DEF ExitBegin, AcquireAndScan, Goto
<1>8. ASSUME NEW p \in Procs, Reparent(p) PROVE LifeInv'
  BY <1>8 DEF Reparent, Awake
<1>9. ASSUME NEW p \in Procs, WakeupParent(p) PROVE LifeInv'
  BY <1>9 DEF WakeupParent, Awake, Goto
<1>10. ASSUME NEW p \in Procs, BecomeZombie(p) PROVE LifeInv'
  BY <1>10 DEF BecomeZombie, Goto
<1>11. ASSUME NEW p \in Procs, WaitBegin(p) PROVE LifeInv'
  BY <1>11 DEF WaitBegin, AcquireAndScan, Goto
<1>12. ASSUME NEW p \in Procs, Scan(p) PROVE LifeInv'
  BY <1>12 DEF Scan, Free, WaitReturns, Goto
<1>13. ASSUME NEW p \in Procs, NoZombie(p) PROVE LifeInv'
  BY <1>13 DEF NoZombie, WaitReturns, Goto
<1>14. ASSUME NEW p \in Procs, WaitSleep(p) PROVE LifeInv'
  BY <1>14 DEF WaitSleep, Goto
<1>15. ASSUME NEW p \in Procs, NEW i \in Procs, Kill(p, i) PROVE LifeInv'
  BY <1>15 DEF Kill, Goto
<1>16. ASSUME NEW p \in Procs, KillFails(p) PROVE LifeInv'
  BY <1>16 DEF KillFails, Goto
<1>17. ASSUME NEW p \in Procs, CountBegin(p) PROVE LifeInv'
  BY <1>17 DEF CountBegin, Goto
<1>18. ASSUME NEW p \in Procs, Count(p) PROVE LifeInv'
  BY <1>18 DEF Count
<1>19. ASSUME NEW p \in Procs, CountEnd(p) PROVE LifeInv'
  BY <1>19 DEF CountEnd, Goto
<1>20. ASSUME NEW p \in Procs, Pause(p) PROVE LifeInv'
  BY <1>20 DEF Pause, Goto
<1>21. ASSUME NEW p \in Procs, PauseSleep(p) PROVE LifeInv'
  BY <1>21 DEF PauseSleep, Goto
<1>22. CASE Tick
  BY <1>22 DEF Tick, Awake
<1>23. CASE UNCHANGED vars
  BY ONLY <1>23, ProcInv DEF vars, table, locals, ProcInv, LifeInv
<1>. QED
  BY ONLY Zenon, [Next]_vars, <1>1, <1>2, <1>3, <1>4, <1>5, <1>6, <1>7, <1>8, <1>9, <1>10, <1>11,
      <1>12, <1>13, <1>14, <1>15, <1>16, <1>17, <1>18, <1>19, <1>20, <1>21, <1>22, <1>23
   DEF Next, Fork, Exit, Wait, KillAny, GetNumChild, Halted

\* No action leaves a process with a dead parent, nor gives one that exits a child
\* behind its scan.
LEMMA StepParent ==
  ASSUME ProcAssumption, ProcInv, [Next]_vars
  PROVE  ParentInv'
<1>. /\ initproc \in Procs /\ None \notin Procs /\ Ticks \notin Procs /\ None # Ticks /\ initproc # None
  BY Names
<1>. /\ state \in [Procs -> {"UNUSED", "USED", "RUNNABLE", "SLEEPING", "ZOMBIE"}]
     /\ parent \in [Procs -> Procs \cup {None}] /\ chan \in [Procs -> Procs \cup {None, Ticks}]
     /\ pc \in [Procs -> Labels] /\ np \in [Procs -> Procs \cup {None}] /\ at \in [Procs -> 1..(NPROC + 1)]
  BY DEF ProcInv, TypeOK
<1>. LifeInv BY DEF ProcInv
<1>. USE DEF Alive, Forking, At, table, locals
<1>. /\ Procs \subseteq Int /\ NPROC \in Int /\ at \in [Procs -> Int]
     /\ \A q \in Procs : 1 <= q /\ q <= NPROC /\ (at[q] <= NPROC => at[q] \in Procs)
  BY ONLY ProcAssumption, ProcInv, Bounds
<1>. \A q \in Procs : wait_lock = q <=> pc[q] \in Locked BY DEF ProcInv, TypeOK
<1>. USE DEF LifeInv, Locked
<1>. ParentInv BY DEF ProcInv
<1>. USE DEF ParentInv, ParentAlive
<1>1. ASSUME NEW p \in Procs, Trap(p) PROVE ParentInv'
  BY <1>1 DEF Trap, Goto, InitCall
<1>2. ASSUME NEW p \in Procs, NEW i \in Procs, ForkAlloc(p, i) PROVE ParentInv'
  BY <1>2 DEF ForkAlloc, Goto
<1>3. ASSUME NEW p \in Procs, ForkFails(p) PROVE ParentInv'
  BY <1>3 DEF ForkFails, Goto
<1>4. ASSUME NEW p \in Procs, NEW i \in Procs, ForkNoMemory(p, i) PROVE ParentInv'
  BY <1>4 DEF ForkNoMemory, Goto, Free
<1>5. ASSUME NEW p \in Procs, SetParent(p) PROVE ParentInv'
  BY <1>5 DEF SetParent, Goto
<1>6. ASSUME NEW p \in Procs, SetRunnable(p) PROVE ParentInv'
  BY <1>6 DEF SetRunnable, Goto
<1>7. ASSUME NEW p \in Procs, ExitBegin(p) PROVE ParentInv'
  BY <1>7 DEF ExitBegin, AcquireAndScan, Goto
<1>8. ASSUME NEW p \in Procs, Reparent(p) PROVE ParentInv'
  <2>. USE <1>8 DEF Reparent
  <2>1. p # initproc OBVIOUS
  <2>2. \A q \in Procs : parent'[q] = IF q = at[p] /\ parent[q] = p THEN initproc ELSE parent[q]
    OBVIOUS
  <2>3. \A q \in Procs : (state'[q] \in Alive <=> state[q] \in Alive) /\ (state'[q] = "ZOMBIE" <=> state[q] = "ZOMBIE")
    BY DEF Awake
  <2>4. \A q \in Procs : q < at'[p] => q < at[p] \/ q = at[p] OBVIOUS
  <2>5. state[initproc] \in Alive OBVIOUS
  <2>6. \A q \in Procs : parent'[q] # None => state'[parent'[q]] \in Alive
    BY ONLY <2>2, <2>3, <2>5, ParentAlive, parent \in [Procs -> Procs \cup {None}], initproc \in Procs DEF ParentAlive, Alive
  <2>7. \A q \in Procs : state'[q] \in Alive \cup {"ZOMBIE"} /\ q # initproc => parent'[q] # None
    BY <2>2, <2>3
  <2>. QED BY <2>1, <2>2, <2>4, <2>6, <2>7
<1>9. ASSUME NEW p \in Procs, WakeupParent(p) PROVE ParentInv'
  BY <1>9 DEF WakeupParent, Awake, Goto
<1>10. ASSUME NEW p \in Procs, BecomeZombie(p) PROVE ParentInv'
  BY <1>10 DEF BecomeZombie, Goto
<1>11. ASSUME NEW p \in Procs, WaitBegin(p) PROVE ParentInv'
  BY <1>11 DEF WaitBegin, AcquireAndScan, Goto
<1>12. ASSUME NEW p \in Procs, Scan(p) PROVE ParentInv'
  <2>1. CASE parent[at[p]] = p /\ state[at[p]] = "ZOMBIE" /\ Free(at[p]) /\ WaitReturns(p, pid[at[p]])
    BY <1>12, <2>1 DEF Scan, Free, WaitReturns, Goto
  <2>2. CASE UNCHANGED table /\ WaitReturns(p, -1)
    BY <1>12, <2>2 DEF Scan, WaitReturns, Goto
  <2>3. CASE UNCHANGED <<table, pc>>
    BY <1>12, <2>3 DEF Scan
  <2>. QED BY ONLY Zenon, <1>12, <2>1, <2>2, <2>3 DEF Scan
<1>13. ASSUME NEW p \in Procs, NoZombie(p) PROVE ParentInv'
  BY <1>13 DEF NoZombie, WaitReturns, Goto
<1>14. ASSUME NEW p \in Procs, WaitSleep(p) PROVE ParentInv'
  BY <1>14 DEF WaitSleep, Goto
<1>15. ASSUME NEW p \in Procs, NEW i \in Procs, Kill(p, i) PROVE ParentInv'
  BY <1>15 DEF Kill, Goto
<1>16. ASSUME NEW p \in Procs, KillFails(p) PROVE ParentInv'
  BY <1>16 DEF KillFails, Goto
<1>17. ASSUME NEW p \in Procs, CountBegin(p) PROVE ParentInv'
  BY <1>17 DEF CountBegin, Goto
<1>18. ASSUME NEW p \in Procs, Count(p) PROVE ParentInv'
  BY <1>18 DEF Count
<1>19. ASSUME NEW p \in Procs, CountEnd(p) PROVE ParentInv'
  BY <1>19 DEF CountEnd, Goto
<1>20. ASSUME NEW p \in Procs, Pause(p) PROVE ParentInv'
  BY <1>20 DEF Pause, Goto
<1>21. ASSUME NEW p \in Procs, PauseSleep(p) PROVE ParentInv'
  BY <1>21 DEF PauseSleep, Goto
<1>22. CASE Tick
  BY <1>22 DEF Tick, Awake
<1>23. CASE UNCHANGED vars
  BY ONLY <1>23, ProcInv DEF vars, table, locals, ProcInv, ParentInv, ParentAlive
<1>. QED
  BY ONLY Zenon, [Next]_vars, <1>1, <1>2, <1>3, <1>4, <1>5, <1>6, <1>7, <1>8, <1>9, <1>10, <1>11,
      <1>12, <1>13, <1>14, <1>15, <1>16, <1>17, <1>18, <1>19, <1>20, <1>21, <1>22, <1>23
   DEF Next, Fork, Exit, Wait, KillAny, GetNumChild, Halted

\* No action makes a zombie of a child behind the scan of its waiting parent.
LEMMA StepWait ==
  ASSUME ProcAssumption, ProcInv, [Next]_vars
  PROVE  WaitInv'
<1>. /\ initproc \in Procs /\ None \notin Procs /\ Ticks \notin Procs /\ None # Ticks /\ initproc # None
  BY Names
<1>. /\ state \in [Procs -> {"UNUSED", "USED", "RUNNABLE", "SLEEPING", "ZOMBIE"}]
     /\ parent \in [Procs -> Procs \cup {None}] /\ chan \in [Procs -> Procs \cup {None, Ticks}]
     /\ pc \in [Procs -> Labels] /\ np \in [Procs -> Procs \cup {None}] /\ at \in [Procs -> 1..(NPROC + 1)]
  BY DEF ProcInv, TypeOK
<1>. LifeInv BY DEF ProcInv
<1>. USE DEF Alive, Forking, At, table, locals
<1>. /\ Procs \subseteq Int /\ NPROC \in Int /\ at \in [Procs -> Int]
     /\ \A q \in Procs : 1 <= q /\ q <= NPROC /\ (at[q] <= NPROC => at[q] \in Procs)
  BY ONLY ProcAssumption, ProcInv, Bounds
<1>. \A q \in Procs : wait_lock = q <=> pc[q] \in Locked BY DEF ProcInv, TypeOK
<1>. USE DEF LifeInv, Locked
<1>. ParentInv /\ WaitInv BY DEF ProcInv
<1>. USE DEF ParentInv, ParentAlive, WaitInv, SleepsInWait
<1>1. ASSUME NEW p \in Procs, Trap(p) PROVE WaitInv'
  BY <1>1 DEF Trap, Goto, InitCall
<1>2. ASSUME NEW p \in Procs, NEW i \in Procs, ForkAlloc(p, i) PROVE WaitInv'
  BY <1>2 DEF ForkAlloc, Goto
<1>3. ASSUME NEW p \in Procs, ForkFails(p) PROVE WaitInv'
  BY <1>3 DEF ForkFails, Goto
<1>4. ASSUME NEW p \in Procs, NEW i \in Procs, ForkNoMemory(p, i) PROVE WaitInv'
  BY <1>4 DEF ForkNoMemory, Goto, Free
<1>5. ASSUME NEW p \in Procs, SetParent(p) PROVE WaitInv'
  BY <1>5 DEF SetParent, Goto
<1>6. ASSUME NEW p \in Procs, SetRunnable(p) PROVE WaitInv'
  BY <1>6 DEF SetRunnable, Goto
<1>7. ASSUME NEW p \in Procs, ExitBegin(p) PROVE WaitInv'
  BY <1>7 DEF ExitBegin, AcquireAndScan, Goto
<1>8. ASSUME NEW p \in Procs, Reparent(p) PROVE WaitInv'
  BY <1>8 DEF Reparent, Awake
<1>9. ASSUME NEW p \in Procs, WakeupParent(p) PROVE WaitInv'
  BY <1>9 DEF WakeupParent, Awake, Goto
<1>10. ASSUME NEW p \in Procs, BecomeZombie(p) PROVE WaitInv'
  BY <1>10 DEF BecomeZombie, Goto
<1>11. ASSUME NEW p \in Procs, WaitBegin(p) PROVE WaitInv'
  BY <1>11 DEF WaitBegin, AcquireAndScan, Goto
<1>12. ASSUME NEW p \in Procs, Scan(p) PROVE WaitInv'
  BY <1>12 DEF Scan, Free, WaitReturns, Goto
<1>13. ASSUME NEW p \in Procs, NoZombie(p) PROVE WaitInv'
  BY <1>13 DEF NoZombie, WaitReturns, Goto
<1>14. ASSUME NEW p \in Procs, WaitSleep(p) PROVE WaitInv'
  BY <1>14 DEF WaitSleep, Goto
<1>15. ASSUME NEW p \in Procs, NEW i \in Procs, Kill(p, i) PROVE WaitInv'
  BY <1>15 DEF Kill, Goto
<1>16. ASSUME NEW p \in Procs, KillFails(p) PROVE WaitInv'
  BY <1>16 DEF KillFails, Goto
<1>17. ASSUME NEW p \in Procs, CountBegin(p) PROVE WaitInv'
  BY <1>17 DEF CountBegin, Goto
<1>18. ASSUME NEW p \in Procs, Count(p) PROVE WaitInv'
  BY <1>18 DEF Count
<1>19. ASSUME NEW p \in Procs, CountEnd(p) PROVE WaitInv'
  BY <1>19 DEF CountEnd, Goto
<1>20. ASSUME NEW p \in Procs, Pause(p) PROVE WaitInv'
  BY <1>20 DEF Pause, Goto
<1>21. ASSUME NEW p \in Procs, PauseSleep(p) PROVE WaitInv'
  BY <1>21 DEF PauseSleep, Goto
<1>22. CASE Tick
  BY <1>22 DEF Tick, Awake
<1>23. CASE UNCHANGED vars
  BY ONLY <1>23, ProcInv DEF vars, table, locals, ProcInv, WaitInv, SleepsInWait
<1>. QED
  BY ONLY Zenon, [Next]_vars, <1>1, <1>2, <1>3, <1>4, <1>5, <1>6, <1>7, <1>8, <1>9, <1>10, <1>11,
      <1>12, <1>13, <1>14, <1>15, <1>16, <1>17, <1>18, <1>19, <1>20, <1>21, <1>22, <1>23
   DEF Next, Fork, Exit, Wait, KillAny, GetNumChild, Halted

\* The shell leaves the children of init.c only when its wait returns the pid.
LEMMA StepShell ==
  ASSUME ProcAssumption, ProcInv, [Next]_vars
  PROVE  ShellInv'
<1>. /\ initproc \in Procs /\ None \notin Procs /\ Ticks \notin Procs /\ None # Ticks /\ initproc # None
  BY Names
<1>. /\ state \in [Procs -> {"UNUSED", "USED", "RUNNABLE", "SLEEPING", "ZOMBIE"}]
     /\ parent \in [Procs -> Procs \cup {None}] /\ chan \in [Procs -> Procs \cup {None, Ticks}]
     /\ pc \in [Procs -> Labels] /\ np \in [Procs -> Procs \cup {None}] /\ at \in [Procs -> 1..(NPROC + 1)]
  BY DEF ProcInv, TypeOK
<1>. LifeInv BY DEF ProcInv
<1>. USE DEF Alive, Forking, At, table, locals
<1>. /\ Procs \subseteq Int /\ NPROC \in Int /\ at \in [Procs -> Int]
     /\ \A q \in Procs : 1 <= q /\ q <= NPROC /\ (at[q] <= NPROC => at[q] \in Procs)
  BY ONLY ProcAssumption, ProcInv, Bounds
<1>. \A q \in Procs : wait_lock = q <=> pc[q] \in Locked BY DEF ProcInv, TypeOK
<1>. USE DEF LifeInv, Locked
<1>. MaxPid \in Nat /\ pid \in [Procs -> 0..MaxPid] /\ shell \in 0..MaxPid
  BY DEF ProcAssumption, ProcInv, TypeOK
<1>. ShellInv BY DEF ProcInv
<1>. USE DEF ShellInv, Kids
<1>1. ASSUME NEW p \in Procs, Trap(p) PROVE ShellInv'
  BY <1>1 DEF Trap, Goto, InitCall
<1>2. ASSUME NEW p \in Procs, NEW i \in Procs, ForkAlloc(p, i) PROVE ShellInv'
  BY <1>2 DEF ForkAlloc, Goto
<1>3. ASSUME NEW p \in Procs, ForkFails(p) PROVE ShellInv'
  BY <1>3 DEF ForkFails, Goto
<1>4. ASSUME NEW p \in Procs, NEW i \in Procs, ForkNoMemory(p, i) PROVE ShellInv'
  BY <1>4 DEF ForkNoMemory, Goto, Free
<1>5. ASSUME NEW p \in Procs, SetParent(p) PROVE ShellInv'
  BY <1>5 DEF SetParent, Goto
<1>6. ASSUME NEW p \in Procs, SetRunnable(p) PROVE ShellInv'
  <2>. USE <1>6 DEF SetRunnable
  <2>1. CASE p = initproc
    <3>1. np[p] \in Procs /\ parent'[np[p]] = initproc /\ pid'[np[p]] = shell' BY <2>1
    <3>2. pc'[initproc] = "user" BY <2>1
    <3>. QED BY Zenon, <3>1, <3>2
  <2>2. CASE p # initproc
    <3>1. pc'[initproc] = pc[initproc] BY <2>2
    <3>. QED BY <2>2, <3>1
  <2>. QED BY <2>1, <2>2
<1>7. ASSUME NEW p \in Procs, ExitBegin(p) PROVE ShellInv'
  BY <1>7 DEF ExitBegin, AcquireAndScan, Goto
<1>8. ASSUME NEW p \in Procs, Reparent(p) PROVE ShellInv'
  BY <1>8 DEF Reparent, Awake
<1>9. ASSUME NEW p \in Procs, WakeupParent(p) PROVE ShellInv'
  BY <1>9 DEF WakeupParent, Awake, Goto
<1>10. ASSUME NEW p \in Procs, BecomeZombie(p) PROVE ShellInv'
  BY <1>10 DEF BecomeZombie, Goto
<1>11. ASSUME NEW p \in Procs, WaitBegin(p) PROVE ShellInv'
  BY <1>11 DEF WaitBegin, AcquireAndScan, Goto
<1>12. ASSUME NEW p \in Procs, Scan(p) PROVE ShellInv'
  BY <1>12 DEF Scan, Free, WaitReturns, Goto
<1>13. ASSUME NEW p \in Procs, NoZombie(p) PROVE ShellInv'
  BY <1>13 DEF NoZombie, WaitReturns, Goto
<1>14. ASSUME NEW p \in Procs, WaitSleep(p) PROVE ShellInv'
  BY <1>14 DEF WaitSleep, Goto
<1>15. ASSUME NEW p \in Procs, NEW i \in Procs, Kill(p, i) PROVE ShellInv'
  BY <1>15 DEF Kill, Goto
<1>16. ASSUME NEW p \in Procs, KillFails(p) PROVE ShellInv'
  BY <1>16 DEF KillFails, Goto
<1>17. ASSUME NEW p \in Procs, CountBegin(p) PROVE ShellInv'
  BY <1>17 DEF CountBegin, Goto
<1>18. ASSUME NEW p \in Procs, Count(p) PROVE ShellInv'
  BY <1>18 DEF Count
<1>19. ASSUME NEW p \in Procs, CountEnd(p) PROVE ShellInv'
  BY <1>19 DEF CountEnd, Goto
<1>20. ASSUME NEW p \in Procs, Pause(p) PROVE ShellInv'
  BY <1>20 DEF Pause, Goto
<1>21. ASSUME NEW p \in Procs, PauseSleep(p) PROVE ShellInv'
  BY <1>21 DEF PauseSleep, Goto
<1>22. CASE Tick
  BY <1>22 DEF Tick, Awake
<1>23. CASE UNCHANGED vars
  BY ONLY <1>23, ProcInv DEF vars, table, locals, ProcInv, ShellInv, Kids
<1>. QED
  BY ONLY Zenon, [Next]_vars, <1>1, <1>2, <1>3, <1>4, <1>5, <1>6, <1>7, <1>8, <1>9, <1>10, <1>11,
      <1>12, <1>13, <1>14, <1>15, <1>16, <1>17, <1>18, <1>19, <1>20, <1>21, <1>22, <1>23
   DEF Next, Fork, Exit, Wait, KillAny, GetNumChild, Halted

-----------------------------------------------------------------------------
(* getnumchild.                                                            *)

\* Sets of slots are finite.
LEMMA SlotSets ==
  ASSUME ProcAssumption, NEW S \in SUBSET Procs
  PROVE  IsFiniteSet(S) /\ Cardinality(S) \in 0..NPROC
<1>1. IsFiniteSet(Procs) /\ Cardinality(Procs) = NPROC
  BY FS_Interval DEF ProcAssumption, Procs
<1>2. IsFiniteSet(S) /\ Cardinality(S) <= Cardinality(Procs) BY <1>1, FS_Subset
<1>. QED BY <1>1, <1>2, FS_CardinalityType DEF ProcAssumption

\* A set of slots has no more elements than one that includes it,
LEMMA SlotSubsets ==
  ASSUME ProcAssumption, NEW S \in SUBSET Procs, NEW T \in SUBSET S
  PROVE  Cardinality(T) <= Cardinality(S)
BY SlotSets, FS_Subset

\* and one more with a slot added.
LEMMA SlotAdd ==
  ASSUME ProcAssumption, NEW S \in SUBSET Procs, NEW x \in Procs, x \notin S
  PROVE  Cardinality(S \cup {x}) = Cardinality(S) + 1
BY SlotSets, FS_AddElement

KidsLeave == \A r \in Procs : pc[r] = "counting" => LiveKids(r)' \subseteq LiveKids(r)
KeepsCount(r) ==
  pc'[r] = "counting" => /\ pc[r] = "counting" /\ at'[r] = at[r]
                         /\ ans'[r] = ans[r] /\ most'[r] = most[r]

\* While a process counts, nobody gives it a child or brings one back to life.
LEMMA KidsOnlyLeave ==
  ASSUME ProcAssumption, ProcInv, [Next]_vars
  PROVE  KidsLeave
<1>. USE DEF KidsLeave
<1>. /\ initproc \in Procs /\ None \notin Procs /\ Ticks \notin Procs /\ None # Ticks /\ initproc # None
  BY Names
<1>. /\ state \in [Procs -> {"UNUSED", "USED", "RUNNABLE", "SLEEPING", "ZOMBIE"}]
     /\ parent \in [Procs -> Procs \cup {None}] /\ chan \in [Procs -> Procs \cup {None, Ticks}]
     /\ pc \in [Procs -> Labels] /\ np \in [Procs -> Procs \cup {None}] /\ at \in [Procs -> 1..(NPROC + 1)]
  BY DEF ProcInv, TypeOK
<1>. LifeInv BY DEF ProcInv
<1>. USE DEF Alive, Forking, At, table, locals
<1>. /\ Procs \subseteq Int /\ NPROC \in Int /\ at \in [Procs -> Int]
     /\ \A q \in Procs : 1 <= q /\ q <= NPROC /\ (at[q] <= NPROC => at[q] \in Procs)
  BY ONLY ProcAssumption, ProcInv, Bounds
<1>. \A q \in Procs : wait_lock = q <=> pc[q] \in Locked BY DEF ProcInv, TypeOK
<1>. USE DEF LifeInv, Locked
<1>. USE DEF Kids, LiveKids
<1>1. ASSUME NEW p \in Procs, Trap(p) PROVE KidsLeave
  BY <1>1 DEF Trap, Goto, InitCall
<1>2. ASSUME NEW p \in Procs, NEW i \in Procs, ForkAlloc(p, i) PROVE KidsLeave
  BY <1>2 DEF ForkAlloc, Goto
<1>3. ASSUME NEW p \in Procs, ForkFails(p) PROVE KidsLeave
  BY <1>3 DEF ForkFails, Goto
<1>4. ASSUME NEW p \in Procs, NEW i \in Procs, ForkNoMemory(p, i) PROVE KidsLeave
  BY <1>4 DEF ForkNoMemory, Goto, Free
<1>5. ASSUME NEW p \in Procs, SetParent(p) PROVE KidsLeave
  BY <1>5 DEF SetParent, Goto
<1>6. ASSUME NEW p \in Procs, SetRunnable(p) PROVE KidsLeave
  BY <1>6 DEF SetRunnable, Goto
<1>7. ASSUME NEW p \in Procs, ExitBegin(p) PROVE KidsLeave
  BY <1>7 DEF ExitBegin, AcquireAndScan, Goto
<1>8. ASSUME NEW p \in Procs, Reparent(p) PROVE KidsLeave
  <2>. USE <1>8 DEF Reparent
  <2>1. \A q \in Procs : parent'[q] = parent[q] \/ parent'[q] = initproc OBVIOUS
  <2>2. \A q \in Procs : state'[q] = "ZOMBIE" <=> state[q] = "ZOMBIE" BY DEF Awake
  <2>3. pc[initproc] # "counting" OBVIOUS
  <2>. QED BY ONLY <2>1, <2>2, <2>3 DEF LiveKids, Kids
<1>9. ASSUME NEW p \in Procs, WakeupParent(p) PROVE KidsLeave
  BY <1>9 DEF WakeupParent, Awake, Goto
<1>10. ASSUME NEW p \in Procs, BecomeZombie(p) PROVE KidsLeave
  BY <1>10 DEF BecomeZombie, Goto
<1>11. ASSUME NEW p \in Procs, WaitBegin(p) PROVE KidsLeave
  BY <1>11 DEF WaitBegin, AcquireAndScan, Goto
<1>12. ASSUME NEW p \in Procs, Scan(p) PROVE KidsLeave
  <2>1. \A q \in Procs : parent'[q] # None => parent'[q] = parent[q] /\ state'[q] = state[q]
    <3>1. CASE Free(at[p]) BY <3>1 DEF Free
    <3>2. CASE UNCHANGED table BY <3>2
    <3>. QED BY ONLY Zenon, <1>12, <3>1, <3>2 DEF Scan, table
  <2>. QED BY ONLY <2>1, None \notin Procs DEF LiveKids, Kids
<1>13. ASSUME NEW p \in Procs, NoZombie(p) PROVE KidsLeave
  BY <1>13 DEF NoZombie, WaitReturns, Goto
<1>14. ASSUME NEW p \in Procs, WaitSleep(p) PROVE KidsLeave
  BY <1>14 DEF WaitSleep, Goto
<1>15. ASSUME NEW p \in Procs, NEW i \in Procs, Kill(p, i) PROVE KidsLeave
  BY <1>15 DEF Kill, Goto
<1>16. ASSUME NEW p \in Procs, KillFails(p) PROVE KidsLeave
  BY <1>16 DEF KillFails, Goto
<1>17. ASSUME NEW p \in Procs, CountBegin(p) PROVE KidsLeave
  BY <1>17 DEF CountBegin, Goto
<1>18. ASSUME NEW p \in Procs, Count(p) PROVE KidsLeave
  BY <1>18 DEF Count
<1>19. ASSUME NEW p \in Procs, CountEnd(p) PROVE KidsLeave
  BY <1>19 DEF CountEnd, Goto
<1>20. ASSUME NEW p \in Procs, Pause(p) PROVE KidsLeave
  BY <1>20 DEF Pause, Goto
<1>21. ASSUME NEW p \in Procs, PauseSleep(p) PROVE KidsLeave
  BY <1>21 DEF PauseSleep, Goto
<1>22. CASE Tick
  BY <1>22 DEF Tick, Awake
<1>23. CASE UNCHANGED vars
  BY ONLY <1>23, ProcInv DEF vars, table, locals, ProcInv, KidsLeave, LiveKids, Kids
<1>. QED
  BY ONLY Zenon, [Next]_vars, <1>1, <1>2, <1>3, <1>4, <1>5, <1>6, <1>7, <1>8, <1>9, <1>10, <1>11,
      <1>12, <1>13, <1>14, <1>15, <1>16, <1>17, <1>18, <1>19, <1>20, <1>21, <1>22, <1>23
   DEF Next, Fork, Exit, Wait, KillAny, GetNumChild, Halted

\* The bounds of getnumchild hold while other processes fork, exit and are reaped.
LEMMA StepCount ==
  ASSUME ProcAssumption, ProcInv, [Next]_vars
  PROVE  CountInv'
<1>. /\ initproc \in Procs /\ None \notin Procs /\ Ticks \notin Procs /\ None # Ticks /\ initproc # None
  BY Names
<1>. /\ state \in [Procs -> {"UNUSED", "USED", "RUNNABLE", "SLEEPING", "ZOMBIE"}]
     /\ parent \in [Procs -> Procs \cup {None}] /\ chan \in [Procs -> Procs \cup {None, Ticks}]
     /\ pc \in [Procs -> Labels] /\ np \in [Procs -> Procs \cup {None}] /\ at \in [Procs -> 1..(NPROC + 1)]
  BY DEF ProcInv, TypeOK
<1>. LifeInv BY DEF ProcInv
<1>. USE DEF Alive, Forking, At, table, locals
<1>. /\ Procs \subseteq Int /\ NPROC \in Int /\ at \in [Procs -> Int]
     /\ \A q \in Procs : 1 <= q /\ q <= NPROC /\ (at[q] <= NPROC => at[q] \in Procs)
  BY ONLY ProcAssumption, ProcInv, Bounds
<1>. \A q \in Procs : wait_lock = q <=> pc[q] \in Locked BY DEF ProcInv, TypeOK
<1>. USE DEF LifeInv
<1>. ans \in [Procs -> Int] /\ most \in [Procs -> Int] BY ONLY ProcAssumption, ProcInv, Bounds
<1>. CountInv BY DEF ProcInv
<1>0. ASSUME NEW r \in Procs, pc[r] = "counting", at'[r] = at[r], ans'[r] = ans[r], most'[r] = most[r]
      PROVE  CountOk(r)'
  <2>1. CountOk(r) BY <1>0 DEF CountInv
  <2>2. LiveKids(r)' \subseteq LiveKids(r) /\ LiveKids(r) \subseteq Procs
    BY <1>0, KidsOnlyLeave DEF KidsLeave, LiveKids, Kids
  <2>3. /\ Behind(r)' \subseteq Behind(r) /\ Behind(r) \subseteq Procs
        /\ Ahead(r)' \subseteq Ahead(r) /\ Ahead(r) \subseteq Procs
    BY <1>0, <2>2 DEF Behind, Ahead
  <2>4. Cardinality(Behind(r)') <= Cardinality(Behind(r)) /\ Cardinality(Ahead(r)') <= Cardinality(Ahead(r))
    BY <2>3, SlotSubsets
  <2>5. /\ Cardinality(Behind(r)') \in Int /\ Cardinality(Behind(r)) \in Int
        /\ Cardinality(Ahead(r)') \in Int /\ Cardinality(Ahead(r)) \in Int
    <3>1. Behind(r)' \subseteq Procs /\ Ahead(r)' \subseteq Procs BY ONLY <2>3
    <3>. QED BY <2>3, <3>1, SlotSets
  <2>. QED BY ONLY <1>0, <2>1, <2>4, <2>5, ans[r] \in Int, most[r] \in Int, at[r] \in Int DEF CountOk
<1>1. ASSUME NEW p \in Procs, Trap(p) PROVE CountInv'
  <2>1. \A r \in Procs : KeepsCount(r) BY <1>1 DEF KeepsCount, Trap, Goto, InitCall
  <2>. QED BY ONLY Zenon, <1>0, <2>1 DEF CountInv, KeepsCount
<1>2. ASSUME NEW p \in Procs, NEW i \in Procs, ForkAlloc(p, i) PROVE CountInv'
  <2>1. \A r \in Procs : KeepsCount(r) BY <1>2 DEF KeepsCount, ForkAlloc, Goto
  <2>. QED BY ONLY Zenon, <1>0, <2>1 DEF CountInv, KeepsCount
<1>3. ASSUME NEW p \in Procs, ForkFails(p) PROVE CountInv'
  <2>1. \A r \in Procs : KeepsCount(r) BY <1>3 DEF KeepsCount, ForkFails, Goto
  <2>. QED BY ONLY Zenon, <1>0, <2>1 DEF CountInv, KeepsCount
<1>4. ASSUME NEW p \in Procs, NEW i \in Procs, ForkNoMemory(p, i) PROVE CountInv'
  <2>1. \A r \in Procs : KeepsCount(r) BY <1>4 DEF KeepsCount, ForkNoMemory, Goto, Free
  <2>. QED BY ONLY Zenon, <1>0, <2>1 DEF CountInv, KeepsCount
<1>5. ASSUME NEW p \in Procs, SetParent(p) PROVE CountInv'
  <2>1. \A r \in Procs : KeepsCount(r) BY <1>5 DEF KeepsCount, SetParent, Goto
  <2>. QED BY ONLY Zenon, <1>0, <2>1 DEF CountInv, KeepsCount
<1>6. ASSUME NEW p \in Procs, SetRunnable(p) PROVE CountInv'
  <2>1. \A r \in Procs : KeepsCount(r) BY <1>6 DEF KeepsCount, SetRunnable, Goto
  <2>. QED BY ONLY Zenon, <1>0, <2>1 DEF CountInv, KeepsCount
<1>7. ASSUME NEW p \in Procs, ExitBegin(p) PROVE CountInv'
  <2>1. \A r \in Procs : KeepsCount(r) BY <1>7 DEF KeepsCount, ExitBegin, AcquireAndScan, Goto
  <2>. QED BY ONLY Zenon, <1>0, <2>1 DEF CountInv, KeepsCount
<1>8. ASSUME NEW p \in Procs, Reparent(p) PROVE CountInv'
  <2>1. \A r \in Procs : KeepsCount(r) BY <1>8 DEF KeepsCount, Reparent, Awake
  <2>. QED BY ONLY Zenon, <1>0, <2>1 DEF CountInv, KeepsCount
<1>9. ASSUME NEW p \in Procs, WakeupParent(p) PROVE CountInv'
  <2>1. \A r \in Procs : KeepsCount(r) BY <1>9 DEF KeepsCount, WakeupParent, Awake, Goto
  <2>. QED BY ONLY Zenon, <1>0, <2>1 DEF CountInv, KeepsCount
<1>10. ASSUME NEW p \in Procs, BecomeZombie(p) PROVE CountInv'
  <2>1. \A r \in Procs : KeepsCount(r) BY <1>10 DEF KeepsCount, BecomeZombie, Goto
  <2>. QED BY ONLY Zenon, <1>0, <2>1 DEF CountInv, KeepsCount
<1>11. ASSUME NEW p \in Procs, WaitBegin(p) PROVE CountInv'
  <2>1. \A r \in Procs : KeepsCount(r) BY <1>11 DEF KeepsCount, WaitBegin, AcquireAndScan, Goto
  <2>. QED BY ONLY Zenon, <1>0, <2>1 DEF CountInv, KeepsCount
<1>12. ASSUME NEW p \in Procs, Scan(p) PROVE CountInv'
  <2>1. \A r \in Procs : KeepsCount(r) BY <1>12 DEF KeepsCount, Scan, Free, WaitReturns, Goto
  <2>. QED BY ONLY Zenon, <1>0, <2>1 DEF CountInv, KeepsCount
<1>13. ASSUME NEW p \in Procs, NoZombie(p) PROVE CountInv'
  <2>1. \A r \in Procs : KeepsCount(r) BY <1>13 DEF KeepsCount, NoZombie, WaitReturns, Goto
  <2>. QED BY ONLY Zenon, <1>0, <2>1 DEF CountInv, KeepsCount
<1>14. ASSUME NEW p \in Procs, WaitSleep(p) PROVE CountInv'
  <2>1. \A r \in Procs : KeepsCount(r) BY <1>14 DEF KeepsCount, WaitSleep, Goto
  <2>. QED BY ONLY Zenon, <1>0, <2>1 DEF CountInv, KeepsCount
<1>15. ASSUME NEW p \in Procs, NEW i \in Procs, Kill(p, i) PROVE CountInv'
  <2>1. \A r \in Procs : KeepsCount(r) BY <1>15 DEF KeepsCount, Kill, Goto
  <2>. QED BY ONLY Zenon, <1>0, <2>1 DEF CountInv, KeepsCount
<1>16. ASSUME NEW p \in Procs, KillFails(p) PROVE CountInv'
  <2>1. \A r \in Procs : KeepsCount(r) BY <1>16 DEF KeepsCount, KillFails, Goto
  <2>. QED BY ONLY Zenon, <1>0, <2>1 DEF CountInv, KeepsCount
<1>17. ASSUME NEW p \in Procs, CountBegin(p) PROVE CountInv'
  <2>. USE <1>17 DEF CountBegin, Goto
  <2>1. \A r \in Procs \ {p} : KeepsCount(r) BY DEF KeepsCount
  <2>2. LiveKids(p)' = LiveKids(p) /\ LiveKids(p) \subseteq Procs BY DEF LiveKids, Kids
  <2>3. at'[p] = 1 /\ ans'[p] = 0 /\ most'[p] = Cardinality(LiveKids(p)) BY DEF LifeInv
  <2>4. Behind(p)' = {} /\ Ahead(p)' = LiveKids(p)
    BY ONLY <2>2, <2>3, \A q \in Procs : q \in Int /\ 1 <= q DEF Behind, Ahead
  <2>5. Cardinality({}) = 0 /\ Cardinality(LiveKids(p)) \in Int BY <2>2, FS_EmptySet, SlotSets
  <2>6. Cardinality(Behind(p)') = 0 /\ Cardinality(Ahead(p)') = Cardinality(LiveKids(p))
    BY ONLY Zenon, <2>4, <2>5
  <2>7. CountOk(p)' BY ONLY <2>3, <2>5, <2>6 DEF CountOk
  <2>. QED BY ONLY <1>0, <2>1, <2>7 DEF CountInv, KeepsCount
<1>18. ASSUME NEW p \in Procs, Count(p) PROVE CountInv'
  <2>. USE <1>18 DEF Count
  <2>1. \A r \in Procs \ {p} : KeepsCount(r) BY DEF KeepsCount
  <2>2. /\ LiveKids(p)' = LiveKids(p) /\ LiveKids(p) \subseteq Procs
        /\ Behind(p) \subseteq Procs /\ Ahead(p)' \subseteq Procs
    BY DEF LiveKids, Kids, Behind, Ahead
  <2>3. at[p] \in Procs /\ at'[p] = at[p] + 1 /\ CountOk(p) BY DEF CountInv
  <2>4. \A q \in Procs : (q < at[p] + 1 <=> q < at[p] \/ q = at[p]) /\ (q >= at[p] <=> q >= at[p] + 1 \/ q = at[p])
    BY <2>3
  <2>5. at[p] \notin Behind(p) /\ at[p] \notin Ahead(p)' BY <2>3 DEF Behind, Ahead
  <2>6. CASE at[p] \in LiveKids(p)
    <3>1. Behind(p)' = Behind(p) \cup {at[p]} BY ONLY <2>2, <2>3, <2>4, <2>6 DEF Behind
    <3>2. Ahead(p) = Ahead(p)' \cup {at[p]} BY ONLY <2>2, <2>3, <2>4, <2>6 DEF Ahead
    <3>3. Cardinality(Behind(p) \cup {at[p]}) = Cardinality(Behind(p)) + 1 BY SMTT(20), <2>2, <2>3, <2>5, SlotAdd
    <3>4. Cardinality(Ahead(p)' \cup {at[p]}) = Cardinality(Ahead(p)') + 1 BY <2>2, <2>3, <2>5, SlotAdd
    <3>5. Cardinality(Behind(p)') = Cardinality(Behind(p)) + 1 /\ Cardinality(Ahead(p)) = Cardinality(Ahead(p)') + 1
      BY ONLY Zenon, <3>1, <3>2, <3>3, <3>4
    <3>6. Cardinality(Behind(p)) \in Int /\ Cardinality(Ahead(p)') \in Int BY <2>2, SlotSets
    <3>7. ans'[p] = ans[p] + 1 /\ most'[p] = most[p] BY <2>6
    <3>8. CountOk(p)'
      BY ONLY <2>3, <3>5, <3>6, <3>7, ans[p] \in Int, most[p] \in Int, at[p] \in Int DEF CountOk
    <3>. QED BY ONLY <1>0, <2>1, <3>8 DEF CountInv, KeepsCount
  <2>7. CASE at[p] \notin LiveKids(p)
    <3>1. Behind(p)' = Behind(p) BY ONLY <2>2, <2>3, <2>4, <2>7 DEF Behind
    <3>2. Ahead(p) = Ahead(p)' BY ONLY <2>2, <2>3, <2>4, <2>7 DEF Ahead
    <3>3. Cardinality(Behind(p)') = Cardinality(Behind(p)) /\ Cardinality(Ahead(p)) = Cardinality(Ahead(p)')
      BY ONLY Zenon, <3>1, <3>2
    <3>4. ans'[p] = ans[p] /\ most'[p] = most[p] BY <2>7
    <3>5. CountOk(p)'
      BY ONLY <2>3, <3>3, <3>4, ans[p] \in Int, most[p] \in Int, at[p] \in Int DEF CountOk
    <3>. QED BY ONLY <1>0, <2>1, <3>5 DEF CountInv, KeepsCount
  <2>. QED BY <2>6, <2>7
<1>19. ASSUME NEW p \in Procs, CountEnd(p) PROVE CountInv'
  <2>1. \A r \in Procs : KeepsCount(r) BY <1>19 DEF KeepsCount, CountEnd, Goto
  <2>. QED BY ONLY Zenon, <1>0, <2>1 DEF CountInv, KeepsCount
<1>20. ASSUME NEW p \in Procs, Pause(p) PROVE CountInv'
  <2>1. \A r \in Procs : KeepsCount(r) BY <1>20 DEF KeepsCount, Pause, Goto
  <2>. QED BY ONLY Zenon, <1>0, <2>1 DEF CountInv, KeepsCount
<1>21. ASSUME NEW p \in Procs, PauseSleep(p) PROVE CountInv'
  <2>1. \A r \in Procs : KeepsCount(r) BY <1>21 DEF KeepsCount, PauseSleep, Goto
  <2>. QED BY ONLY Zenon, <1>0, <2>1 DEF CountInv, KeepsCount
<1>22. CASE Tick
  <2>1. \A r \in Procs : KeepsCount(r) BY <1>22 DEF KeepsCount, Tick, Awake
  <2>. QED BY ONLY Zenon, <1>0, <2>1 DEF CountInv, KeepsCount
<1>23. CASE UNCHANGED vars
  <2>1. \A r \in Procs : KeepsCount(r) BY <1>23 DEF vars, locals, KeepsCount
  <2>. QED BY ONLY Zenon, <1>0, <2>1 DEF CountInv, KeepsCount
<1>. QED
  BY ONLY Zenon, [Next]_vars, <1>1, <1>2, <1>3, <1>4, <1>5, <1>6, <1>7, <1>8, <1>9, <1>10, <1>11,
      <1>12, <1>13, <1>14, <1>15, <1>16, <1>17, <1>18, <1>19, <1>20, <1>21, <1>22, <1>23
   DEF Next, Fork, Exit, Wait, KillAny, GetNumChild, Halted

-----------------------------------------------------------------------------
(* The types, and the theorems.                                            *)

LockTyped == \A q \in Procs : wait_lock = q <=> pc[q] \in Locked
BooleansTyped == killed \in [Procs -> BOOLEAN] /\ havekids \in [Procs -> BOOLEAN] /\ panic \in BOOLEAN
PidsTyped == pid \in [Procs -> Pids] /\ shell \in Pids /\ nextpid \in 1..(MaxPid + 1)
CountersTyped == ans \in [Procs -> Counts] /\ most \in [Procs -> Counts] /\ at \in [Procs -> Positions]
TableTyped ==
  /\ state \in [Procs -> {"UNUSED", "USED", "RUNNABLE", "SLEEPING", "ZOMBIE"}]
  /\ parent \in [Procs -> Procs \cup {None}] /\ chan \in [Procs -> Procs \cup {None, Ticks}]
  /\ pc \in [Procs -> Labels] /\ np \in [Procs -> Procs \cup {None}] /\ wait_lock \in Procs \cup {None}

\* wait_lock is held where the code holds it.
LEMMA StepLock ==
  ASSUME ProcAssumption, ProcInv, [Next]_vars
  PROVE  LockTyped'
<1>. /\ initproc \in Procs /\ None \notin Procs /\ Ticks \notin Procs /\ None # Ticks /\ initproc # None
  BY Names
<1>. /\ state \in [Procs -> {"UNUSED", "USED", "RUNNABLE", "SLEEPING", "ZOMBIE"}]
     /\ parent \in [Procs -> Procs \cup {None}] /\ chan \in [Procs -> Procs \cup {None, Ticks}]
     /\ pc \in [Procs -> Labels] /\ np \in [Procs -> Procs \cup {None}] /\ at \in [Procs -> 1..(NPROC + 1)]
  BY DEF ProcInv, TypeOK
<1>. USE DEF At, table, locals
<1>. USE DEF LockTyped
<1>. LifeInv BY DEF ProcInv
<1>. \A q \in Procs : wait_lock = q <=> pc[q] \in Locked BY DEF ProcInv, TypeOK
<1>. USE DEF Locked, LifeInv, Forking, Alive
<1>1. ASSUME NEW p \in Procs, Trap(p) PROVE LockTyped'
  BY <1>1 DEF Trap, Goto, InitCall
<1>2. ASSUME NEW p \in Procs, NEW i \in Procs, ForkAlloc(p, i) PROVE LockTyped'
  BY <1>2 DEF ForkAlloc, Goto
<1>3. ASSUME NEW p \in Procs, ForkFails(p) PROVE LockTyped'
  BY <1>3 DEF ForkFails, Goto
<1>4. ASSUME NEW p \in Procs, NEW i \in Procs, ForkNoMemory(p, i) PROVE LockTyped'
  BY <1>4 DEF ForkNoMemory, Goto, Free
<1>5. ASSUME NEW p \in Procs, SetParent(p) PROVE LockTyped'
  BY <1>5 DEF SetParent, Goto
<1>6. ASSUME NEW p \in Procs, SetRunnable(p) PROVE LockTyped'
  BY <1>6 DEF SetRunnable, Goto
<1>7. ASSUME NEW p \in Procs, ExitBegin(p) PROVE LockTyped'
  BY <1>7 DEF ExitBegin, AcquireAndScan, Goto
<1>8. ASSUME NEW p \in Procs, Reparent(p) PROVE LockTyped'
  BY <1>8 DEF Reparent, Awake
<1>9. ASSUME NEW p \in Procs, WakeupParent(p) PROVE LockTyped'
  BY <1>9 DEF WakeupParent, Awake, Goto
<1>10. ASSUME NEW p \in Procs, BecomeZombie(p) PROVE LockTyped'
  BY <1>10 DEF BecomeZombie, Goto
<1>11. ASSUME NEW p \in Procs, WaitBegin(p) PROVE LockTyped'
  BY <1>11 DEF WaitBegin, AcquireAndScan, Goto
<1>12. ASSUME NEW p \in Procs, Scan(p) PROVE LockTyped'
  BY <1>12 DEF Scan, Free, WaitReturns, Goto
<1>13. ASSUME NEW p \in Procs, NoZombie(p) PROVE LockTyped'
  BY <1>13 DEF NoZombie, WaitReturns, Goto
<1>14. ASSUME NEW p \in Procs, WaitSleep(p) PROVE LockTyped'
  BY <1>14 DEF WaitSleep, Goto
<1>15. ASSUME NEW p \in Procs, NEW i \in Procs, Kill(p, i) PROVE LockTyped'
  BY <1>15 DEF Kill, Goto
<1>16. ASSUME NEW p \in Procs, KillFails(p) PROVE LockTyped'
  BY <1>16 DEF KillFails, Goto
<1>17. ASSUME NEW p \in Procs, CountBegin(p) PROVE LockTyped'
  BY <1>17 DEF CountBegin, Goto
<1>18. ASSUME NEW p \in Procs, Count(p) PROVE LockTyped'
  BY <1>18 DEF Count
<1>19. ASSUME NEW p \in Procs, CountEnd(p) PROVE LockTyped'
  BY <1>19 DEF CountEnd, Goto
<1>20. ASSUME NEW p \in Procs, Pause(p) PROVE LockTyped'
  BY <1>20 DEF Pause, Goto
<1>21. ASSUME NEW p \in Procs, PauseSleep(p) PROVE LockTyped'
  BY <1>21 DEF PauseSleep, Goto
<1>22. CASE Tick
  BY <1>22 DEF Tick, Awake
<1>23. CASE UNCHANGED vars
  BY ONLY <1>23, ProcInv DEF vars, table, locals, ProcInv, TypeOK, LockTyped
<1>. QED
  BY ONLY Zenon, [Next]_vars, <1>1, <1>2, <1>3, <1>4, <1>5, <1>6, <1>7, <1>8, <1>9, <1>10, <1>11,
      <1>12, <1>13, <1>14, <1>15, <1>16, <1>17, <1>18, <1>19, <1>20, <1>21, <1>22, <1>23
   DEF Next, Fork, Exit, Wait, KillAny, GetNumChild, Halted

\* The Boolean variables stay so,
LEMMA StepBooleans ==
  ASSUME ProcAssumption, ProcInv, [Next]_vars
  PROVE  BooleansTyped'
<1>. USE DEF BooleansTyped
<1>. killed \in [Procs -> BOOLEAN] /\ havekids \in [Procs -> BOOLEAN] /\ panic \in BOOLEAN
  BY DEF ProcInv, TypeOK
<1>. USE DEF table, locals
<1>1. ASSUME NEW p \in Procs, Trap(p) PROVE BooleansTyped'
  BY <1>1 DEF Trap, Goto, InitCall
<1>2. ASSUME NEW p \in Procs, NEW i \in Procs, ForkAlloc(p, i) PROVE BooleansTyped'
  BY <1>2 DEF ForkAlloc, Goto
<1>3. ASSUME NEW p \in Procs, ForkFails(p) PROVE BooleansTyped'
  BY <1>3 DEF ForkFails, Goto
<1>4. ASSUME NEW p \in Procs, NEW i \in Procs, ForkNoMemory(p, i) PROVE BooleansTyped'
  BY <1>4 DEF ForkNoMemory, Goto, Free
<1>5. ASSUME NEW p \in Procs, SetParent(p) PROVE BooleansTyped'
  BY <1>5 DEF SetParent, Goto
<1>6. ASSUME NEW p \in Procs, SetRunnable(p) PROVE BooleansTyped'
  BY <1>6 DEF SetRunnable, Goto
<1>7. ASSUME NEW p \in Procs, ExitBegin(p) PROVE BooleansTyped'
  BY Zenon, <1>7 DEF ExitBegin, AcquireAndScan, Goto
<1>8. ASSUME NEW p \in Procs, Reparent(p) PROVE BooleansTyped'
  BY <1>8 DEF Reparent, Awake
<1>9. ASSUME NEW p \in Procs, WakeupParent(p) PROVE BooleansTyped'
  BY <1>9 DEF WakeupParent, Awake, Goto
<1>10. ASSUME NEW p \in Procs, BecomeZombie(p) PROVE BooleansTyped'
  BY <1>10 DEF BecomeZombie, Goto
<1>11. ASSUME NEW p \in Procs, WaitBegin(p) PROVE BooleansTyped'
  BY <1>11 DEF WaitBegin, AcquireAndScan, Goto
<1>12. ASSUME NEW p \in Procs, Scan(p) PROVE BooleansTyped'
  BY Zenon, <1>12 DEF Scan, Free, WaitReturns, Goto
<1>13. ASSUME NEW p \in Procs, NoZombie(p) PROVE BooleansTyped'
  BY Zenon, <1>13 DEF NoZombie, WaitReturns, Goto
<1>14. ASSUME NEW p \in Procs, WaitSleep(p) PROVE BooleansTyped'
  BY <1>14 DEF WaitSleep, Goto
<1>15. ASSUME NEW p \in Procs, NEW i \in Procs, Kill(p, i) PROVE BooleansTyped'
  BY <1>15 DEF Kill, Goto
<1>16. ASSUME NEW p \in Procs, KillFails(p) PROVE BooleansTyped'
  BY <1>16 DEF KillFails, Goto
<1>17. ASSUME NEW p \in Procs, CountBegin(p) PROVE BooleansTyped'
  BY <1>17 DEF CountBegin, Goto
<1>18. ASSUME NEW p \in Procs, Count(p) PROVE BooleansTyped'
  BY <1>18 DEF Count
<1>19. ASSUME NEW p \in Procs, CountEnd(p) PROVE BooleansTyped'
  BY <1>19 DEF CountEnd, Goto
<1>20. ASSUME NEW p \in Procs, Pause(p) PROVE BooleansTyped'
  BY <1>20 DEF Pause, Goto
<1>21. ASSUME NEW p \in Procs, PauseSleep(p) PROVE BooleansTyped'
  BY <1>21 DEF PauseSleep, Goto
<1>22. CASE Tick
  BY <1>22 DEF Tick, Awake
<1>23. CASE UNCHANGED vars
  BY ONLY <1>23, ProcInv DEF vars, table, locals, ProcInv, TypeOK, BooleansTyped
<1>. QED
  BY ONLY Zenon, [Next]_vars, <1>1, <1>2, <1>3, <1>4, <1>5, <1>6, <1>7, <1>8, <1>9, <1>10, <1>11,
      <1>12, <1>13, <1>14, <1>15, <1>16, <1>17, <1>18, <1>19, <1>20, <1>21, <1>22, <1>23
   DEF Next, Fork, Exit, Wait, KillAny, GetNumChild, Halted

\* the pids stay within the bound,
LEMMA StepPids ==
  ASSUME ProcAssumption, ProcInv, [Next]_vars
  PROVE  PidsTyped'
<1>. USE DEF PidsTyped
<1>. pid \in [Procs -> Pids] /\ shell \in Pids /\ nextpid \in 1..(MaxPid + 1)
  BY DEF ProcInv, TypeOK, Pids
<1>. 0 \in Pids /\ (nextpid <= MaxPid => nextpid \in Pids /\ nextpid + 1 \in 1..(MaxPid + 1))
  BY DEF ProcAssumption, Pids
<1>. \A q \in Procs : pc[q] = "setrunnable" => np[q] \in Procs BY DEF ProcInv, LifeInv, Forking
<1>. USE DEF At, table, locals
<1>1. ASSUME NEW p \in Procs, Trap(p) PROVE PidsTyped'
  BY <1>1 DEF Trap, Goto, InitCall
<1>2. ASSUME NEW p \in Procs, NEW i \in Procs, ForkAlloc(p, i) PROVE PidsTyped'
  BY <1>2 DEF ForkAlloc, Goto
<1>3. ASSUME NEW p \in Procs, ForkFails(p) PROVE PidsTyped'
  BY <1>3 DEF ForkFails, Goto
<1>4. ASSUME NEW p \in Procs, NEW i \in Procs, ForkNoMemory(p, i) PROVE PidsTyped'
  BY <1>4 DEF ForkNoMemory, Goto, Free
<1>5. ASSUME NEW p \in Procs, SetParent(p) PROVE PidsTyped'
  BY <1>5 DEF SetParent, Goto
<1>6. ASSUME NEW p \in Procs, SetRunnable(p) PROVE PidsTyped'
  BY <1>6 DEF SetRunnable, Goto
<1>7. ASSUME NEW p \in Procs, ExitBegin(p) PROVE PidsTyped'
  BY <1>7 DEF ExitBegin, AcquireAndScan, Goto
<1>8. ASSUME NEW p \in Procs, Reparent(p) PROVE PidsTyped'
  BY <1>8 DEF Reparent, Awake
<1>9. ASSUME NEW p \in Procs, WakeupParent(p) PROVE PidsTyped'
  BY <1>9 DEF WakeupParent, Awake, Goto
<1>10. ASSUME NEW p \in Procs, BecomeZombie(p) PROVE PidsTyped'
  BY <1>10 DEF BecomeZombie, Goto
<1>11. ASSUME NEW p \in Procs, WaitBegin(p) PROVE PidsTyped'
  BY <1>11 DEF WaitBegin, AcquireAndScan, Goto
<1>12. ASSUME NEW p \in Procs, Scan(p) PROVE PidsTyped'
  <2>1. CASE Free(at[p]) /\ WaitReturns(p, pid[at[p]]) /\ UNCHANGED nextpid
    BY ONLY Zenon, <2>1, pid \in [Procs -> Pids], shell \in Pids, 0 \in Pids, nextpid \in 1..(MaxPid + 1) DEF Free, WaitReturns
  <2>2. CASE UNCHANGED table /\ WaitReturns(p, -1) BY <2>2 DEF WaitReturns
  <2>3. CASE UNCHANGED <<table, shell>> BY <2>3
  <2>. QED BY ONLY Zenon, <1>12, <2>1, <2>2, <2>3 DEF Scan
<1>13. ASSUME NEW p \in Procs, NoZombie(p) PROVE PidsTyped'
  BY <1>13 DEF NoZombie, WaitReturns, Goto
<1>14. ASSUME NEW p \in Procs, WaitSleep(p) PROVE PidsTyped'
  BY <1>14 DEF WaitSleep, Goto
<1>15. ASSUME NEW p \in Procs, NEW i \in Procs, Kill(p, i) PROVE PidsTyped'
  BY <1>15 DEF Kill, Goto
<1>16. ASSUME NEW p \in Procs, KillFails(p) PROVE PidsTyped'
  BY <1>16 DEF KillFails, Goto
<1>17. ASSUME NEW p \in Procs, CountBegin(p) PROVE PidsTyped'
  BY <1>17 DEF CountBegin, Goto
<1>18. ASSUME NEW p \in Procs, Count(p) PROVE PidsTyped'
  <2>. QED BY Zenon, <1>18 DEF Count
<1>19. ASSUME NEW p \in Procs, CountEnd(p) PROVE PidsTyped'
  BY <1>19 DEF CountEnd, Goto
<1>20. ASSUME NEW p \in Procs, Pause(p) PROVE PidsTyped'
  BY <1>20 DEF Pause, Goto
<1>21. ASSUME NEW p \in Procs, PauseSleep(p) PROVE PidsTyped'
  BY <1>21 DEF PauseSleep, Goto
<1>22. CASE Tick
  BY <1>22 DEF Tick, Awake
<1>23. CASE UNCHANGED vars
  BY ONLY <1>23, ProcInv DEF vars, table, locals, ProcInv, TypeOK, PidsTyped, Pids
<1>. QED
  BY ONLY Zenon, [Next]_vars, <1>1, <1>2, <1>3, <1>4, <1>5, <1>6, <1>7, <1>8, <1>9, <1>10, <1>11,
      <1>12, <1>13, <1>14, <1>15, <1>16, <1>17, <1>18, <1>19, <1>20, <1>21, <1>22, <1>23
   DEF Next, Fork, Exit, Wait, KillAny, GetNumChild, Halted

\* the counters and loop variables within the table,
LEMMA StepCounters ==
  ASSUME ProcAssumption, ProcInv, [Next]_vars
  PROVE  CountersTyped'
<1>. USE DEF CountersTyped
<1>. ans \in [Procs -> Counts] /\ most \in [Procs -> Counts] /\ at \in [Procs -> Positions]
  BY DEF ProcInv, TypeOK, Positions, Counts
<1>. NPROC \in Nat BY DEF ProcAssumption
<1>. 1 \in Positions /\ 0 \in Counts BY DEF Positions, Counts
<1>. \A q \in Procs : at[q] <= NPROC => at[q] + 1 \in Positions BY DEF Positions
<1>. USE DEF At, locals
<1>1. ASSUME NEW p \in Procs, Trap(p) PROVE CountersTyped'
  BY <1>1 DEF Trap, Goto, InitCall
<1>2. ASSUME NEW p \in Procs, NEW i \in Procs, ForkAlloc(p, i) PROVE CountersTyped'
  BY <1>2 DEF ForkAlloc, Goto
<1>3. ASSUME NEW p \in Procs, ForkFails(p) PROVE CountersTyped'
  BY <1>3 DEF ForkFails, Goto
<1>4. ASSUME NEW p \in Procs, NEW i \in Procs, ForkNoMemory(p, i) PROVE CountersTyped'
  BY <1>4 DEF ForkNoMemory, Goto, Free
<1>5. ASSUME NEW p \in Procs, SetParent(p) PROVE CountersTyped'
  BY <1>5 DEF SetParent, Goto
<1>6. ASSUME NEW p \in Procs, SetRunnable(p) PROVE CountersTyped'
  BY <1>6 DEF SetRunnable, Goto
<1>7. ASSUME NEW p \in Procs, ExitBegin(p) PROVE CountersTyped'
  BY <1>7 DEF ExitBegin, AcquireAndScan, Goto
<1>8. ASSUME NEW p \in Procs, Reparent(p) PROVE CountersTyped'
  BY <1>8 DEF Reparent, Awake
<1>9. ASSUME NEW p \in Procs, WakeupParent(p) PROVE CountersTyped'
  BY <1>9 DEF WakeupParent, Awake, Goto
<1>10. ASSUME NEW p \in Procs, BecomeZombie(p) PROVE CountersTyped'
  BY <1>10 DEF BecomeZombie, Goto
<1>11. ASSUME NEW p \in Procs, WaitBegin(p) PROVE CountersTyped'
  BY <1>11 DEF WaitBegin, AcquireAndScan, Goto
<1>12. ASSUME NEW p \in Procs, Scan(p) PROVE CountersTyped'
  BY <1>12 DEF Scan, Free, WaitReturns, Goto
<1>13. ASSUME NEW p \in Procs, NoZombie(p) PROVE CountersTyped'
  BY <1>13 DEF NoZombie, WaitReturns, Goto
<1>14. ASSUME NEW p \in Procs, WaitSleep(p) PROVE CountersTyped'
  BY <1>14 DEF WaitSleep, Goto
<1>15. ASSUME NEW p \in Procs, NEW i \in Procs, Kill(p, i) PROVE CountersTyped'
  BY <1>15 DEF Kill, Goto
<1>16. ASSUME NEW p \in Procs, KillFails(p) PROVE CountersTyped'
  BY <1>16 DEF KillFails, Goto
<1>17. ASSUME NEW p \in Procs, CountBegin(p) PROVE CountersTyped'
  <2>1. LiveKids(p) \subseteq Procs BY DEF LiveKids, Kids
  <2>2. Cardinality(LiveKids(p)) \in Counts BY ONLY ProcAssumption, <2>1, SlotSets DEF Counts
  <2>. QED BY <1>17, <2>2 DEF CountBegin
<1>18. ASSUME NEW p \in Procs, Count(p) PROVE CountersTyped'
  <2>1. CountOk(p) /\ at[p] <= NPROC BY Zenon, <1>18 DEF Count, ProcInv, CountInv
  <2>2. NPROC \in Nat /\ ans[p] \in Counts /\ at[p] \in Positions BY DEF ProcAssumption
  <2>3. ans[p] + 1 \in Counts BY ONLY <2>1, <2>2 DEF CountOk, Counts, Positions
  <2>. QED BY <1>18, <2>1, <2>3 DEF Count
<1>19. ASSUME NEW p \in Procs, CountEnd(p) PROVE CountersTyped'
  BY <1>19 DEF CountEnd, Goto
<1>20. ASSUME NEW p \in Procs, Pause(p) PROVE CountersTyped'
  BY <1>20 DEF Pause, Goto
<1>21. ASSUME NEW p \in Procs, PauseSleep(p) PROVE CountersTyped'
  BY <1>21 DEF PauseSleep, Goto
<1>22. CASE Tick
  BY <1>22 DEF Tick, Awake
<1>23. CASE UNCHANGED vars
  BY ONLY <1>23, ProcInv DEF vars, table, locals, ProcInv, TypeOK, CountersTyped, Positions, Counts
<1>. QED
  BY ONLY Zenon, [Next]_vars, <1>1, <1>2, <1>3, <1>4, <1>5, <1>6, <1>7, <1>8, <1>9, <1>10, <1>11,
      <1>12, <1>13, <1>14, <1>15, <1>16, <1>17, <1>18, <1>19, <1>20, <1>21, <1>22, <1>23
   DEF Next, Fork, Exit, Wait, KillAny, GetNumChild, Halted

\* and the other variables have their types.
LEMMA StepTypes ==
  ASSUME ProcAssumption, ProcInv, [Next]_vars
  PROVE  TableTyped'
<1>. USE DEF TableTyped
<1>. /\ initproc \in Procs /\ None \notin Procs /\ Ticks \notin Procs /\ None # Ticks /\ initproc # None
  BY Names
<1>. /\ state \in [Procs -> {"UNUSED", "USED", "RUNNABLE", "SLEEPING", "ZOMBIE"}]
     /\ parent \in [Procs -> Procs \cup {None}] /\ chan \in [Procs -> Procs \cup {None, Ticks}]
     /\ pc \in [Procs -> Labels] /\ np \in [Procs -> Procs \cup {None}] /\ at \in [Procs -> 1..(NPROC + 1)]
  BY DEF ProcInv, TypeOK
<1>. USE DEF At, table, locals
<1>. wait_lock \in Procs \cup {None} BY Zenon DEF ProcInv, TypeOK
<1>. USE DEF Labels
<1>1. ASSUME NEW p \in Procs, Trap(p) PROVE TableTyped'
  BY <1>1 DEF Trap, Goto, InitCall
<1>2. ASSUME NEW p \in Procs, NEW i \in Procs, ForkAlloc(p, i) PROVE TableTyped'
  BY <1>2 DEF ForkAlloc, Goto
<1>3. ASSUME NEW p \in Procs, ForkFails(p) PROVE TableTyped'
  BY <1>3 DEF ForkFails, Goto
<1>4. ASSUME NEW p \in Procs, NEW i \in Procs, ForkNoMemory(p, i) PROVE TableTyped'
  BY <1>4 DEF ForkNoMemory, Goto, Free
<1>5. ASSUME NEW p \in Procs, SetParent(p) PROVE TableTyped'
  BY Zenon, <1>5 DEF SetParent, Goto
<1>6. ASSUME NEW p \in Procs, SetRunnable(p) PROVE TableTyped'
  BY Zenon, <1>6 DEF SetRunnable, Goto
<1>7. ASSUME NEW p \in Procs, ExitBegin(p) PROVE TableTyped'
  BY <1>7 DEF ExitBegin, AcquireAndScan, Goto
<1>8. ASSUME NEW p \in Procs, Reparent(p) PROVE TableTyped'
  BY <1>8 DEF Reparent, Awake
<1>9. ASSUME NEW p \in Procs, WakeupParent(p) PROVE TableTyped'
  BY <1>9 DEF WakeupParent, Awake, Goto
<1>10. ASSUME NEW p \in Procs, BecomeZombie(p) PROVE TableTyped'
  BY <1>10 DEF BecomeZombie, Goto
<1>11. ASSUME NEW p \in Procs, WaitBegin(p) PROVE TableTyped'
  BY SMTT(20), <1>11 DEF WaitBegin, AcquireAndScan, Goto
<1>12. ASSUME NEW p \in Procs, Scan(p) PROVE TableTyped'
  BY SMTT(20), <1>12 DEF Scan, Free, WaitReturns, Goto
<1>13. ASSUME NEW p \in Procs, NoZombie(p) PROVE TableTyped'
  BY <1>13 DEF NoZombie, WaitReturns, Goto
<1>14. ASSUME NEW p \in Procs, WaitSleep(p) PROVE TableTyped'
  BY <1>14 DEF WaitSleep, Goto
<1>15. ASSUME NEW p \in Procs, NEW i \in Procs, Kill(p, i) PROVE TableTyped'
  BY <1>15 DEF Kill, Goto
<1>16. ASSUME NEW p \in Procs, KillFails(p) PROVE TableTyped'
  BY <1>16 DEF KillFails, Goto
<1>17. ASSUME NEW p \in Procs, CountBegin(p) PROVE TableTyped'
  BY <1>17 DEF CountBegin, Goto
<1>18. ASSUME NEW p \in Procs, Count(p) PROVE TableTyped'
  BY <1>18 DEF Count
<1>19. ASSUME NEW p \in Procs, CountEnd(p) PROVE TableTyped'
  BY <1>19 DEF CountEnd, Goto
<1>20. ASSUME NEW p \in Procs, Pause(p) PROVE TableTyped'
  BY <1>20 DEF Pause, Goto
<1>21. ASSUME NEW p \in Procs, PauseSleep(p) PROVE TableTyped'
  BY <1>21 DEF PauseSleep, Goto
<1>22. CASE Tick
  BY <1>22 DEF Tick, Awake
<1>23. CASE UNCHANGED vars
  BY ONLY <1>23, ProcInv DEF vars, table, locals, ProcInv, TypeOK, TableTyped
<1>. QED
  BY ONLY Zenon, [Next]_vars, <1>1, <1>2, <1>3, <1>4, <1>5, <1>6, <1>7, <1>8, <1>9, <1>10, <1>11,
      <1>12, <1>13, <1>14, <1>15, <1>16, <1>17, <1>18, <1>19, <1>20, <1>21, <1>22, <1>23
   DEF Next, Fork, Exit, Wait, KillAny, GetNumChild, Halted

\* userinit establishes the invariant.
LEMMA InitProc ==
  ASSUME ProcAssumption, Init
  PROVE  ProcInv
<1>. USE DEF ProcAssumption, Init, Procs, initproc, None
<1>1. TypeOK
  <2>1. \A p \in Procs : wait_lock = p <=> pc[p] \in Locked BY DEF Locked
  <2>2. killed \in [Procs -> BOOLEAN] /\ havekids \in [Procs -> BOOLEAN] /\ panic \in BOOLEAN BY Zenon
  <2>3. /\ nextpid \in 1..(MaxPid + 1) /\ pid \in [Procs -> 0..MaxPid] /\ shell \in 0..MaxPid
        /\ ans \in [Procs -> 0..NPROC] /\ most \in [Procs -> 0..NPROC] /\ at \in [Procs -> 1..(NPROC + 1)]
    OBVIOUS
  <2>. QED BY <2>1, <2>2, <2>3 DEF TypeOK, Labels
<1>2. LifeInv BY DEF LifeInv, Alive, Forking
<1>3. ParentInv BY DEF ParentInv, ParentAlive
<1>4. WaitInv BY DEF WaitInv, SleepsInWait
<1>5. ShellInv BY DEF ShellInv
<1>6. CountInv BY DEF CountInv
<1>. QED BY <1>1, <1>2, <1>3, <1>4, <1>5, <1>6 DEF ProcInv

\* Every step keeps the inductive invariant.
LEMMA ProcInductive ==
  ASSUME ProcAssumption
  PROVE  Spec => []ProcInv
<1>1. Init => ProcInv BY InitProc
<1>2. ProcInv /\ [Next]_vars => ProcInv'
  <2>. SUFFICES ASSUME ProcInv, [Next]_vars PROVE ProcInv' OBVIOUS
  <2>1. TypeOK'
    BY ONLY ProcAssumption, ProcInv, [Next]_vars, StepLock, StepBooleans, StepPids, StepCounters, StepTypes
    DEF TypeOK, LockTyped, BooleansTyped, PidsTyped, CountersTyped, TableTyped, Positions, Counts, Pids
  <2>. QED BY <2>1, StepLife, StepParent, StepWait, StepShell, StepCount DEF ProcInv
<1>. QED BY <1>1, <1>2, PTL DEF Spec

\* The process table stays well typed, and wait_lock is held where the code holds it.
THEOREM ProcTyped ==
  ASSUME ProcAssumption
  PROVE  Spec => []TypeOK
<1>1. ProcInv => TypeOK BY DEF ProcInv
<1>. QED BY <1>1, ProcInductive, PTL

\* p->parent never names a free slot or a zombie, although kexit and reparent,
\* kwait and kfork interleave; and wait of user/init.c always finds a child.
THEOREM FamiliesIntact ==
  ASSUME ProcAssumption
  PROVE  Spec => []FamilyIntact
<1>1. ProcInv => ParentAlive BY DEF ProcInv, ParentInv
<1>2. ProcInv => InitHasShell BY DEF ProcInv, ShellInv, InitHasShell
<1>. QED BY <1>1, <1>2, ProcInductive, PTL DEF FamilyIntact

\* The wakeups of kexit and reparent are never lost: no process sleeps in kwait
\* while it has a zombie child, own or inherited.
THEOREM ExitsNoticed ==
  ASSUME ProcAssumption
  PROVE  Spec => []NoMissedExit
<1>1. ProcInv => NoMissedExit BY SMTT(20) DEF ProcInv, WaitInv, SleepsInWait, NoMissedExit
<1>. QED BY <1>1, ProcInductive, PTL

\* sys_getnumchild returns a number between the live children at its end and
\* those at its beginning, without wait_lock.
THEOREM CountsExact ==
  ASSUME ProcAssumption
  PROVE  Spec => []NumChildIsExact
<1>1. ProcInv => NumChildIsExact
  <2>. SUFFICES ASSUME ProcInv, NEW p \in Procs, pc[p] = "counting", at[p] > NPROC
                PROVE  ans[p] \in Cardinality(LiveKids(p))..most[p]
    BY DEF NumChildIsExact
  <2>. NPROC \in Int /\ at[p] \in Int /\ ans[p] \in Int /\ most[p] \in Int /\ \A q \in Procs : q \in Int /\ q <= NPROC
    BY Bounds
  <2>1. LiveKids(p) \subseteq Procs BY DEF LiveKids, Kids
  <2>2. \A q \in Procs : q < at[p] /\ ~(q >= at[p]) OBVIOUS
  <2>3. Behind(p) = LiveKids(p) /\ Ahead(p) = {} BY ONLY <2>1, <2>2 DEF Behind, Ahead
  <2>4. Cardinality(LiveKids(p)) \in Int /\ Cardinality({}) = 0 BY <2>1, SlotSets, FS_EmptySet
  <2>5. Cardinality(Behind(p)) = Cardinality(LiveKids(p)) /\ Cardinality(Ahead(p)) = 0
    BY ONLY Zenon, <2>3, <2>4
  <2>6. CountOk(p) BY DEF ProcInv, CountInv
  <2>. QED BY ONLY <2>4, <2>5, <2>6, ans[p] \in Int, most[p] \in Int DEF CountOk
<1>. QED BY <1>1, ProcInductive, PTL
=============================================================================
