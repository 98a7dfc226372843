----------------------------- MODULE MlfqHistory -----------------------------
(***************************************************************************)
(* Mlfq with history variables: what the scheduling policy promises over a *)
(* stretch of time, stated as safety properties.  The history variables    *)
(* only observe the steps of Mlfq.                                         *)
(***************************************************************************)
EXTENDS Mlfq, FiniteSets

VARIABLES
  bypass,      \* dispatches of others since p last became RUNNABLE (one CPU)
  sliceCalls,  \* system calls of p since its current slice began (one CPU)
  due          \* processes RUNNABLE ever since the running boost began

hvars == <<vars, bypass, sliceCalls, due>>

HInit ==
  /\ Init
  /\ bypass = [p \in Procs |-> 0]
  /\ sliceCalls = [p \in Procs |-> 0]
  /\ due = {}

Dispatched == {p \in Procs : state[p] = "RUNNABLE" /\ state'[p] = "RUNNING"}

Waits(p) == state[p] = "RUNNABLE" /\ state'[p] = "RUNNABLE"

\* usertrap ends p's slice.
SliceEnds(p) ==
  \E c \in CPUs : /\ proc[c] = p
                  /\ pc[c] = "account"
                  /\ pc'[c] = "yield"
                  /\ ticks_each_level'[p] = 0

Created(p) == state[p] = "UNUSED" /\ state'[p] = "RUNNABLE"

Boosted(p) == pc[0] = "boost" /\ boostAt = p /\ state[p] = "RUNNABLE"

Calls(p) == mode[p] = "user" /\ mode'[p] = "kernel"

HNext ==
  /\ Next
  /\ bypass' = [p \in Procs |-> IF NCPU = 1 /\ Waits(p) THEN bypass[p] + Cardinality(Dispatched) ELSE 0]
  /\ sliceCalls' = [p \in Procs |->
                      IF NCPU > 1 \/ SliceEnds(p) \/ Created(p) \/ (Boosted(p) /\ boostAt' # boostAt) THEN 0
                      ELSE IF Calls(p) /\ sliceCalls[p] < MaxCalls THEN sliceCalls[p] + 1
                      ELSE sliceCalls[p]]
  /\ due' = CASE pc[0] # "boost" /\ pc'[0] = "boost" -> {p \in Procs : state'[p] = "RUNNABLE"}
              [] pc[0] = "boost" /\ pc'[0] = "boost" -> {p \in due : state'[p] = "RUNNABLE"}
              [] OTHER -> {}

HSpec == HInit /\ [][HNext]_hvars

HFairSpec == HSpec /\ Fairness

-----------------------------------------------------------------------------
\* Bounded waiting on one CPU: between becoming RUNNABLE and being dispatched a
\* process is passed over at most MaxLevel + 2 times by each other process,
\* although one that is demoted during a pass of the scheduler runs again at
\* the next level of the same pass and a boost can lift the waiting process
\* to a level the pass has left behind.
BoundedBypass ==
  NCPU = 1 => \A p \in Procs : bypass[p] <= (MaxLevel + 2) * (NPROC - 1)

\* The half of the interactivity rule that the code keeps: a process above the
\* lowest level whose slice ends without demotion made at least as many system
\* calls during that slice as it consumed ticks.
KeepsLevelOnlyIfInteractive ==
  [][\A p \in Procs : SliceEnds(p) /\ cur_queue_lvl'[p] = cur_queue_lvl[p] /\ cur_queue_lvl[p] < MaxLevel
       => sliceCalls[p] >= TimeSlice[cur_queue_lvl[p]]]_hvars

\* The other half, "If dS >= dT, the process is considered interactive and not
\* demoted", with dS the "system calls executed during the time slice".
InteractiveNotDemoted ==
  [][\A p \in Procs : SliceEnds(p) /\ sliceCalls[p] >= TimeSlice[cur_queue_lvl[p]]
       => cur_queue_lvl'[p] = cur_queue_lvl[p]]_hvars

\* A boost reaches every process that waits throughout it, although its loop
\* takes one lock at a time while other CPUs dispatch, wake and preempt.
BoostReachesWaiters ==
  [][pc[0] = "boost" /\ pc'[0] # "boost"
       => \A p \in due : state'[p] = "RUNNABLE" => cur_queue_lvl'[p] = 0]_hvars
=============================================================================
