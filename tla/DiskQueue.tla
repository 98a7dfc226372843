----------------------------- MODULE DiskQueue ------------------------------
(***************************************************************************)
(* The queue of swap disk requests and the choice of the next one          *)
(* (disk_schedule_locked, kernel/swap_disk.c), as functions of the queue.  *)
(***************************************************************************)
EXTENDS Integers

CONSTANTS Procs, MAX_DISK_REQS, ROTATIONAL_DELAY,
          MaxBlock,      \* physical blocks are 0..MaxBlock
          MaxLevel       \* queue levels of the MLFQ

Index == 0..(MAX_DISK_REQS - 1)
PhysBlocks == 0..MaxBlock
Policies == {"FCFS", "SSTF"}

Request == [blockno : PhysBlocks, proc : Procs, priority : 0..MaxLevel]

\* An entry of reqs with valid = 0.
Invalid == [blockno |-> -1]

Distance(a, b) == IF a < b THEN b - a ELSE a - b

FirstValid(q) ==
  IF \A i \in Index : q[i] = Invalid THEN -1
  ELSE CHOOSE i \in Index : q[i] # Invalid /\ \A j \in 0..(i - 1) : q[j] = Invalid

\* Mutant: of two equally near requests the later one wins.
CloserLast(q, head, i, chosen) ==
  \/ chosen = -1
  \/ LET d == Distance(q[i].blockno, head)
         min == Distance(q[chosen].blockno, head)
     IN d < min \/ (d = min /\ q[i].priority <= q[chosen].priority)

Closer(q, head, i, chosen) ==
  \/ chosen = -1
  \/ LET d == Distance(q[i].blockno, head)
         min == Distance(q[chosen].blockno, head)
     IN d < min \/ (d = min /\ q[i].priority < q[chosen].priority)

Schedule(q, head, policy) ==
  LET loop[n \in 0..MAX_DISK_REQS] ==
        IF n = 0 THEN -1
        ELSE IF q[n - 1] # Invalid /\ Closer(q, head, n - 1, loop[n - 1]) THEN n - 1
        ELSE loop[n - 1]
  IN IF policy = "FCFS" THEN FirstValid(q) ELSE loop[MAX_DISK_REQS]

\* The slot that a new request takes.
FreeSlot(q) ==
  IF \A i \in Index : q[i] # Invalid THEN -1
  ELSE CHOOSE i \in Index : q[i] = Invalid /\ \A j \in 0..(i - 1) : q[j] # Invalid
=============================================================================
