----------------------------- MODULE DiskSched ------------------------------
(***************************************************************************)
(* The request queue of the swap disk (kernel/swap_disk.c): which request  *)
(* is served next, and the latency statistics, which processes on several  *)
(* CPUs update and read.                                                   *)
(*                                                                         *)
(* A step is one critical section under diskq.lock, or one read that       *)
(* disk_get_avg_latency makes without the lock.                            *)
(***************************************************************************)
EXTENDS DiskQueue

CONSTANT MaxRequests    \* bound on the requests of a behaviour

VARIABLES
  reqs, head, policy, total_latency, total_requests,  \* diskq
  pc,      \* per process: "idle", "stats" between the two critical sections of a
           \* request, "divide" between the two reads of disk_get_avg_latency
  req,     \* the request p has taken from the queue
  tl,      \* the latency p has read
  avg_disk_latency,
  panic

queue == <<reqs, head, total_latency, total_requests>>
vars == <<queue, policy, pc, req, tl, avg_disk_latency, panic>>

TypeOK ==
  /\ reqs \in [Index -> Request \cup {Invalid}]
  /\ head \in PhysBlocks
  /\ policy \in Policies
  /\ total_latency \in Nat /\ total_requests \in 0..MaxRequests
  /\ pc \in [Procs -> {"idle", "stats", "divide"}]
  /\ req \in [Procs -> Request \cup {Invalid}]
  /\ tl \in [Procs -> Nat]
  /\ avg_disk_latency \in [Procs -> Nat]
  /\ panic \in BOOLEAN

Init ==
  /\ reqs = [i \in Index |-> Invalid]
  /\ head = 0 /\ policy = "FCFS"
  /\ total_latency = 0 /\ total_requests = 0
  /\ pc = [p \in Procs |-> "idle"]
  /\ req = [p \in Procs |-> Invalid]
  /\ tl = [p \in Procs |-> 0]
  /\ avg_disk_latency = [p \in Procs |-> 0]
  /\ panic = FALSE

At(p, l) == ~panic /\ pc[p] = l

\* Mutant: the rotational delay is forgotten.
DequeueSeekOnly(p, queued, idx) ==
  /\ req' = [req EXCEPT ![p] = queued[idx]]
  /\ reqs' = [queued EXCEPT ![idx] = Invalid]
  /\ head' = queued[idx].blockno
  /\ total_latency' = total_latency + Distance(queued[idx].blockno, head)
  /\ total_requests' = total_requests + 1

Dequeue(p, queued, idx) ==
  /\ req' = [req EXCEPT ![p] = queued[idx]]
  /\ reqs' = [queued EXCEPT ![idx] = Invalid]
  /\ head' = queued[idx].blockno
  /\ total_latency' = total_latency + Distance(queued[idx].blockno, head) + ROTATIONAL_DELAY
  /\ total_requests' = total_requests + 1

\* The first critical section of disk_submit_and_dispatch.
Submit(p, blockno, priority) ==
  /\ At(p, "idle") /\ total_requests < MaxRequests
  /\ LET slot == FreeSlot(reqs)
         queued == [reqs EXCEPT ![slot] = [blockno |-> blockno, proc |-> p, priority |-> priority]]
     IN IF slot = -1 THEN panic' = TRUE /\ UNCHANGED <<queue, pc, req>>
        ELSE /\ Dequeue(p, queued, Schedule(queued, head, policy))
             /\ pc' = [pc EXCEPT ![p] = "stats"]
             /\ UNCHANGED panic
  /\ UNCHANGED <<policy, tl, avg_disk_latency>>

\* The second one: the statistics of the process that issued the request.
UpdateStats(p) ==
  /\ At(p, "stats")
  /\ avg_disk_latency' = [avg_disk_latency EXCEPT ![req[p].proc] = total_latency \div total_requests]
  /\ pc' = [pc EXCEPT ![p] = "idle"]
  /\ req' = [req EXCEPT ![p] = Invalid]
  /\ UNCHANGED <<queue, policy, tl, panic>>

\* disk_get_avg_latency, called by swapout and swapin, takes no lock.
ReadLatency(p) ==
  /\ At(p, "idle") /\ total_requests # 0
  /\ tl' = [tl EXCEPT ![p] = total_latency]
  /\ pc' = [pc EXCEPT ![p] = "divide"]
  /\ UNCHANGED <<queue, policy, req, avg_disk_latency, panic>>

Divide(p) ==
  /\ At(p, "divide")
  /\ avg_disk_latency' = [avg_disk_latency EXCEPT ![p] = tl[p] \div total_requests]
  /\ tl' = [tl EXCEPT ![p] = 0]
  /\ pc' = [pc EXCEPT ![p] = "idle"]
  /\ UNCHANGED <<queue, policy, req, panic>>

SetDiskSched(pol) ==
  /\ ~panic
  /\ policy' = IF pol \in Policies THEN pol ELSE policy
  /\ UNCHANGED <<queue, pc, req, tl, avg_disk_latency, panic>>

Next ==
  \/ \E p \in Procs : \/ \E b \in PhysBlocks, l \in 0..MaxLevel : Submit(p, b, l)
                      \/ UpdateStats(p) \/ ReadLatency(p) \/ Divide(p)
  \/ \E pol \in Policies \cup {"invalid"} : SetDiskSched(pol)

Spec == Init /\ [][Next]_vars

-----------------------------------------------------------------------------
\* Every process serves the request it has just queued, whatever the policy:
\* nothing is left in the queue when diskq.lock is free, so the queue never
\* fills up, no statistics go to another process, and SSTF has nothing to
\* reorder.
ServedAtOnce ==
  /\ \A i \in Index : reqs[i] = Invalid
  /\ \A p \in Procs : pc[p] = "stats" => req[p].proc = p
  /\ ~panic

\* The average that disk_submit_and_dispatch stores, from totals that other
\* processes go on changing after the request was served, lies between the
\* latency of no seek and that of the longest seek.
AverageInBounds ==
  \A p \in Procs : pc[p] = "stats" /\ pc'[p] = "idle"
    => avg_disk_latency'[p] \in ROTATIONAL_DELAY..(ROTATIONAL_DELAY + MaxBlock)
=============================================================================
