---------------------------- MODULE Transactions ----------------------------
(***************************************************************************)
(* What the log promises to the file system (kernel/log.c, the comment at  *)
(* its head): system calls change blocks in memory, the changes reach the  *)
(* disk only together and only while no system call is half-way, and a     *)
(* crash takes the disk back to the last such moment.                      *)
(***************************************************************************)
CONSTANTS Procs, Blocks, Data

VARIABLES durable,   \* what the blocks hold after a crash now
          current,   \* what the blocks hold for a reader now
          active     \* the processes inside a system call

vars == <<durable, current, active>>

Init ==
  /\ durable \in [Blocks -> Data]
  /\ current = durable
  /\ active = {}

Begin(p) ==
  /\ p \notin active
  /\ active' = active \cup {p}
  /\ UNCHANGED <<durable, current>>

Write(p, b, v) ==
  /\ p \in active
  /\ current' = [current EXCEPT ![b] = v]
  /\ UNCHANGED <<durable, active>>

End(p) ==
  /\ p \in active
  /\ active' = active \ {p}
  /\ UNCHANGED <<durable, current>>

Commit ==
  /\ active = {}
  /\ durable' = current
  /\ UNCHANGED <<current, active>>

Crash ==
  /\ current' = durable
  /\ active' = {}
  /\ UNCHANGED durable

Next ==
  \/ \E p \in Procs : Begin(p) \/ End(p) \/ \E b \in Blocks, v \in Data : Write(p, b, v)
  \/ Commit \/ Crash

Spec == Init /\ [][Next]_vars
=============================================================================
