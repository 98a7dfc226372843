----------------------------- MODULE Algorithms -----------------------------
(***************************************************************************)
(* The pure algorithms of the kernel against reference definitions: the    *)
(* clock scan over every frame table, the swap layout with the constants   *)
(* of the code over every slot, and the disk scheduler over every queue.   *)
(* A state is one input; the steps feed an output back as the next input.  *)
(***************************************************************************)
EXTENDS Clock, RaidLayout, DiskQueue

VARIABLE input

ClockInputs ==
  UNION {UNION {[hand : FrameIdx, owned : {owned}, cand : {cand}, acc : SUBSET cand, level : [FrameIdx -> 0..MaxLevel]]
                  : cand \in SUBSET owned} : owned \in SUBSET FrameIdx}

LayoutInputs == [slot : Slots]

QueueInputs == [reqs : [Index -> Request \cup {Invalid}], head : PhysBlocks, policy : Policies]

Init == input \in ClockInputs \cup LayoutInputs \cup QueueInputs

Is(field) == field \in DOMAIN input

Scan == ClockScan(input.hand, input.cand, [i \in FrameIdx |-> i], input.acc, input.level)

Evict ==
  /\ Is("hand")
  /\ LET v == Victim(Scan.best, input.owned)
     IN /\ v # -1
        /\ input' = [input EXCEPT !.hand = HandPast(v), !.acc = Scan.acc, !.cand = @ \ {v}, !.owned = @ \ {v}]

Chosen == Schedule(input.reqs, input.head, input.policy)

Serve ==
  /\ Is("reqs")
  /\ Chosen # -1
  /\ input' = [input EXCEPT !.reqs[Chosen] = Invalid, !.head = input.reqs[Chosen].blockno]

NextSlot == Is("slot") /\ input' = [slot |-> (input.slot + 1) % MAX_SWAP]

Next == Evict \/ Serve \/ NextSlot

-----------------------------------------------------------------------------
\* How far the clock hand is from frame i.
Ahead(i) == (i - input.hand) % MAX_FRAMES

\* Frame i is a better victim than j: its owner is at a lower queue, or is at
\* the same queue and only j was referenced, or the clock hand meets i first.
Before(i, j) ==
  \/ input.level[i] > input.level[j]
  \/ input.level[i] = input.level[j] /\ i \notin input.acc /\ j \in input.acc
  \/ input.level[i] = input.level[j] /\ (i \in input.acc <=> j \in input.acc) /\ Ahead(i) < Ahead(j)

\* The two rounds of clock_evict find the best victim in this order, refuse
\* only if every frame's owner runs elsewhere, and clear the reference bit of
\* every frame they consider.
ScanFindsBest ==
  Is("hand") =>
    /\ IF input.cand = {} THEN Scan.best = -1
       ELSE Scan.best \in input.cand /\ \A j \in input.cand \ {Scan.best} : Before(Scan.best, j)
    /\ Scan.acc = {}
    /\ Victim(Scan.best, input.owned) = -1 <=> input.owned = {}

BlocksOf(s) == {LogicalBlock(s, i) : i \in 0..(BLOCKS_PER_PAGE - 1)}

\* Within a mode raid_write, raid_read and swap_disk_free_slot give every
\* logical block a place of its own that no parity block shares, against the
\* inverse map written independently.
LayoutInvertible ==
  Is("slot") =>
    \A lb \in BlocksOf(input.slot), mode \in Modes :
      /\ BlockAt(DataDisk(lb, mode), PhysBlock(lb, mode), mode) = lb
      /\ mode = RAID_5 => BlockAt(CopyDisk(lb, mode), PhysBlock(lb, mode), mode) = -1

\* The offsets that phys_write and phys_read add keep the three modes in three
\* regions of the disks for the first slots, up to the end of the RAID 1
\* region, so that slots written before and after setraidmode do not overlap.
ModesApart ==
  Is("slot") =>
    \A lb \in BlocksOf(input.slot) : Separate(lb) =>
      /\ PhysBlock(lb, RAID_0) < OFFSET1
      /\ PhysBlock(lb, RAID_1) \in OFFSET1..(OFFSET5 - 1)
      /\ PhysBlock(lb, RAID_5) \in OFFSET5..(DISK_BLOCKS_PER_DISK - 1)

\* disk_schedule_locked serves the request in the lowest slot under FCFS, and
\* the nearest one under SSTF, with ties broken by the MLFQ level and then by
\* the slot; it finds a request whenever there is one.
ServesNearest ==
  Is("reqs") =>
    LET waiting == {i \in Index : input.reqs[i] # Invalid}
        Key(i) == IF input.policy = "FCFS" THEN <<0, 0, i>>
                  ELSE <<Distance(input.reqs[i].blockno, input.head), input.reqs[i].priority, i>>
        Less(a, b) == \E n \in 1..3 : a[n] < b[n] /\ \A m \in 1..(n - 1) : a[m] = b[m]
    IN IF waiting = {} THEN Chosen = -1
       ELSE Chosen \in waiting /\ \A j \in waiting \ {Chosen} : Less(Key(Chosen), Key(j))
=============================================================================
