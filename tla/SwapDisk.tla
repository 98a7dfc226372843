------------------------------ MODULE SwapDisk ------------------------------
(***************************************************************************)
(* The swap slots and the simulated disks: swap_out_page, swap_in_page,    *)
(* swap_disk_free_slot, raid_write, raid_read and setraidmode of           *)
(* kernel/swap_disk.c, with the slot allocation of swapout, swapin and     *)
(* swap_free of kernel/kalloc.c around them.                               *)
(*                                                                         *)
(* An actor is a process inside one of these functions.  Block transfers   *)
(* take no lock, so a step is the transfer of one block.  A block is one   *)
(* bit: the disks only copy, clear and xor blocks, bit by bit.  A page in  *)
(* a slot belongs to one process, so at most one actor reads or frees it.  *)
(***************************************************************************)
EXTENDS RaidLayout, FiniteSets

CONSTANTS Actors,
          Pages,    \* the page contents considered
          NoActor, NoPage

Index == 0..(BLOCKS_PER_PAGE - 1)
Bit == {0, 1}

ASSUME PagesAssumption ==
  Pages \subseteq [Index -> Bit] /\ NoPage \notin [Index -> Bit] /\ NoActor \notin Actors

VARIABLES
  raid_mode,            \* the mode of the next swap_out_page
  swaptable,            \* used and raid_mode of every slot
  swap_slot_raid_mode,  \* the mode swap_out_page recorded
  simulated_disks,      \* <<disk, block>> -> content
  swaplock,             \* the actor that holds it, or NoActor
  pc, slot, block, mode, page, parity, disk,  \* the actors' local variables
  stored                \* the page a slot holds for its owner's PTE, or NoPage

local == <<pc, slot, block, mode, page, parity, disk>>
vars == <<raid_mode, swaptable, swap_slot_raid_mode, simulated_disks, swaplock, local, stored>>

PCs == {"idle", "record", "write", "copy", "xor", "setpte", "read", "lock", "zero", "zerocopy"}

AllPlaces == Disks \X (0..(DISK_BLOCKS_PER_DISK - 1))

TypeOK ==
  /\ raid_mode \in Modes
  /\ swaptable \in [Slots -> [used : BOOLEAN, raid_mode : Modes]]
  /\ swap_slot_raid_mode \in [Slots -> Modes]
  /\ simulated_disks \in [AllPlaces -> Bit]
  /\ swaplock \in Actors \cup {NoActor}
  /\ pc \in [Actors -> PCs]
  /\ slot \in [Actors -> Slots]
  /\ block \in [Actors -> 0..BLOCKS_PER_PAGE]
  /\ mode \in [Actors -> Modes]
  /\ page \in [Actors -> [Index -> Bit]]
  /\ parity \in [Actors -> Bit]
  /\ disk \in [Actors -> 0..NDISKS]
  /\ stored \in [Slots -> [Index -> Bit] \cup {NoPage}]

Zeros == [i \in Index |-> 0]

\* kinit and swap_disk_init.
Init ==
  /\ raid_mode = RAID_0
  /\ swaptable = [s \in Slots |-> [used |-> FALSE, raid_mode |-> RAID_0]]
  /\ swap_slot_raid_mode = [s \in Slots |-> RAID_0]
  /\ simulated_disks = [p \in AllPlaces |-> 0]
  /\ swaplock = NoActor
  /\ pc = [a \in Actors |-> "idle"]
  /\ slot = [a \in Actors |-> 0]
  /\ block = [a \in Actors |-> 0]
  /\ mode = [a \in Actors |-> RAID_0]
  /\ page = [a \in Actors |-> Zeros]
  /\ parity = [a \in Actors |-> 0]
  /\ disk = [a \in Actors |-> 0]
  /\ stored = [s \in Slots |-> NoPage]

\* Mutant: the blocks are added.
XorSum(x, y) == x + y

Xor(x, y) == IF x = y THEN 0 ELSE 1

\* The logical block the actor is at, and where its data and its copy go.
Lb(a) == LogicalBlock(slot[a], block[a])

Write(place, x) == simulated_disks' = [simulated_disks EXCEPT ![place] = x]

\* The end of an iteration over the blocks of a page: the next block, or on to
\* what follows the loop, with the local variables no longer used reset.
NextBlock(a, again, after) ==
  /\ IF block[a] + 1 < BLOCKS_PER_PAGE
     THEN block' = [block EXCEPT ![a] = @ + 1] /\ pc' = [pc EXCEPT ![a] = again]
     ELSE block' = [block EXCEPT ![a] = 0] /\ pc' = [pc EXCEPT ![a] = after]
  /\ parity' = [parity EXCEPT ![a] = 0]
  /\ disk' = [disk EXCEPT ![a] = 0]

-----------------------------------------------------------------------------
\* setraidmode, at any time.
SetRaidMode(m) ==
  /\ raid_mode' = m
  /\ UNCHANGED <<swaptable, swap_slot_raid_mode, simulated_disks, swaplock, local, stored>>

\* swapout: the first free slot, under swaplock.  With none free it returns -1
\* and nothing changes.
Swapout(a, s, contents) ==
  /\ pc[a] = "idle"
  /\ swaplock = NoActor
  /\ ~swaptable[s].used
  /\ \A t \in Slots : t < s => swaptable[t].used
  /\ swaptable' = [swaptable EXCEPT ![s] = [used |-> TRUE, raid_mode |-> raid_mode]]
  /\ slot' = [slot EXCEPT ![a] = s]
  /\ page' = [page EXCEPT ![a] = contents]
  /\ pc' = [pc EXCEPT ![a] = "record"]
  /\ UNCHANGED <<raid_mode, swap_slot_raid_mode, simulated_disks, swaplock, block, mode, parity, disk, stored>>

\* Mutant: the mode is the one swapout saw under swaplock.
RecordModeOfTable(a) ==
  /\ pc[a] = "record"
  /\ mode' = [mode EXCEPT ![a] = raid_mode]
  /\ swap_slot_raid_mode' = [swap_slot_raid_mode EXCEPT ![slot[a]] = swaptable[slot[a]].raid_mode]
  /\ pc' = [pc EXCEPT ![a] = "write"]
  /\ UNCHANGED <<raid_mode, swaptable, simulated_disks, swaplock, slot, block, page, parity, disk, stored>>

\* swap_out_page: the mode, under diskq.lock.
RecordMode(a) ==
  /\ pc[a] = "record"
  /\ mode' = [mode EXCEPT ![a] = raid_mode]
  /\ swap_slot_raid_mode' = [swap_slot_raid_mode EXCEPT ![slot[a]] = raid_mode]
  /\ pc' = [pc EXCEPT ![a] = "write"]
  /\ UNCHANGED <<raid_mode, swaptable, simulated_disks, swaplock, slot, block, page, parity, disk, stored>>

\* Mutant: RAID_1 writes no mirror.
RaidWriteNoMirror(a) ==
  /\ pc[a] = "write"
  /\ Write(DataPlace(Lb(a), mode[a]), page[a][block[a]])
  /\ IF mode[a] = RAID_5
     THEN pc' = [pc EXCEPT ![a] = "xor"] /\ UNCHANGED <<block, parity, disk>>
     ELSE NextBlock(a, "write", "setpte")
  /\ UNCHANGED <<raid_mode, swaptable, swap_slot_raid_mode, swaplock, slot, mode, page, stored>>

\* raid_write: the data block, then for RAID_1 the mirror, for RAID_5 the xor
\* of the row, one disk at a time, and the parity block.
RaidWrite(a) ==
  /\ pc[a] = "write"
  /\ Write(DataPlace(Lb(a), mode[a]), page[a][block[a]])
  /\ CASE mode[a] = RAID_0 -> NextBlock(a, "write", "setpte")
       [] mode[a] = RAID_1 -> pc' = [pc EXCEPT ![a] = "copy"] /\ UNCHANGED <<block, parity, disk>>
       [] mode[a] = RAID_5 -> pc' = [pc EXCEPT ![a] = "xor"] /\ UNCHANGED <<block, parity, disk>>
  /\ UNCHANGED <<raid_mode, swaptable, swap_slot_raid_mode, swaplock, slot, mode, page, stored>>

XorDisk(a) ==
  /\ pc[a] = "xor"
  /\ IF disk[a] = ParityDisk(Lb(a)) THEN UNCHANGED parity
     ELSE parity' = [parity EXCEPT ![a] = Xor(@, simulated_disks[<<disk[a], PhysBlock(Lb(a), RAID_5)>>])]
  /\ disk' = [disk EXCEPT ![a] = @ + 1]
  /\ pc' = [pc EXCEPT ![a] = IF disk[a] + 1 < NDISKS THEN "xor" ELSE "copy"]
  /\ UNCHANGED <<raid_mode, swaptable, swap_slot_raid_mode, simulated_disks, swaplock, slot, block, mode,
                 page, stored>>

RaidWriteCopy(a) ==
  /\ pc[a] = "copy"
  /\ Write(CopyPlace(Lb(a), mode[a]), IF mode[a] = RAID_1 THEN page[a][block[a]] ELSE parity[a])
  /\ NextBlock(a, "write", "setpte")
  /\ UNCHANGED <<raid_mode, swaptable, swap_slot_raid_mode, swaplock, slot, mode, page, stored>>

\* The end of swapout: the owner's PTE now names the slot.
SetPte(a) ==
  /\ pc[a] = "setpte"
  /\ stored' = [stored EXCEPT ![slot[a]] = page[a]]
  /\ pc' = [pc EXCEPT ![a] = "idle"]
  /\ page' = [page EXCEPT ![a] = Zeros]
  /\ UNCHANGED <<raid_mode, swaptable, swap_slot_raid_mode, simulated_disks, swaplock, slot, block, mode,
                 parity, disk>>

\* A slot whose owner neither reads nor frees it yet.
Quiet(s) == stored[s] # NoPage /\ \A a \in Actors : slot[a] = s => pc[a] = "idle"

\* swapin's check under swaplock, and swap_in_page's read of the mode.
Swapin(a, s) ==
  /\ pc[a] = "idle"
  /\ swaplock = NoActor
  /\ Quiet(s)
  /\ slot' = [slot EXCEPT ![a] = s]
  /\ mode' = [mode EXCEPT ![a] = swap_slot_raid_mode[s]]
  /\ pc' = [pc EXCEPT ![a] = "read"]
  /\ UNCHANGED <<raid_mode, swaptable, swap_slot_raid_mode, simulated_disks, swaplock, block, page, parity,
                 disk, stored>>

RaidRead(a) ==
  /\ pc[a] = "read"
  /\ page' = [page EXCEPT ![a] = [@ EXCEPT ![block[a]] = simulated_disks[DataPlace(Lb(a), mode[a])]]]
  /\ NextBlock(a, "read", "lock")
  /\ UNCHANGED <<raid_mode, swaptable, swap_slot_raid_mode, simulated_disks, swaplock, slot, mode, stored>>

\* uvmunmap of a swapped-out page goes straight to swap_free.
Unmap(a, s) ==
  /\ pc[a] = "idle"
  /\ Quiet(s)
  /\ slot' = [slot EXCEPT ![a] = s]
  /\ pc' = [pc EXCEPT ![a] = "lock"]
  /\ UNCHANGED <<raid_mode, swaptable, swap_slot_raid_mode, simulated_disks, swaplock, block, mode, page,
                 parity, disk, stored>>

\* swap_free: the slot is free for the next swapout, once swaplock is released.
SwapFree(a) ==
  /\ pc[a] = "lock"
  /\ swaplock = NoActor
  /\ swaplock' = a
  /\ swaptable' = [swaptable EXCEPT ![slot[a]] = [used |-> FALSE, raid_mode |-> RAID_0]]
  /\ mode' = [mode EXCEPT ![a] = swap_slot_raid_mode[slot[a]]]
  /\ page' = [page EXCEPT ![a] = Zeros]
  /\ stored' = [stored EXCEPT ![slot[a]] = NoPage]
  /\ pc' = [pc EXCEPT ![a] = "zero"]
  /\ UNCHANGED <<raid_mode, swap_slot_raid_mode, simulated_disks, slot, block, parity, disk>>

\* swap_disk_free_slot after its last block: the mode is forgotten, swap_free
\* releases swaplock.
ZeroNext(a) ==
  /\ NextBlock(a, "zero", "idle")
  /\ IF block[a] + 1 < BLOCKS_PER_PAGE
     THEN UNCHANGED <<swap_slot_raid_mode, swaplock>>
     ELSE /\ swap_slot_raid_mode' = [swap_slot_raid_mode EXCEPT ![slot[a]] = RAID_0]
          /\ swaplock' = NoActor

\* Mutant: the data block of a RAID_5 row is left.
ZeroBlockParityOnly(a) ==
  /\ pc[a] = "zero"
  /\ IF mode[a] = RAID_5 THEN UNCHANGED simulated_disks ELSE Write(DataPlace(Lb(a), mode[a]), 0)
  /\ IF mode[a] = RAID_0 THEN ZeroNext(a)
     ELSE pc' = [pc EXCEPT ![a] = "zerocopy"] /\ UNCHANGED <<block, parity, disk, swap_slot_raid_mode, swaplock>>
  /\ UNCHANGED <<raid_mode, swaptable, slot, mode, page, stored>>

ZeroBlock(a) ==
  /\ pc[a] = "zero"
  /\ Write(DataPlace(Lb(a), mode[a]), 0)
  /\ IF mode[a] = RAID_0 THEN ZeroNext(a)
     ELSE pc' = [pc EXCEPT ![a] = "zerocopy"] /\ UNCHANGED <<block, parity, disk, swap_slot_raid_mode, swaplock>>
  /\ UNCHANGED <<raid_mode, swaptable, slot, mode, page, stored>>

ZeroCopy(a) ==
  /\ pc[a] = "zerocopy"
  /\ Write(CopyPlace(Lb(a), mode[a]), 0)
  /\ ZeroNext(a)
  /\ UNCHANGED <<raid_mode, swaptable, slot, mode, page, stored>>

-----------------------------------------------------------------------------
Step(a) ==
  \/ \E s \in Slots : Swapin(a, s) \/ Unmap(a, s) \/ \E contents \in Pages : Swapout(a, s, contents)
  \/ RecordMode(a) \/ RaidWrite(a) \/ XorDisk(a) \/ RaidWriteCopy(a) \/ SetPte(a)
  \/ RaidRead(a) \/ SwapFree(a) \/ ZeroBlock(a) \/ ZeroCopy(a)

Next == (\E m \in Modes : SetRaidMode(m)) \/ \E a \in Actors : Step(a)

Spec == Init /\ [][Next]_vars

-----------------------------------------------------------------------------
\* What the owner of slot s would read from it now.
Contents(s) == [i \in Index |-> simulated_disks[DataPlace(LogicalBlock(s, i), swap_slot_raid_mode[s])]]

\* A swapped-out page is intact on the disks, whatever the other processes
\* swap out, read and free in other modes at the same time, and a swap-in
\* returns it: no mode change, parity update or zeroing touches its data.
SlotIntact ==
  /\ \A s \in Slots : stored[s] # NoPage => Contents(s) = stored[s]
  /\ \A a \in Actors : pc[a] = "read" =>
       \A i \in Index : i < block[a] => page[a][i] = stored[slot[a]][i]

\* "Zeroes the physical disk blocks so stale data cannot be read back if a slot
\* is reused": outside the mode it is used in, a slot is all zeros on the disks.
NoStaleData ==
  \A s \in Slots, m \in Modes :
    (~swaptable[s].used /\ \A a \in Actors : slot[a] = s => pc[a] = "idle") \/ (stored[s] # NoPage /\ swap_slot_raid_mode[s] # m)
      => \A i \in Index : simulated_disks[DataPlace(LogicalBlock(s, i), m)] = 0

\* The mirror of a slot written under RAID_1 equals its data.
MirrorsAgree ==
  \A s \in Slots : stored[s] # NoPage /\ swap_slot_raid_mode[s] = RAID_1 /\ Quiet(s) =>
    \A i \in Index : LET lb == LogicalBlock(s, i) IN
      simulated_disks[CopyPlace(lb, RAID_1)] = simulated_disks[DataPlace(lb, RAID_1)]

\* "Parity is recomputed from scratch on every write by XOR-ing all three data
\* disks in the row.  This avoids the stale-parity bug": with no transfer under
\* way, the parity of a row that holds a stored block is the xor of its data.
ParityConsistent ==
  (\A a \in Actors : pc[a] \in {"idle", "read"}) =>
    \A s \in Slots : stored[s] # NoPage /\ swap_slot_raid_mode[s] = RAID_5 =>
      \A i \in Index :
        LET lb == LogicalBlock(s, i)
            ones == {d \in Disks : d # ParityDisk(lb) /\ simulated_disks[<<d, PhysBlock(lb, RAID_5)>>] = 1}
        IN simulated_disks[CopyPlace(lb, RAID_5)] = Cardinality(ones) % 2
=============================================================================
