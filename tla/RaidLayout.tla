----------------------------- MODULE RaidLayout -----------------------------
(***************************************************************************)
(* Where kernel/swap_disk.c puts the blocks of a swap slot: the address    *)
(* arithmetic of raid_write, raid_read and swap_disk_free_slot, which all  *)
(* three repeat, and the offsets of phys_write and phys_read.              *)
(*                                                                         *)
(* The modes share the four disks: RAID_1 is shifted by OFFSET1 blocks and *)
(* RAID_5 by OFFSET5, so a slot written in one mode may overlap a slot     *)
(* written in another.                                                     *)
(***************************************************************************)
EXTENDS Integers

CONSTANTS MAX_SWAP,              \* swap slots
          BLOCKS_PER_PAGE,       \* blocks of a slot
          DISK_BLOCKS_PER_DISK,
          OFFSET1, OFFSET5       \* 2048 and 4096 in the code

ASSUME LayoutAssumption ==
  /\ MAX_SWAP \in Nat \ {0} /\ BLOCKS_PER_PAGE \in Nat \ {0} /\ DISK_BLOCKS_PER_DISK \in Nat \ {0}
  /\ OFFSET1 \in Nat /\ OFFSET5 \in Nat

NDISKS == 4
RAID_0 == 0
RAID_1 == 1
RAID_5 == 2
Modes == {RAID_0, RAID_1, RAID_5}

Disks == 0..(NDISKS - 1)
Slots == 0..(MAX_SWAP - 1)

LogicalBlock(slot, i) == slot * BLOCKS_PER_PAGE + i

Row(lb) == lb \div (NDISKS - 1)
ParityDisk(lb) == Row(lb) % NDISKS

\* Mutant: the parity disk itself is not skipped.
DataDiskOfRowOffByOne(lb) ==
  LET slot == lb % (NDISKS - 1) IN IF slot <= ParityDisk(lb) THEN slot ELSE slot + 1

DataDiskOfRow(lb) ==
  LET slot == lb % (NDISKS - 1) IN IF slot < ParityDisk(lb) THEN slot ELSE slot + 1

DataDisk(lb, mode) ==
  CASE mode = RAID_0 -> lb % NDISKS
    [] mode = RAID_1 -> 2 * ((lb \div DISK_BLOCKS_PER_DISK) % 2)
    [] mode = RAID_5 -> DataDiskOfRow(lb)

PhysBlock(lb, mode) ==
  CASE mode = RAID_0 -> lb \div NDISKS
    [] mode = RAID_1 -> (lb % DISK_BLOCKS_PER_DISK) + OFFSET1
    [] mode = RAID_5 -> Row(lb) + OFFSET5

\* The disk that receives the second write, if the mode has one.
CopyDisk(lb, mode) == IF mode = RAID_1 THEN DataDisk(lb, mode) + 1 ELSE ParityDisk(lb)

DataPlace(lb, mode) == <<DataDisk(lb, mode), PhysBlock(lb, mode)>>
CopyPlace(lb, mode) == <<CopyDisk(lb, mode), PhysBlock(lb, mode)>>

\* Every place that writing or freeing the block touches.
Places(lb, mode) ==
  {DataPlace(lb, mode)} \cup (IF mode = RAID_0 THEN {} ELSE {CopyPlace(lb, mode)})

\* phys_write and phys_read panic otherwise.
InRange(lb, mode) == PhysBlock(lb, mode) < DISK_BLOCKS_PER_DISK

\* The logical blocks for which the modes stay apart.
Separate(lb) == lb < NDISKS * OFFSET1 /\ OFFSET1 + lb < OFFSET5 /\ lb < DISK_BLOCKS_PER_DISK

\* The inverse of the layout: the logical block whose data is at block b of
\* disk d under the mode, or -1 for parity.
BlockAt(d, b, mode) ==
  CASE mode = RAID_0 -> b * NDISKS + d
    [] mode = RAID_1 -> (d \div 2) * DISK_BLOCKS_PER_DISK + (b - OFFSET1)
    [] mode = RAID_5 ->
         LET row == b - OFFSET5
             parity == row % NDISKS
         IN IF d = parity THEN -1 ELSE row * (NDISKS - 1) + (IF d < parity THEN d ELSE d - 1)
=============================================================================
