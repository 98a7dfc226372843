--------------------------- MODULE SwapDiskProofs ---------------------------
(***************************************************************************)
(* A page that swapout has put in a slot can be read back, for any number  *)
(* of slots, blocks per page, offsets and processes, provided the layout   *)
(* keeps the three modes apart (SeparateLayout).                           *)
(*                                                                         *)
(* The argument: a write or a zeroing of a block touches no other block's  *)
(* data (DataDisjoint, CopyElsewhere); no two processes work on one slot,  *)
(* and a slot being written or zeroed holds no page (ActorInv); so what    *)
(* has been written stays (ProgressInv) and what is stored is intact       *)
(* (StoredInv).  Their conjunction with TypeOK is inductive.               *)
(***************************************************************************)
EXTENDS SwapDisk, TLAPS

\* Every block of every slot is within the region of its mode.
SeparateLayout ==
  \A s \in Slots, i \in Index :
    /\ Separate(LogicalBlock(s, i))
    /\ \A m \in Modes : InRange(LogicalBlock(s, i), m)

-----------------------------------------------------------------------------
\* Two places of one mode: equal places mean equal logical blocks.
LEMMA StripeInjective ==
  ASSUME NEW lb \in Nat, NEW lc \in Nat, lb % 4 = lc % 4, lb \div 4 = lc \div 4
  PROVE  lb = lc
  OBVIOUS

\* The same for the three data blocks of a RAID_5 row.
LEMMA RowInjective ==
  ASSUME NEW lb \in Nat, NEW lc \in Nat, lb \div 3 = lc \div 3, lb % 3 = lc % 3
  PROVE  lb = lc
  OBVIOUS

\* The data disk of a RAID_5 row is never its parity disk, and the data disk
\* determines the position in the row.
LEMMA RowDisks ==
  ASSUME NEW lb \in Nat, NEW lc \in Nat, Row(lb) = Row(lc)
  PROVE  /\ DataDiskOfRow(lb) # ParityDisk(lc)
         /\ DataDiskOfRow(lb) = DataDiskOfRow(lc) => lb = lc
<1>1. ParityDisk(lb) = ParityDisk(lc) /\ ParityDisk(lb) \in 0..3
  BY DEF ParityDisk, Row, NDISKS
<1>2. lb % 3 \in 0..2 /\ lc % 3 \in 0..2
  OBVIOUS
<1>3. DataDiskOfRow(lb) # ParityDisk(lc)
  BY <1>1, <1>2 DEF DataDiskOfRow, NDISKS
<1>4. DataDiskOfRow(lb) = DataDiskOfRow(lc) => lb % 3 = lc % 3
  BY <1>1, <1>2 DEF DataDiskOfRow, NDISKS
<1> QED
  BY <1>3, <1>4, RowInjective DEF Row, NDISKS

\* Different blocks of different slots have different logical blocks.
LEMMA LogicalBlockInjective ==
  ASSUME NEW s \in Slots, NEW t \in Slots, NEW i \in Index, NEW j \in Index,
         LogicalBlock(s, i) = LogicalBlock(t, j)
  PROVE  s = t /\ i = j
<1> DEFINE B == BLOCKS_PER_PAGE
<1>1. B \in Nat \ {0} /\ s \in Nat /\ t \in Nat /\ i \in 0..(B - 1) /\ j \in 0..(B - 1)
  BY LayoutAssumption DEF Slots, Index
<1>2. s * B + i = t * B + j
  BY DEF LogicalBlock
<1> HIDE DEF B
<1>3. ASSUME NEW x \in Nat, NEW y \in Nat, NEW k \in 0..(B - 1), NEW l \in 0..(B - 1), x < y
      PROVE  x * B + k < y * B + l
  <2>1. PICK d \in Nat : y = x + 1 + d
    <3>1. y - x - 1 \in Nat /\ y = x + 1 + (y - x - 1)
      BY <1>3
    <3> QED
      BY <3>1
  <2>2. y * B = x * B + B + d * B
    BY <1>1, <2>1
  <2>3. d * B \in Nat /\ x * B \in Nat
    BY <1>1
  <2> QED
    BY <1>1, <2>2, <2>3
<1>4. s = t
  BY <1>1, <1>2, <1>3
<1> QED
  BY <1>1, <1>2, <1>4

\* The offsets keep the modes apart on every disk.
LEMMA PhysApart ==
  ASSUME NEW lb \in Nat, NEW lc \in Nat, Separate(lb), Separate(lc),
         NEW m \in Modes, NEW n \in Modes, m # n
  PROVE  PhysBlock(lb, m) # PhysBlock(lc, n)
<1>1. PhysBlock(lb, RAID_0) < OFFSET1 /\ PhysBlock(lc, RAID_0) < OFFSET1
  BY LayoutAssumption DEF PhysBlock, Separate, RAID_0, RAID_1, RAID_5, NDISKS
<1>2. /\ OFFSET1 <= PhysBlock(lb, RAID_1) /\ PhysBlock(lb, RAID_1) < OFFSET5
      /\ OFFSET1 <= PhysBlock(lc, RAID_1) /\ PhysBlock(lc, RAID_1) < OFFSET5
  BY LayoutAssumption DEF PhysBlock, Separate, RAID_0, RAID_1, RAID_5, NDISKS
<1>3. OFFSET5 <= PhysBlock(lb, RAID_5) /\ OFFSET5 <= PhysBlock(lc, RAID_5)
  BY LayoutAssumption DEF PhysBlock, Row, RAID_0, RAID_1, RAID_5, NDISKS
<1> DEFINE b0 == PhysBlock(lb, RAID_0)
           b1 == PhysBlock(lb, RAID_1)
           b5 == PhysBlock(lb, RAID_5)
           c0 == PhysBlock(lc, RAID_0)
           c1 == PhysBlock(lc, RAID_1)
           c5 == PhysBlock(lc, RAID_5)
<1>4. b0 \in Nat /\ b1 \in Nat /\ b5 \in Nat /\ c0 \in Nat /\ c1 \in Nat /\ c5 \in Nat
  BY LayoutAssumption DEF PhysBlock, Row, RAID_0, RAID_1, RAID_5, NDISKS
<1> HIDE DEF b0, b1, b5, c0, c1, c5
<1>5. b0 # c1 /\ b0 # c5 /\ b1 # c0 /\ b1 # c5 /\ b5 # c0 /\ b5 # c1
  <2>1. b0 < OFFSET1 /\ c0 < OFFSET1 /\ OFFSET1 <= b1 /\ b1 < OFFSET5 /\ OFFSET1 <= c1 /\ c1 < OFFSET5
    BY <1>1, <1>2 DEF b0, b1, c0, c1
  <2>2. OFFSET5 <= b5 /\ OFFSET5 <= c5
    BY <1>3 DEF b5, c5
  <2> QED
    BY <2>1, <2>2, <1>4, LayoutAssumption
<1> QED
  BY <1>5 DEF Modes, b0, b1, b5, c0, c1, c5

\* Writing or freeing a block under one mode never touches the data of another
\* block, nor the data of the same block under another mode.
LEMMA DataDisjoint ==
  ASSUME NEW lb \in Nat, NEW lc \in Nat, Separate(lb), Separate(lc),
         NEW m \in Modes, NEW n \in Modes, lb # lc \/ m # n,
         NEW p \in Places(lc, n)
  PROVE  p # DataPlace(lb, m)
<1>1. p[2] = PhysBlock(lc, n)
  BY DEF Places, DataPlace, CopyPlace
<1>2. CASE m # n
  BY <1>1, <1>2, PhysApart DEF DataPlace
<1>3. CASE m = n /\ lb # lc /\ m = RAID_0
  <2>1. p = DataPlace(lc, RAID_0)
    BY <1>3 DEF Places
  <2> QED
    BY <1>3, <2>1, StripeInjective DEF DataPlace, DataDisk, PhysBlock, RAID_0, RAID_1, RAID_5, NDISKS
<1>4. CASE m = n /\ lb # lc /\ m = RAID_1
  <2>1. PhysBlock(lb, RAID_1) = lb + OFFSET1 /\ PhysBlock(lc, RAID_1) = lc + OFFSET1
    BY LayoutAssumption DEF PhysBlock, Separate, RAID_0, RAID_1, RAID_5
  <2> QED
    BY <1>1, <1>4, <2>1, LayoutAssumption DEF DataPlace
<1>5. CASE m = n /\ lb # lc /\ m = RAID_5
  <2>1. PhysBlock(lb, RAID_5) = Row(lb) + OFFSET5 /\ PhysBlock(lc, RAID_5) = Row(lc) + OFFSET5
    BY DEF PhysBlock, RAID_0, RAID_1, RAID_5
  <2>2. CASE Row(lb) # Row(lc)
    <3>1. Row(lb) \in Nat /\ Row(lc) \in Nat
      BY DEF Row, NDISKS
    <3> QED
      BY <1>1, <1>5, <2>1, <2>2, <3>1, LayoutAssumption DEF DataPlace
  <2>3. CASE Row(lb) = Row(lc)
    <3>1. p[1] \in {DataDiskOfRow(lc), ParityDisk(lc)}
      BY <1>5 DEF Places, DataPlace, CopyPlace, DataDisk, CopyDisk, RAID_0, RAID_1, RAID_5
    <3>2. DataPlace(lb, m)[1] = DataDiskOfRow(lb)
      BY <1>5 DEF DataPlace, DataDisk, RAID_0, RAID_1, RAID_5
    <3> QED
      BY <1>5, <2>3, <3>1, <3>2, RowDisks
  <2> QED
    BY <2>2, <2>3
<1> QED
  BY <1>2, <1>3, <1>4, <1>5 DEF Modes

\* The mirror and the parity of a block are not where its data is.
LEMMA CopyElsewhere ==
  ASSUME NEW lb \in Nat, NEW m \in Modes \ {RAID_0}
  PROVE  CopyPlace(lb, m) # DataPlace(lb, m)
<1>1. CASE m = RAID_1
  BY <1>1, LayoutAssumption DEF CopyPlace, DataPlace, CopyDisk, DataDisk, RAID_0, RAID_1, RAID_5
<1>2. CASE m = RAID_5
  BY <1>2, RowDisks DEF CopyPlace, DataPlace, CopyDisk, DataDisk, RAID_0, RAID_1, RAID_5
<1> QED
  BY <1>1, <1>2 DEF Modes

-----------------------------------------------------------------------------
\* What the disks d hold as block i of slot s under mode m.
Data(d, s, i, m) == d[DataPlace(LogicalBlock(s, i), m)]

AtBlock == {"write", "xor", "copy", "read", "zero", "zerocopy"}

\* An actor has its slot to itself, and the slot's bookkeeping agrees with what
\* the actor is doing.
ActorOK(a) ==
  /\ pc[a] \in {"record", "write", "xor", "copy", "setpte"} =>
       swaptable[slot[a]].used /\ stored[slot[a]] = NoPage
  /\ pc[a] \in {"write", "xor", "copy", "setpte", "read", "zero", "zerocopy"} =>
       mode[a] = swap_slot_raid_mode[slot[a]]
  /\ pc[a] \in {"read", "lock"} => stored[slot[a]] # NoPage
  /\ pc[a] \in {"zero", "zerocopy"} => swaplock = a /\ stored[slot[a]] = NoPage
  /\ IF pc[a] \in AtBlock THEN block[a] \in Index ELSE block[a] = 0
  /\ pc[a] \in {"copy", "zerocopy"} => mode[a] # RAID_0
  /\ pc[a] = "xor" => mode[a] = RAID_5 /\ disk[a] < NDISKS
  /\ pc[a] \notin {"xor", "copy"} => disk[a] = 0

Exclusive ==
  \A a, b \in Actors : a # b /\ pc[a] # "idle" /\ pc[b] # "idle" => slot[a] # slot[b]

StoredUsed == \A s \in Slots : stored[s] # NoPage => swaptable[s].used

ActorInv == (\A a \in Actors : ActorOK(a)) /\ Exclusive /\ StoredUsed

\* A block that has been written is on the disk.
ProgressOK(a) ==
  /\ pc[a] \in {"write", "xor", "copy"} =>
       \A i \in Index : i < block[a] => Data(simulated_disks, slot[a], i, mode[a]) = page[a][i]
  /\ pc[a] \in {"xor", "copy"} =>
       Data(simulated_disks, slot[a], block[a], mode[a]) = page[a][block[a]]
  /\ pc[a] = "setpte" =>
       \A i \in Index : Data(simulated_disks, slot[a], i, mode[a]) = page[a][i]

ProgressInv == \A a \in Actors : ProgressOK(a)

\* SlotIntact in terms of Data.
StoredInv ==
  /\ \A s \in Slots : stored[s] # NoPage =>
       \A i \in Index : Data(simulated_disks, s, i, swap_slot_raid_mode[s]) = stored[s][i]
  /\ \A a \in Actors : pc[a] = "read" =>
       \A i \in Index : i < block[a] => page[a][i] = stored[slot[a]][i]

IInv == TypeOK /\ ActorInv /\ ProgressInv /\ StoredInv

-----------------------------------------------------------------------------
\* What the proofs use of the index sets.
LEMMA Sets ==
  /\ Index \subseteq Nat /\ Slots \subseteq Nat /\ 0 \in Index /\ 0 \in Slots
  /\ \A b \in Index : b \in 0..BLOCKS_PER_PAGE
  /\ \A b \in Index : b + 1 < BLOCKS_PER_PAGE => b + 1 \in Index
  /\ \A b \in Index : ~(b + 1 < BLOCKS_PER_PAGE) => \A i \in Index : i < b \/ i = b
  /\ \A b \in Index : \A i \in Index : i < b + 1 => i < b \/ i = b
  /\ 0 \in 0..BLOCKS_PER_PAGE
  /\ RAID_0 \in Modes /\ RAID_1 \in Modes /\ RAID_5 \in Modes
  /\ RAID_0 # RAID_1 /\ RAID_0 # RAID_5 /\ RAID_1 # RAID_5
  /\ NoActor \notin Actors /\ NoPage \notin [Index -> Bit]
  /\ Zeros \in [Index -> Bit] /\ Pages \subseteq [Index -> Bit]
  BY LayoutAssumption, PagesAssumption
  DEF Index, Slots, Modes, RAID_0, RAID_1, RAID_5, Zeros, Bit

\* Logical blocks are natural numbers.
LEMMA LogicalBlockType ==
  ASSUME NEW s \in Slots, NEW i \in Index
  PROVE  LogicalBlock(s, i) \in Nat
  BY Sets, LayoutAssumption DEF LogicalBlock

\* Every block of a slot has its place on the disks.
LEMMA PlaceType ==
  ASSUME SeparateLayout, NEW s \in Slots, NEW i \in Index, NEW m \in Modes
  PROVE  DataPlace(LogicalBlock(s, i), m) \in AllPlaces
<1> DEFINE lb == LogicalBlock(s, i)
<1>1. lb \in Nat
  BY LogicalBlockType
<1>2. InRange(lb, m)
  BY DEF SeparateLayout
<1> HIDE DEF lb
<1>3. PhysBlock(lb, m) \in Nat
  BY <1>1, LayoutAssumption DEF PhysBlock, Row, Modes, RAID_0, RAID_1, RAID_5, NDISKS
<1>4. DataDisk(lb, m) \in 0..3
  <2>1. CASE m = RAID_0
    BY <1>1, <2>1 DEF DataDisk, NDISKS, RAID_0, RAID_1, RAID_5
  <2>2. CASE m = RAID_1
    BY <1>1, <2>2, LayoutAssumption DEF DataDisk, RAID_0, RAID_1, RAID_5
  <2>3. CASE m = RAID_5
    BY <1>1, <2>3 DEF DataDisk, DataDiskOfRow, ParityDisk, Row, NDISKS, RAID_0, RAID_1, RAID_5
  <2> QED
    BY <2>1, <2>2, <2>3 DEF Modes
<1> QED
  BY <1>2, <1>3, <1>4, LayoutAssumption DEF DataPlace, AllPlaces, Disks, NDISKS, InRange, lb

\* A write at a place of the actor's block changes no other data.
LEMMA WriteFrame ==
  ASSUME SeparateLayout, TypeOK, NEW a \in Actors, block[a] \in Index, NEW x,
         NEW place \in Places(Lb(a), mode[a]), Write(place, x),
         NEW s \in Slots, NEW i \in Index, NEW m \in Modes,
         s # slot[a] \/ i # block[a] \/ m # mode[a]
  PROVE  Data(simulated_disks', s, i, m) = Data(simulated_disks, s, i, m)
<1>1. slot[a] \in Slots /\ mode[a] \in Modes
  BY DEF TypeOK
<1>2. LogicalBlock(s, i) \in Nat /\ Lb(a) \in Nat
  BY <1>1, LogicalBlockType DEF Lb
<1>3. LogicalBlock(s, i) # Lb(a) \/ m # mode[a]
  BY <1>1, LogicalBlockInjective DEF Lb
<1>4. Separate(LogicalBlock(s, i)) /\ Separate(Lb(a))
  BY <1>1 DEF SeparateLayout, Lb
<1>5. place # DataPlace(LogicalBlock(s, i), m)
  BY <1>1, <1>2, <1>3, <1>4, DataDisjoint
<1>6. DataPlace(LogicalBlock(s, i), m) \in AllPlaces
  BY PlaceType
<1> QED
  BY <1>5, <1>6 DEF Data, Write, TypeOK

\* A write at the copy of the actor's block changes no data at all.
LEMMA CopyFrame ==
  ASSUME SeparateLayout, TypeOK, NEW a \in Actors, block[a] \in Index, NEW x,
         mode[a] # RAID_0, Write(CopyPlace(Lb(a), mode[a]), x),
         NEW s \in Slots, NEW i \in Index, NEW m \in Modes
  PROVE  Data(simulated_disks', s, i, m) = Data(simulated_disks, s, i, m)
<1>1. CopyPlace(Lb(a), mode[a]) \in Places(Lb(a), mode[a])
  BY DEF Places
<1>2. CASE s # slot[a] \/ i # block[a] \/ m # mode[a]
  BY <1>1, <1>2, WriteFrame
<1>3. CASE s = slot[a] /\ i = block[a] /\ m = mode[a]
  <2>1. Lb(a) \in Nat /\ mode[a] \in Modes \ {RAID_0}
    BY LogicalBlockType DEF Lb, TypeOK
  <2>2. CopyPlace(Lb(a), mode[a]) # DataPlace(LogicalBlock(s, i), m)
    BY <1>3, <2>1, CopyElsewhere DEF Lb
  <2>3. DataPlace(LogicalBlock(s, i), m) \in AllPlaces
    BY PlaceType
  <2> QED
    BY <2>2, <2>3 DEF Data, Write, TypeOK
<1> QED
  BY <1>2, <1>3

\* A write at the data place of the actor's block can be read back there.
LEMMA WriteReads ==
  ASSUME SeparateLayout, TypeOK, NEW a \in Actors, block[a] \in Index, NEW x,
         Write(DataPlace(Lb(a), mode[a]), x)
  PROVE  Data(simulated_disks', slot[a], block[a], mode[a]) = x
<1>1. DataPlace(LogicalBlock(slot[a], block[a]), mode[a]) \in AllPlaces
  BY PlaceType DEF TypeOK
<1> QED
  BY <1>1 DEF Write, TypeOK, Lb, Data

\* The effect of NextBlock: on to the next block, or past the last one.
Moved(a, again, after) ==
  /\ block' \in [Actors -> 0..BLOCKS_PER_PAGE] /\ pc' \in [Actors -> PCs]
  /\ parity' \in [Actors -> Bit] /\ disk' \in [Actors -> 0..NDISKS]
  /\ \A b \in Actors : b # a => block'[b] = block[b] /\ pc'[b] = pc[b] /\ disk'[b] = disk[b]
  /\ disk'[a] = 0
  /\ \/ pc'[a] = again /\ block'[a] = block[a] + 1 /\ block[a] + 1 \in Index
     \/ pc'[a] = after /\ block'[a] = 0 /\ \A i \in Index : i < block[a] \/ i = block[a]

\* NextBlock does what Moved says.
LEMMA NextBlockFacts ==
  ASSUME TypeOK, NEW a \in Actors, block[a] \in Index, NEW again \in PCs, NEW after \in PCs,
         NextBlock(a, again, after)
  PROVE  Moved(a, again, after)
<1> USE DEF Moved
<1>1. parity' \in [Actors -> Bit] /\ disk' \in [Actors -> 0..NDISKS]
  BY DEF NextBlock, TypeOK, Bit, NDISKS
<1>2. CASE block[a] + 1 < BLOCKS_PER_PAGE
  <2>1. block' = [block EXCEPT ![a] = block[a] + 1] /\ pc' = [pc EXCEPT ![a] = again]
    BY <1>2 DEF NextBlock
  <2>2. block[a] + 1 \in Index /\ block[a] + 1 \in 0..BLOCKS_PER_PAGE
    BY <1>2, Sets, ZenonT(60)
  <2> QED
    BY <1>1, <2>1, <2>2 DEF TypeOK, NextBlock
<1>3. CASE ~(block[a] + 1 < BLOCKS_PER_PAGE)
  <2>1. block' = [block EXCEPT ![a] = 0] /\ pc' = [pc EXCEPT ![a] = after]
    BY <1>3 DEF NextBlock
  <2>2. \A i \in Index : i < block[a] \/ i = block[a]
    BY <1>3, Sets, ZenonT(60)
  <2>3. 0 \in 0..BLOCKS_PER_PAGE
    BY Sets
  <2> QED
    BY <1>1, <2>1, <2>2, <2>3 DEF TypeOK, NextBlock
<1> QED
  BY <1>2, <1>3

\* The order of the blocks of a page is strict.
LEMMA IndexOrder == \A i, j \in Index : i < j => i # j
  BY LayoutAssumption DEF Index

\* The labels at which the loops over the blocks of a page go on.
LEMMA LoopLabels ==
  "write" \in PCs /\ "setpte" \in PCs /\ "read" \in PCs /\ "lock" \in PCs /\ "zero" \in PCs /\ "idle" \in PCs
  BY DEF PCs

\* Every step preserves the types.
LEMMA NextTypeOK == SeparateLayout /\ TypeOK /\ ActorInv /\ [Next]_vars => TypeOK'
<1> SUFFICES ASSUME SeparateLayout, TypeOK, ActorInv, [Next]_vars
             PROVE  TypeOK'
  OBVIOUS
<1> USE Sets
    DEF TypeOK, ActorInv, ActorOK, AtBlock, PCs, local
<1>1. ASSUME NEW m \in Modes, SetRaidMode(m)
      PROVE  TypeOK'
  BY <1>1, SMTT(60), ZenonT(60) DEF SetRaidMode
<1>2. ASSUME NEW a \in Actors, NEW s \in Slots, NEW contents \in Pages, Swapout(a, s, contents)
      PROVE  TypeOK'
  BY <1>2 DEF Swapout
<1>3. ASSUME NEW a \in Actors, RecordMode(a)
      PROVE  TypeOK'
  BY <1>3 DEF RecordMode
<1>4. ASSUME NEW a \in Actors, RaidWrite(a)
      PROVE  TypeOK'
  <2>1. block[a] \in Index /\ page[a][block[a]] \in Bit
    BY <1>4 DEF RaidWrite
  <2>2. simulated_disks' \in [AllPlaces -> Bit]
    BY <1>4, <2>1, ZenonT(60) DEF RaidWrite, Write
  <2>3. /\ block' \in [Actors -> 0..BLOCKS_PER_PAGE] /\ pc' \in [Actors -> PCs]
        /\ parity' \in [Actors -> Bit] /\ disk' \in [Actors -> 0..NDISKS]
    <3>1. CASE mode[a] = RAID_0
      BY <1>4, <2>1, <3>1, NextBlockFacts, LoopLabels, ZenonT(60) DEF RaidWrite, Moved
    <3>2. CASE mode[a] = RAID_1
      BY <1>4, <3>2, ZenonT(60) DEF RaidWrite
    <3>3. CASE mode[a] = RAID_5
      BY <1>4, <3>3, ZenonT(60) DEF RaidWrite
    <3> QED
      BY <3>1, <3>2, <3>3 DEF Modes
  <2> QED
    BY <1>4, <2>2, <2>3 DEF RaidWrite
<1>5. ASSUME NEW a \in Actors, XorDisk(a)
      PROVE  TypeOK'
  <2>1. parity' \in [Actors -> Bit]
    BY <1>5, ZenonT(60) DEF XorDisk, Xor, Bit
  <2>2. disk' \in [Actors -> 0..NDISKS]
    <3>1. disk[a] \in 0..NDISKS /\ disk[a] < NDISKS
      BY <1>5 DEF XorDisk
    <3>2. disk[a] + 1 \in 0..NDISKS
      BY <3>1 DEF NDISKS
    <3> QED
      BY <1>5, <3>2 DEF XorDisk
  <2> QED
    BY <1>5, <2>1, <2>2 DEF XorDisk
<1>6. ASSUME NEW a \in Actors, RaidWriteCopy(a)
      PROVE  TypeOK'
  <2>1. block[a] \in Index /\ page[a][block[a]] \in Bit /\ parity[a] \in Bit
    BY <1>6 DEF RaidWriteCopy
  <2>2. simulated_disks' \in [AllPlaces -> Bit]
    BY <1>6, <2>1, ZenonT(60) DEF RaidWriteCopy, Write
  <2> QED
    BY <1>6, <2>1, <2>2, NextBlockFacts, LoopLabels, ZenonT(60) DEF RaidWriteCopy, Moved
<1>7. ASSUME NEW a \in Actors, SetPte(a)
      PROVE  TypeOK'
  BY <1>7 DEF SetPte
<1>8. ASSUME NEW a \in Actors, NEW s \in Slots, Swapin(a, s)
      PROVE  TypeOK'
  BY <1>8 DEF Swapin, Quiet
<1>9. ASSUME NEW a \in Actors, RaidRead(a)
      PROVE  TypeOK'
  <2>1. block[a] \in Index /\ slot[a] \in Slots /\ mode[a] \in Modes
    BY <1>9 DEF RaidRead
  <2>2. simulated_disks[DataPlace(Lb(a), mode[a])] \in Bit
    BY <2>1, PlaceType, ZenonT(60) DEF Lb
  <2>3. page' \in [Actors -> [Index -> Bit]]
    BY <1>9, <2>1, <2>2 DEF RaidRead
  <2> QED
    BY <1>9, <2>1, <2>3, NextBlockFacts, LoopLabels, ZenonT(60) DEF RaidRead, Moved
<1>10. ASSUME NEW a \in Actors, NEW s \in Slots, Unmap(a, s)
       PROVE  TypeOK'
  BY <1>10 DEF Unmap, Quiet
<1>11. ASSUME NEW a \in Actors, SwapFree(a)
       PROVE  TypeOK'
  BY <1>11, ZenonT(60) DEF SwapFree
<1>12. ASSUME NEW a \in Actors, ZeroBlock(a)
       PROVE  TypeOK'
  <2>1. block[a] \in Index
    BY <1>12 DEF ZeroBlock
  <2>2. simulated_disks' \in [AllPlaces -> Bit]
    BY <1>12, ZenonT(60) DEF ZeroBlock, Write, Bit
  <2>3. /\ block' \in [Actors -> 0..BLOCKS_PER_PAGE] /\ pc' \in [Actors -> PCs]
        /\ parity' \in [Actors -> Bit] /\ disk' \in [Actors -> 0..NDISKS]
        /\ swaplock' \in Actors \cup {NoActor}
        /\ swap_slot_raid_mode' \in [Slots -> Modes]
    <3>1. CASE ZeroNext(a)
      <4>1. /\ block' \in [Actors -> 0..BLOCKS_PER_PAGE] /\ pc' \in [Actors -> PCs]
            /\ parity' \in [Actors -> Bit] /\ disk' \in [Actors -> 0..NDISKS]
        BY <2>1, <3>1, NextBlockFacts, LoopLabels, ZenonT(60) DEF ZeroNext, Moved
      <4>2. swaplock' \in Actors \cup {NoActor} /\ swap_slot_raid_mode' \in [Slots -> Modes]
        BY <3>1, SMTT(60), ZenonT(60) DEF ZeroNext
      <4> QED
        BY <4>1, <4>2
    <3>2. CASE ~ZeroNext(a)
      BY <1>12, <3>2, SMTT(60), ZenonT(60) DEF ZeroBlock
    <3> QED
      BY <3>1, <3>2, SMTT(60), ZenonT(60)
  <2> QED
    BY <1>12, <2>2, <2>3, SMTT(60), ZenonT(60) DEF ZeroBlock
<1>13. ASSUME NEW a \in Actors, ZeroCopy(a)
       PROVE  TypeOK'
  <2>1. block[a] \in Index
    BY <1>13 DEF ZeroCopy
  <2>2. simulated_disks' \in [AllPlaces -> Bit]
    BY <1>13, ZenonT(60) DEF ZeroCopy, Write, Bit
  <2>3. /\ block' \in [Actors -> 0..BLOCKS_PER_PAGE] /\ pc' \in [Actors -> PCs]
        /\ parity' \in [Actors -> Bit] /\ disk' \in [Actors -> 0..NDISKS]
        /\ swaplock' \in Actors \cup {NoActor}
        /\ swap_slot_raid_mode' \in [Slots -> Modes]
    <3>1. CASE ZeroNext(a)
      <4>1. /\ block' \in [Actors -> 0..BLOCKS_PER_PAGE] /\ pc' \in [Actors -> PCs]
            /\ parity' \in [Actors -> Bit] /\ disk' \in [Actors -> 0..NDISKS]
        BY <2>1, <3>1, NextBlockFacts, LoopLabels, ZenonT(60) DEF ZeroNext, Moved
      <4>2. swaplock' \in Actors \cup {NoActor} /\ swap_slot_raid_mode' \in [Slots -> Modes]
        BY <3>1 DEF ZeroNext
      <4> QED
        BY <4>1, <4>2
    <3>2. CASE ~ZeroNext(a)
      BY <1>13, <3>2, SMTT(60), ZenonT(60) DEF ZeroCopy
    <3> QED
      BY <3>1, <3>2
  <2> QED
    BY <1>13, <2>2, <2>3, SMTT(60), ZenonT(60) DEF ZeroCopy
<1>14. CASE UNCHANGED vars
  BY <1>14, SMTT(60), ZenonT(60) DEF vars
<1> QED
  BY <1>1, <1>2, <1>3, <1>4, <1>5, <1>6, <1>7, <1>8, <1>9, <1>10, <1>11, <1>12, <1>13, <1>14, ZenonT(60) DEF
      Next, Step

\* Every step keeps the actors and their slots together.
LEMMA NextActorInv == TypeOK /\ ActorInv /\ [Next]_vars => ActorInv'
<1> SUFFICES ASSUME TypeOK, ActorInv, [Next]_vars
             PROVE  ActorInv'
  OBVIOUS
<1> USE Sets
    DEF TypeOK, ActorInv, AtBlock, PCs, local
<1>1. ASSUME NEW m \in Modes, SetRaidMode(m)
      PROVE  ActorInv'
  BY <1>1 DEF SetRaidMode, ActorOK, Exclusive, StoredUsed
<1>2. ASSUME NEW a \in Actors, NEW s \in Slots, NEW contents \in Pages, Swapout(a, s, contents)
      PROVE  ActorInv'
  <2>1. ASSUME NEW b \in Actors, b # a
        PROVE  ActorOK(b)'
    BY <1>2, <2>1, SMTT(60), ZenonT(60) DEF Swapout, ActorOK, Exclusive, StoredUsed
  <2>2. ActorOK(a)'
    BY <1>2, SMTT(60), ZenonT(60) DEF Swapout, ActorOK, StoredUsed
  <2>3. Exclusive' /\ StoredUsed'
    BY <1>2, SMTT(60), ZenonT(60) DEF Swapout, ActorOK, Exclusive, StoredUsed
  <2> QED
    BY <2>1, <2>2, <2>3, SMTT(60), ZenonT(60)
<1>3. ASSUME NEW a \in Actors, RecordMode(a)
      PROVE  ActorInv'
  <2>1. ASSUME NEW b \in Actors, b # a
        PROVE  ActorOK(b)'
    <3>1. /\ pc'[b] = pc[b] /\ slot'[b] = slot[b] /\ mode'[b] = mode[b]
         /\ block'[b] = block[b] /\ disk'[b] = disk[b]
      BY <1>3, <2>1, SMTT(60), ZenonT(60) DEF RecordMode
    <3>2. CASE pc[b] = "idle"
      BY <3>1, <3>2, SMTT(60), ZenonT(60) DEF ActorOK
    <3>3. CASE pc[b] # "idle"
      <4>1. slot[b] # slot[a] /\ slot[b] \in Slots
        BY <1>3, <2>1, <3>3, SMTT(60), ZenonT(60) DEF RecordMode, Exclusive
      <4>2. /\ swaptable'[slot[b]] = swaptable[slot[b]] /\ stored'[slot[b]] = stored[slot[b]]
           /\ swap_slot_raid_mode'[slot[b]] = swap_slot_raid_mode[slot[b]]
        BY <1>3, <4>1, SMTT(60), ZenonT(60) DEF RecordMode
      <4>3. pc[b] \in {"zero", "zerocopy"} => swaplock' = swaplock
        BY <1>3, <2>1, SMTT(60), ZenonT(60) DEF RecordMode, ActorOK
      <4> QED
        BY <3>1, <4>2, <4>3, SMTT(60), ZenonT(60) DEF ActorOK
    <3> QED
      BY <3>2, <3>3
  <2>2. ActorOK(a)'
    BY <1>3, SMTT(60), ZenonT(60) DEF RecordMode, ActorOK, StoredUsed
  <2>3. Exclusive' /\ StoredUsed'
    BY <1>3 DEF RecordMode, ActorOK, Exclusive, StoredUsed
  <2> QED
    BY <2>1, <2>2, <2>3
<1>4. ASSUME NEW a \in Actors, RaidWrite(a)
      PROVE  ActorInv'
  <2>1. block[a] \in Index /\ pc[a] = "write" /\ disk[a] = 0
    BY <1>4, ZenonT(60) DEF RaidWrite, ActorOK
  <2>2. CASE mode[a] = RAID_0
    <3>1. Moved(a, "write", "setpte")
      BY <1>4, <2>1, <2>2, NextBlockFacts, LoopLabels DEF RaidWrite
    <3>2. ASSUME NEW b \in Actors, b # a
          PROVE  ActorOK(b)'
      BY <1>4, <3>1, <3>2 DEF RaidWrite, Moved, ActorOK, Exclusive
    <3>3. ActorOK(a)'
      BY <1>4, <2>1, <2>2, <3>1 DEF RaidWrite, Moved, ActorOK
    <3>4. Exclusive' /\ StoredUsed'
      BY <1>4, <3>1, SMTT(60), ZenonT(60) DEF RaidWrite, Moved, Exclusive, StoredUsed
    <3> QED
      BY <3>2, <3>3, <3>4
  <2>3. CASE mode[a] # RAID_0
    <3>1. /\ pc' \in {[pc EXCEPT ![a] = "copy"], [pc EXCEPT ![a] = "xor"]}
          /\ mode[a] = RAID_1 => pc' = [pc EXCEPT ![a] = "copy"]
          /\ UNCHANGED <<block, parity, disk>>
      BY <1>4, <2>3, ZenonT(60) DEF RaidWrite, Modes
    <3>2. ASSUME NEW b \in Actors, b # a
          PROVE  ActorOK(b)'
      BY <1>4, <3>1, <3>2 DEF RaidWrite, ActorOK, Exclusive
    <3>3. ActorOK(a)'
      BY <1>4, <2>1, <2>3, <3>1 DEF RaidWrite, ActorOK, Modes, NDISKS
    <3>4. Exclusive' /\ StoredUsed'
      BY <1>4, <3>1, ZenonT(60) DEF RaidWrite, Exclusive, StoredUsed
    <3> QED
      BY <3>2, <3>3, <3>4
  <2> QED
    BY <2>2, <2>3
<1>5. ASSUME NEW a \in Actors, XorDisk(a)
      PROVE  ActorInv'
  <2>1. ASSUME NEW b \in Actors, b # a
        PROVE  ActorOK(b)'
    BY <1>5, <2>1 DEF XorDisk, NDISKS, ActorOK, Exclusive, StoredUsed
  <2>2. ActorOK(a)'
    BY <1>5 DEF XorDisk, NDISKS, ActorOK, StoredUsed
  <2>3. Exclusive' /\ StoredUsed'
    BY <1>5, SMTT(60), ZenonT(60) DEF XorDisk, NDISKS, ActorOK, Exclusive, StoredUsed
  <2> QED
    BY <2>1, <2>2, <2>3
<1>6. ASSUME NEW a \in Actors, RaidWriteCopy(a)
      PROVE  ActorInv'
  <2>0. Moved(a, "write", "setpte")
    <3>1. block[a] \in Index
      BY <1>6, SMTT(60), ZenonT(60) DEF RaidWriteCopy, ActorOK
    <3> QED
      BY <1>6, <3>1, NextBlockFacts, LoopLabels, SMTT(60), ZenonT(60) DEF RaidWriteCopy
  <2>1. ASSUME NEW b \in Actors, b # a
        PROVE  ActorOK(b)'
    BY <1>6, <2>1, <2>0, SMTT(60), ZenonT(60) DEF RaidWriteCopy, Moved, ActorOK, Exclusive, StoredUsed
  <2>2. ActorOK(a)'
    BY <1>6, <2>0, SMTT(60), ZenonT(60) DEF RaidWriteCopy, Moved, ActorOK, StoredUsed
  <2>3. Exclusive' /\ StoredUsed'
    BY <1>6, <2>0, SMTT(60), ZenonT(60) DEF RaidWriteCopy, Moved, ActorOK, Exclusive, StoredUsed
  <2> QED
    BY <2>1, <2>2, <2>3
<1>7. ASSUME NEW a \in Actors, SetPte(a)
      PROVE  ActorInv'
  <2>1. ASSUME NEW b \in Actors, b # a
        PROVE  ActorOK(b)'
    BY <1>7, <2>1, ZenonT(60) DEF SetPte, ActorOK, Exclusive, StoredUsed
  <2>2. ActorOK(a)'
    BY <1>7, SMTT(60), ZenonT(60) DEF SetPte, ActorOK, StoredUsed
  <2>3. Exclusive' /\ StoredUsed'
    BY <1>7 DEF SetPte, ActorOK, Exclusive, StoredUsed
  <2> QED
    BY <2>1, <2>2, <2>3
<1>8. ASSUME NEW a \in Actors, NEW s \in Slots, Swapin(a, s)
      PROVE  ActorInv'
  <2>1. ASSUME NEW b \in Actors, b # a
        PROVE  ActorOK(b)'
    BY <1>8, <2>1, SMTT(60), ZenonT(60) DEF Swapin, Quiet, ActorOK, Exclusive, StoredUsed
  <2>2. ActorOK(a)'
    BY <1>8, SMTT(60), ZenonT(60) DEF Swapin, Quiet, ActorOK, StoredUsed
  <2>3. Exclusive' /\ StoredUsed'
    BY <1>8, SMTT(60), ZenonT(60) DEF Swapin, Quiet, ActorOK, Exclusive, StoredUsed
  <2> QED
    BY <2>1, <2>2, <2>3, SMTT(60), ZenonT(60)
<1>9. ASSUME NEW a \in Actors, RaidRead(a)
      PROVE  ActorInv'
  <2>0. Moved(a, "read", "lock")
    <3>1. block[a] \in Index
      BY <1>9, SMTT(60), ZenonT(60) DEF RaidRead, ActorOK
    <3> QED
      BY <1>9, <3>1, NextBlockFacts, LoopLabels, SMTT(60), ZenonT(60) DEF RaidRead
  <2>1. ASSUME NEW b \in Actors, b # a
        PROVE  ActorOK(b)'
    BY <1>9, <2>1, <2>0, SMTT(60), ZenonT(60) DEF RaidRead, Moved, ActorOK, Exclusive, StoredUsed
  <2>2. ActorOK(a)'
    BY <1>9, <2>0, SMTT(60), ZenonT(60) DEF RaidRead, Moved, ActorOK, StoredUsed
  <2>3. Exclusive' /\ StoredUsed'
    BY <1>9, <2>0, SMTT(60), ZenonT(60) DEF RaidRead, Moved, ActorOK, Exclusive, StoredUsed
  <2> QED
    BY <2>1, <2>2, <2>3
<1>10. ASSUME NEW a \in Actors, NEW s \in Slots, Unmap(a, s)
       PROVE  ActorInv'
  <2>1. ASSUME NEW b \in Actors, b # a
        PROVE  ActorOK(b)'
    BY <1>10, <2>1, SMTT(60), ZenonT(60) DEF Unmap, Quiet, ActorOK, Exclusive, StoredUsed
  <2>2. ActorOK(a)'
    BY <1>10, SMTT(60), ZenonT(60) DEF Unmap, Quiet, ActorOK, StoredUsed
  <2>3. Exclusive' /\ StoredUsed'
    BY <1>10, SMTT(60), ZenonT(60) DEF Unmap, Quiet, ActorOK, Exclusive, StoredUsed
  <2> QED
    BY <2>1, <2>2, <2>3
<1>11. ASSUME NEW a \in Actors, SwapFree(a)
       PROVE  ActorInv'
  <2>1. ASSUME NEW b \in Actors, b # a
        PROVE  ActorOK(b)'
    <3>1. /\ pc'[b] = pc[b] /\ slot'[b] = slot[b] /\ mode'[b] = mode[b]
         /\ block'[b] = block[b] /\ disk'[b] = disk[b]
      BY <1>11, <2>1, SMTT(60), ZenonT(60) DEF SwapFree
    <3>2. CASE pc[b] = "idle"
      BY <3>1, <3>2 DEF ActorOK
    <3>3. CASE pc[b] # "idle"
      <4>1. slot[b] # slot[a] /\ slot[b] \in Slots
        BY <1>11, <2>1, <3>3, SMTT(60), ZenonT(60) DEF SwapFree, Exclusive
      <4>2. /\ swaptable'[slot[b]] = swaptable[slot[b]] /\ stored'[slot[b]] = stored[slot[b]]
           /\ swap_slot_raid_mode'[slot[b]] = swap_slot_raid_mode[slot[b]]
        BY <1>11, <4>1, SMTT(60), ZenonT(60) DEF SwapFree
      <4>3. pc[b] \in {"zero", "zerocopy"} => swaplock' = swaplock
        BY <1>11, <2>1, SMTT(60), ZenonT(60) DEF SwapFree, ActorOK
      <4> QED
        BY <3>1, <4>2, <4>3 DEF ActorOK
    <3> QED
      BY <3>2, <3>3
  <2>2. ActorOK(a)'
    BY <1>11, SMTT(60), ZenonT(60) DEF SwapFree, ActorOK, StoredUsed
  <2>3. Exclusive' /\ StoredUsed'
    BY <1>11, SMTT(60), ZenonT(60) DEF SwapFree, ActorOK, Exclusive, StoredUsed
  <2> QED
    BY <2>1, <2>2, <2>3
<1>12. ASSUME NEW a \in Actors, ZeroBlock(a)
       PROVE  ActorInv'
  <2>0. block[a] \in Index /\ swaplock = a
    BY <1>12, SMTT(60), ZenonT(60) DEF ZeroBlock, ActorOK
  <2>1. CASE ZeroNext(a)
    <3>1. Moved(a, "zero", "idle")
      BY <2>0, <2>1, NextBlockFacts, LoopLabels, SMTT(60), ZenonT(60) DEF ZeroNext
    <3>2. /\ pc'[a] = "zero" => UNCHANGED <<swap_slot_raid_mode, swaplock>>
          /\ \A s \in Slots : s # slot[a] => swap_slot_raid_mode'[s] = swap_slot_raid_mode[s]
      <4>1. CASE block[a] + 1 < BLOCKS_PER_PAGE
        BY <2>1, <4>1, ZenonT(60) DEF ZeroNext
      <4>2. CASE ~(block[a] + 1 < BLOCKS_PER_PAGE)
        BY <2>1, <4>2, SMTT(60), ZenonT(60) DEF ZeroNext, NextBlock
      <4> QED
        BY <4>1, <4>2, SMTT(60), ZenonT(60)
    <3>3. ASSUME NEW b \in Actors, b # a
          PROVE  ActorOK(b)'
      <4>1. /\ pc'[b] = pc[b] /\ slot'[b] = slot[b] /\ mode'[b] = mode[b]
           /\ block'[b] = block[b] /\ disk'[b] = disk[b]
        BY <1>12, <3>3, <2>0, <3>1, <3>2, SMTT(60), ZenonT(60) DEF ZeroBlock, Moved
      <4>2. CASE pc[b] = "idle"
        BY <4>1, <4>2 DEF ActorOK
      <4>3. CASE pc[b] # "idle"
        <5>1. slot[b] # slot[a] /\ slot[b] \in Slots
          BY <1>12, <3>3, <4>3 DEF ZeroBlock, Exclusive
        <5>2. /\ swaptable'[slot[b]] = swaptable[slot[b]] /\ stored'[slot[b]] = stored[slot[b]]
             /\ swap_slot_raid_mode'[slot[b]] = swap_slot_raid_mode[slot[b]]
          BY <1>12, <5>1, <2>0, <3>1, <3>2, ZenonT(60) DEF ZeroBlock, Moved
        <5>3. pc[b] \in {"zero", "zerocopy"} => swaplock' = swaplock
          BY <1>12, <3>3, <2>0, <3>1, <3>2, SMTT(60), ZenonT(60) DEF ZeroBlock, Moved, ActorOK
        <5> QED
          BY <4>1, <5>2, <5>3 DEF ActorOK
      <4> QED
        BY <4>2, <4>3
    <3>4. ActorOK(a)'
      BY <1>12, <2>0, <3>1, <3>2 DEF ZeroBlock, Moved, ActorOK
    <3>5. Exclusive' /\ StoredUsed'
      BY <1>12, <3>1, ZenonT(60) DEF ZeroBlock, Moved, Exclusive, StoredUsed
    <3> QED
      BY <3>3, <3>4, <3>5
  <2>2. CASE ~ZeroNext(a)
    BY <1>12, <2>2, SMTT(60), ZenonT(60) DEF ZeroBlock, ActorOK, Exclusive, StoredUsed
  <2> QED
    BY <2>1, <2>2, SMTT(60), ZenonT(60)
<1>13. ASSUME NEW a \in Actors, ZeroCopy(a)
       PROVE  ActorInv'
  <2>0. block[a] \in Index /\ swaplock = a
    BY <1>13, SMTT(60), ZenonT(60) DEF ZeroCopy, ActorOK
  <2>1. CASE ZeroNext(a)
    <3>1. Moved(a, "zero", "idle")
      BY <2>0, <2>1, NextBlockFacts, LoopLabels DEF ZeroNext
    <3>2. /\ pc'[a] = "zero" => UNCHANGED <<swap_slot_raid_mode, swaplock>>
          /\ \A s \in Slots : s # slot[a] => swap_slot_raid_mode'[s] = swap_slot_raid_mode[s]
      <4>1. CASE block[a] + 1 < BLOCKS_PER_PAGE
        BY <2>1, <4>1 DEF ZeroNext
      <4>2. CASE ~(block[a] + 1 < BLOCKS_PER_PAGE)
        BY <2>1, <4>2 DEF ZeroNext, NextBlock
      <4> QED
        BY <4>1, <4>2
    <3>3. ASSUME NEW b \in Actors, b # a
          PROVE  ActorOK(b)'
      <4>1. /\ pc'[b] = pc[b] /\ slot'[b] = slot[b] /\ mode'[b] = mode[b]
           /\ block'[b] = block[b] /\ disk'[b] = disk[b]
        BY <1>13, <3>3, <2>0, <3>1, <3>2, SMTT(60), ZenonT(60) DEF ZeroCopy, Moved
      <4>2. CASE pc[b] = "idle"
        BY <4>1, <4>2 DEF ActorOK
      <4>3. CASE pc[b] # "idle"
        <5>1. slot[b] # slot[a] /\ slot[b] \in Slots
          BY <1>13, <3>3, <4>3 DEF ZeroCopy, Exclusive
        <5>2. /\ swaptable'[slot[b]] = swaptable[slot[b]] /\ stored'[slot[b]] = stored[slot[b]]
             /\ swap_slot_raid_mode'[slot[b]] = swap_slot_raid_mode[slot[b]]
          BY <1>13, <5>1, <2>0, <3>1, <3>2, ZenonT(60) DEF ZeroCopy, Moved
        <5>3. pc[b] \in {"zero", "zerocopy"} => swaplock' = swaplock
          BY <1>13, <3>3, <2>0, <3>1, <3>2, SMTT(60), ZenonT(60) DEF ZeroCopy, Moved, ActorOK
        <5> QED
          BY <4>1, <5>2, <5>3 DEF ActorOK
      <4> QED
        BY <4>2, <4>3
    <3>4. ActorOK(a)'
      BY <1>13, <2>0, <3>1, <3>2 DEF ZeroCopy, Moved, ActorOK
    <3>5. Exclusive' /\ StoredUsed'
      BY <1>13, <3>1, ZenonT(60) DEF ZeroCopy, Moved, Exclusive, StoredUsed
    <3> QED
      BY <3>3, <3>4, <3>5
  <2> QED
    BY <1>13, <2>1, SMTT(60), ZenonT(60) DEF ZeroCopy
<1>14. CASE UNCHANGED vars
  BY <1>14 DEF vars, ActorOK, Exclusive, StoredUsed
<1> QED
  BY <1>1, <1>2, <1>3, <1>4, <1>5, <1>6, <1>7, <1>8, <1>9, <1>10, <1>11, <1>12, <1>13, <1>14 DEF
      Next, Step

\* A step that keeps the data of every slot but the unstored x, and starts no
\* read, keeps the stored pages.
LEMMA StoredKept ==
  ASSUME StoredInv, NEW x \in Slots, stored[x] = NoPage, stored' = stored, page' = page, slot' = slot,
         \A s \in Slots : s # x => swap_slot_raid_mode'[s] = swap_slot_raid_mode[s],
         \A s \in Slots : swap_slot_raid_mode[s] \in Modes,
         \A s \in Slots, i \in Index, m \in Modes :
           s # x => Data(simulated_disks', s, i, m) = Data(simulated_disks, s, i, m),
         \A b \in Actors : pc'[b] = "read" => pc[b] = "read" /\ block'[b] = block[b]
  PROVE  StoredInv'
<1>1. ASSUME NEW s \in Slots, stored'[s] # NoPage, NEW i \in Index
      PROVE  Data(simulated_disks', s, i, swap_slot_raid_mode'[s]) = stored'[s][i]
  <2>1. s # x /\ stored[s] # NoPage
    BY <1>1, ZenonT(60)
  <2>2. swap_slot_raid_mode'[s] = swap_slot_raid_mode[s] /\ swap_slot_raid_mode[s] \in Modes
    BY <2>1, ZenonT(60)
  <2>3. Data(simulated_disks, s, i, swap_slot_raid_mode[s]) = stored[s][i]
    BY <2>1, ZenonT(60) DEF StoredInv
  <2>4. \A m \in Modes : Data(simulated_disks', s, i, m) = Data(simulated_disks, s, i, m)
    BY <2>1, ZenonT(60)
  <2>5. Data(simulated_disks', s, i, swap_slot_raid_mode[s]) = Data(simulated_disks, s, i, swap_slot_raid_mode[s])
    BY <2>2, <2>4, ZenonT(60)
  <2> QED
    BY <2>2, <2>3, <2>5, ZenonT(60)
<1>2. ASSUME NEW b \in Actors, pc'[b] = "read", NEW i \in Index, i < block'[b]
      PROVE  page'[b][i] = stored'[slot'[b]][i]
  <2>1. pc[b] = "read" /\ i < block[b]
    BY <1>2, ZenonT(60)
  <2>2. page[b][i] = stored[slot[b]][i]
    BY <2>1, ZenonT(60) DEF StoredInv
  <2> QED
    BY <2>2, ZenonT(60)
<1> QED
  BY <1>1, <1>2, ZenonT(60) DEF StoredInv

\* Once block block[a] has been written, swap_out_page goes on with the next one
\* or has written the page.
LEMMA BlockWritten ==
  ASSUME NEW a \in Actors, block[a] \in Index, Moved(a, "write", "setpte"),
         slot'[a] = slot[a], mode'[a] = mode[a], page'[a] = page[a],
         \A i \in Index : i < block[a] \/ i = block[a] => Data(simulated_disks', slot[a], i, mode[a]) = page[a][i]
  PROVE  ProgressOK(a)'
<1>1. CASE pc'[a] = "write" /\ block'[a] = block[a] + 1
  <2>1. \A i \in Index : i < block'[a] => i < block[a] \/ i = block[a]
    BY <1>1, Sets, ZenonT(60)
  <2> QED
    BY <1>1, <2>1 DEF ProgressOK
<1>2. CASE pc'[a] = "setpte" /\ \A i \in Index : i < block[a] \/ i = block[a]
  BY <1>2, ZenonT(60) DEF ProgressOK
<1> QED
  BY <1>1, <1>2, ZenonT(60) DEF Moved

\* An actor that a step leaves alone, the data of its slot included, keeps what
\* it has written.
LEMMA OtherProgress ==
  ASSUME NEW b \in Actors, ProgressOK(b),
         pc'[b] = pc[b] /\ slot'[b] = slot[b] /\ mode'[b] = mode[b] /\ block'[b] = block[b] /\ page'[b] = page[b],
         pc[b] \in AtBlock => block[b] \in Index,
         \A i \in Index : Data(simulated_disks', slot[b], i, mode[b]) = Data(simulated_disks, slot[b], i, mode[b])
  PROVE  ProgressOK(b)'
<1>1. CASE pc[b] \in {"write", "xor", "copy"}
  BY <1>1, SMTT(60), ZenonT(60) DEF ProgressOK, AtBlock
<1>2. CASE pc[b] \notin {"write", "xor", "copy"}
  BY <1>2, SMTT(60), ZenonT(60) DEF ProgressOK
<1> QED
  BY <1>1, <1>2, ZenonT(60)

\* Every step keeps what has been written on the disks.
LEMMA NextProgress == SeparateLayout /\ TypeOK /\ ActorInv /\ ProgressInv /\ [Next]_vars => ProgressInv'
<1>0. SUFFICES ASSUME SeparateLayout, TypeOK, ActorInv, ProgressInv, [Next]_vars
             PROVE  ProgressInv'
  OBVIOUS
<1>1. ASSUME NEW m \in Modes, SetRaidMode(m)
      PROVE  ProgressInv'
  BY <1>0, Sets, <1>1, SMTT(60), ZenonT(60) DEF SetRaidMode, ProgressOK, TypeOK, ActorInv, ProgressInv, local
<1>2. ASSUME NEW a \in Actors, NEW s \in Slots, NEW contents \in Pages, Swapout(a, s, contents)
      PROVE  ProgressInv'
  BY <1>0, Sets, <1>2, SMTT(60), ZenonT(60) DEF Swapout, ProgressOK, TypeOK, ActorInv, ProgressInv, local
<1>3. ASSUME NEW a \in Actors, RecordMode(a)
      PROVE  ProgressInv'
  <2>1. block[a] = 0
    BY <1>0, Sets, <1>3, SMTT(60), ZenonT(60) DEF RecordMode, ActorOK, TypeOK, ActorInv, ProgressInv, local, AtBlock
  <2> QED
    BY <1>0, Sets, <1>3, <2>1, SMTT(60), ZenonT(60) DEF RecordMode, ProgressOK, TypeOK, ActorInv, ProgressInv, local
<1>4. ASSUME NEW a \in Actors, RaidWrite(a)
      PROVE  ProgressInv'
  <2>0. pc' = [pc EXCEPT ![a] = pc'[a]] /\ block' = [block EXCEPT ![a] = block'[a]] /\ pc'[a] # "read"
    <3>1. CASE mode[a] = RAID_0
      BY <1>0, Sets, <1>4, <3>1 DEF RaidWrite, NextBlock, TypeOK, ActorInv, ProgressInv, local
    <3>2. CASE mode[a] = RAID_1
      BY <1>0, Sets, <1>4, <3>2 DEF RaidWrite, RAID_0, RAID_1, TypeOK, ActorInv, ProgressInv, local
    <3>3. CASE mode[a] = RAID_5
      BY <1>0, Sets, <1>4, <3>3 DEF RaidWrite, RAID_0, RAID_1, RAID_5, TypeOK, ActorInv, ProgressInv, local
    <3> QED
      BY <1>0, <3>1, <3>2, <3>3 DEF TypeOK, Modes
  <2>1. block[a] \in Index /\ slot[a] \in Slots /\ mode[a] \in Modes /\ pc[a] # "idle"
    BY <1>0, Sets, <1>4 DEF RaidWrite, ActorOK, TypeOK, ActorInv, ProgressInv, local, AtBlock
  <2>2. \A s \in Slots, i \in Index, m \in Modes :
          s # slot[a] \/ i # block[a] \/ m # mode[a] =>
            Data(simulated_disks', s, i, m) = Data(simulated_disks, s, i, m)
    BY <1>0, Sets, <1>4, <2>1, WriteFrame DEF RaidWrite, Places, TypeOK, ActorInv, ProgressInv, local
  <2>3. ASSUME NEW b \in Actors, b # a
        PROVE  ProgressOK(b)'
    <3>1. pc'[b] = pc[b] /\ slot'[b] = slot[b] /\ mode'[b] = mode[b] /\ block'[b] = block[b] /\ page'[b] = page[b]
      BY <1>0, Sets, <1>4, <2>0, <2>3, SMTT(60), ZenonT(60) DEF RaidWrite, TypeOK, ActorInv, ProgressInv, local
    <3>2. CASE pc[b] \notin {"write", "xor", "copy", "setpte"}
      BY <3>1, <3>2, SMTT(60), ZenonT(60) DEF ProgressOK
    <3>3. CASE pc[b] \in {"write", "xor", "copy", "setpte"}
      <4>1. slot[b] # slot[a] /\ slot[b] \in Slots /\ mode[b] \in Modes /\ (pc[b] \in AtBlock => block[b] \in Index)
        BY <1>0, Sets, <2>1, <2>3, <3>3 DEF Exclusive, ActorOK, TypeOK, ActorInv, ProgressInv, local, AtBlock
      <4>2. \A i \in Index : Data(simulated_disks', slot[b], i, mode[b]) = Data(simulated_disks, slot[b], i, mode[b])
        BY <2>2, <4>1, ZenonT(60)
      <4>3. ProgressOK(b)
        BY <1>0 DEF ProgressInv
      <4> QED
        BY <3>1, <4>1, <4>2, <4>3, OtherProgress, SMTT(60), ZenonT(60)
    <3> QED
      BY <3>2, <3>3
  <2>4. ProgressOK(a)'
    <3>1. /\ Data(simulated_disks', slot[a], block[a], mode[a]) = page[a][block[a]]
          /\ \A i \in Index : i < block[a] => Data(simulated_disks', slot[a], i, mode[a]) = page[a][i]
      <4>1. \A i \in Index : i < block[a] => i # block[a]
        BY <2>1, IndexOrder
      <4> QED
        BY <1>0, Sets, <1>4, <2>1, <2>2, <4>1, WriteReads, SMTT(60), ZenonT(60) DEF RaidWrite, ProgressOK, TypeOK, ActorInv, ProgressInv, local
    <3>2. slot'[a] = slot[a] /\ mode'[a] = mode[a] /\ page'[a] = page[a]
      BY <1>0, Sets, <1>4, SMTT(60), ZenonT(60) DEF RaidWrite, TypeOK, ActorInv, ProgressInv, local
    <3>3. CASE mode[a] = RAID_0
      <4>1. Moved(a, "write", "setpte")
        BY <1>0, Sets, <1>4, <2>1, <3>3, NextBlockFacts, LoopLabels, SMTT(60), ZenonT(60) DEF RaidWrite, TypeOK, ActorInv, ProgressInv, local
      <4> QED
        BY <2>1, <3>1, <3>2, <4>1, BlockWritten, ZenonT(60)
    <3>4. CASE mode[a] # RAID_0
      <4>1. pc'[a] \in {"copy", "xor"} /\ block'[a] = block[a]
        BY <1>0, Sets, <1>4, <3>4, ZenonT(60) DEF RaidWrite, Modes, TypeOK, ActorInv, ProgressInv, local
      <4> QED
        BY <2>1, <3>1, <3>2, <4>1, ZenonT(60) DEF ProgressOK
    <3> QED
      BY <3>3, <3>4
  <2> QED
    BY <2>3, <2>4 DEF ProgressInv
<1>5. ASSUME NEW a \in Actors, XorDisk(a)
      PROVE  ProgressInv'
  BY <1>0, Sets, <1>5, SMTT(60), ZenonT(60) DEF XorDisk, ProgressOK, TypeOK, ActorInv, ProgressInv, local
<1>6. ASSUME NEW a \in Actors, RaidWriteCopy(a)
      PROVE  ProgressInv'
  <2>1. block[a] \in Index /\ slot[a] \in Slots /\ mode[a] \in Modes /\ pc[a] # "idle" /\ mode[a] # RAID_0
    BY <1>0, Sets, <1>6, SMTT(60), ZenonT(60) DEF RaidWriteCopy, ActorOK, TypeOK, ActorInv, ProgressInv, local, AtBlock
  <2>2. \A s \in Slots, i \in Index, m \in Modes :
          Data(simulated_disks', s, i, m) = Data(simulated_disks, s, i, m)
    BY <1>0, Sets, <1>6, <2>1, CopyFrame, SMTT(60), ZenonT(60) DEF RaidWriteCopy, TypeOK, ActorInv, ProgressInv, local
  <2>3. ASSUME NEW b \in Actors, b # a
        PROVE  ProgressOK(b)'
    <3>1. pc'[b] = pc[b] /\ slot'[b] = slot[b] /\ mode'[b] = mode[b] /\ block'[b] = block[b] /\ page'[b] = page[b]
      BY <1>0, Sets, <1>6, <2>3, SMTT(60), ZenonT(60) DEF RaidWriteCopy, NextBlock, ZeroNext, TypeOK, ActorInv, ProgressInv, local
    <3>2. CASE pc[b] \notin {"write", "xor", "copy", "setpte"}
      BY <3>1, <3>2 DEF ProgressOK
    <3>3. CASE pc[b] \in {"write", "xor", "copy", "setpte"}
      <4>1. slot[b] # slot[a] /\ slot[b] \in Slots /\ mode[b] \in Modes /\ (pc[b] \in AtBlock => block[b] \in Index)
        BY <1>0, Sets, <2>1, <2>3, <3>3 DEF Exclusive, ActorOK, TypeOK, ActorInv, ProgressInv, local, AtBlock
      <4>2. \A i \in Index : Data(simulated_disks', slot[b], i, mode[b]) = Data(simulated_disks, slot[b], i, mode[b])
        BY <2>2, <4>1, ZenonT(60)
      <4>3. ProgressOK(b)
        BY <1>0 DEF ProgressInv
      <4> QED
        BY <3>1, <4>1, <4>2, <4>3, OtherProgress
    <3> QED
      BY <3>2, <3>3
  <2>4. ProgressOK(a)'
    <3>1. \A i \in Index : i < block[a] \/ i = block[a] => Data(simulated_disks', slot[a], i, mode[a]) = page[a][i]
      <4>1. Data(simulated_disks, slot[a], block[a], mode[a]) = page[a][block[a]]
        BY <1>0, Sets, <1>6, SMTT(60), ZenonT(60) DEF RaidWriteCopy, ProgressOK, TypeOK, ActorInv, ProgressInv, local
      <4>2. \A i \in Index : i < block[a] => Data(simulated_disks, slot[a], i, mode[a]) = page[a][i]
        BY <1>0, Sets, <1>6 DEF RaidWriteCopy, ProgressOK, TypeOK, ActorInv, ProgressInv, local
      <4>3. ASSUME NEW i \in Index, i = block[a]
            PROVE  Data(simulated_disks', slot[a], i, mode[a]) = page[a][i]
        BY <2>1, <2>2, <4>1, <4>3, Zenon
      <4>4. ASSUME NEW i \in Index, i < block[a]
            PROVE  Data(simulated_disks', slot[a], i, mode[a]) = page[a][i]
        BY <2>1, <2>2, <4>2, <4>4, Zenon
      <4> QED
        BY <4>3, <4>4, Zenon
    <3>2. slot'[a] = slot[a] /\ mode'[a] = mode[a] /\ page'[a] = page[a]
      BY <1>0, Sets, <1>6, SMTT(60), ZenonT(60) DEF RaidWriteCopy, TypeOK, ActorInv, ProgressInv, local
    <3>3. Moved(a, "write", "setpte")
      BY <1>0, Sets, <1>6, <2>1, NextBlockFacts, LoopLabels, SMTT(60), ZenonT(60) DEF RaidWriteCopy, TypeOK, ActorInv, ProgressInv, local
    <3> QED
      BY <2>1, <3>1, <3>2, <3>3, BlockWritten, ZenonT(60)
  <2> QED
    BY <2>3, <2>4 DEF ProgressInv
<1>7. ASSUME NEW a \in Actors, SetPte(a)
      PROVE  ProgressInv'
  BY <1>0, Sets, <1>7, SMTT(60), ZenonT(60) DEF SetPte, ProgressOK, TypeOK, ActorInv, ProgressInv, local
<1>8. ASSUME NEW a \in Actors, NEW s \in Slots, Swapin(a, s)
      PROVE  ProgressInv'
  BY <1>0, Sets, <1>8, SMTT(60), ZenonT(60) DEF Swapin, Quiet, ProgressOK, TypeOK, ActorInv, ProgressInv, local
<1>9. ASSUME NEW a \in Actors, RaidRead(a)
      PROVE  ProgressInv'
  BY <1>0, Sets, <1>9, SMTT(60), ZenonT(60) DEF RaidRead, NextBlock, ProgressOK, TypeOK, ActorInv, ProgressInv, local
<1>10. ASSUME NEW a \in Actors, NEW s \in Slots, Unmap(a, s)
       PROVE  ProgressInv'
  BY <1>0, Sets, <1>10, SMTT(60), ZenonT(60) DEF Unmap, Quiet, ProgressOK, TypeOK, ActorInv, ProgressInv, local
<1>11. ASSUME NEW a \in Actors, SwapFree(a)
       PROVE  ProgressInv'
  BY <1>0, Sets, <1>11, SMTT(60), ZenonT(60) DEF SwapFree, ProgressOK, TypeOK, ActorInv, ProgressInv, local
<1>12. ASSUME NEW a \in Actors, ZeroBlock(a)
       PROVE  ProgressInv'
  <2>1. block[a] \in Index /\ slot[a] \in Slots /\ mode[a] \in Modes /\ pc[a] # "idle"
    BY <1>0, Sets, <1>12, SMTT(60), ZenonT(60) DEF ZeroBlock, ActorOK, TypeOK, ActorInv, ProgressInv, local, AtBlock
  <2>2. \A s \in Slots, i \in Index, m \in Modes :
          s # slot[a] \/ i # block[a] \/ m # mode[a] =>
            Data(simulated_disks', s, i, m) = Data(simulated_disks, s, i, m)
    BY <1>0, Sets, <1>12, <2>1, WriteFrame, SMTT(60), ZenonT(60) DEF ZeroBlock, Places, TypeOK, ActorInv, ProgressInv, local
  <2>3. ASSUME NEW b \in Actors, b # a
        PROVE  ProgressOK(b)'
    <3>1. pc'[b] = pc[b] /\ slot'[b] = slot[b] /\ mode'[b] = mode[b] /\ block'[b] = block[b] /\ page'[b] = page[b]
      BY <1>0, Sets, <1>12, <2>3, SMTT(60), ZenonT(60) DEF ZeroBlock, NextBlock, ZeroNext, TypeOK, ActorInv, ProgressInv, local
    <3>2. CASE pc[b] \notin {"write", "xor", "copy", "setpte"}
      BY <3>1, <3>2 DEF ProgressOK
    <3>3. CASE pc[b] \in {"write", "xor", "copy", "setpte"}
      <4>1. slot[b] # slot[a] /\ slot[b] \in Slots /\ mode[b] \in Modes /\ (pc[b] \in AtBlock => block[b] \in Index)
        BY <1>0, Sets, <2>1, <2>3, <3>3 DEF Exclusive, ActorOK, TypeOK, ActorInv, ProgressInv, local, AtBlock
      <4>2. \A i \in Index : Data(simulated_disks', slot[b], i, mode[b]) = Data(simulated_disks, slot[b], i, mode[b])
        BY <2>2, <4>1, ZenonT(60)
      <4>3. ProgressOK(b)
        BY <1>0 DEF ProgressInv
      <4> QED
        BY <3>1, <4>1, <4>2, <4>3, OtherProgress
    <3> QED
      BY <3>2, <3>3
  <2>4. ProgressOK(a)'
    BY <1>0, Sets, <1>12, SMTT(60), ZenonT(60) DEF ZeroBlock, ZeroNext, NextBlock, ProgressOK, TypeOK, ActorInv, ProgressInv, local
  <2> QED
    BY <2>3, <2>4 DEF ProgressInv
<1>13. ASSUME NEW a \in Actors, ZeroCopy(a)
       PROVE  ProgressInv'
  <2>1. block[a] \in Index /\ slot[a] \in Slots /\ mode[a] \in Modes /\ pc[a] # "idle" /\ mode[a] # RAID_0
    BY <1>0, Sets, <1>13, SMTT(60), ZenonT(60) DEF ZeroCopy, ActorOK, TypeOK, ActorInv, ProgressInv, local, AtBlock
  <2>2. \A s \in Slots, i \in Index, m \in Modes :
          Data(simulated_disks', s, i, m) = Data(simulated_disks, s, i, m)
    BY <1>0, Sets, <1>13, <2>1, CopyFrame, SMTT(60), ZenonT(60) DEF ZeroCopy, TypeOK, ActorInv, ProgressInv, local
  <2>3. ASSUME NEW b \in Actors, b # a
        PROVE  ProgressOK(b)'
    <3>1. pc'[b] = pc[b] /\ slot'[b] = slot[b] /\ mode'[b] = mode[b] /\ block'[b] = block[b] /\ page'[b] = page[b]
      BY <1>0, Sets, <1>13, <2>3, SMTT(60), ZenonT(60) DEF ZeroCopy, NextBlock, ZeroNext, TypeOK, ActorInv, ProgressInv, local
    <3>2. CASE pc[b] \notin {"write", "xor", "copy", "setpte"}
      BY <3>1, <3>2 DEF ProgressOK
    <3>3. CASE pc[b] \in {"write", "xor", "copy", "setpte"}
      <4>1. slot[b] # slot[a] /\ slot[b] \in Slots /\ mode[b] \in Modes /\ (pc[b] \in AtBlock => block[b] \in Index)
        BY <1>0, Sets, <2>1, <2>3, <3>3 DEF Exclusive, ActorOK, TypeOK, ActorInv, ProgressInv, local, AtBlock
      <4>2. \A i \in Index : Data(simulated_disks', slot[b], i, mode[b]) = Data(simulated_disks, slot[b], i, mode[b])
        BY <2>2, <4>1, ZenonT(60)
      <4>3. ProgressOK(b)
        BY <1>0 DEF ProgressInv
      <4> QED
        BY <3>1, <4>1, <4>2, <4>3, OtherProgress
    <3> QED
      BY <3>2, <3>3
  <2>4. ProgressOK(a)'
    BY <1>0, Sets, <1>13, SMTT(60), ZenonT(60) DEF ZeroCopy, ZeroNext, NextBlock, ProgressOK, TypeOK, ActorInv, ProgressInv, local
  <2> QED
    BY <2>3, <2>4 DEF ProgressInv
<1>14. CASE UNCHANGED vars
  BY <1>0, Sets, <1>14, SMTT(60), ZenonT(60) DEF vars, ProgressOK, TypeOK, ActorInv, ProgressInv, local
<1> QED
  BY <1>0, <1>1, <1>2, <1>3, <1>4, <1>5, <1>6, <1>7, <1>8, <1>9, <1>10, <1>11, <1>12, <1>13, <1>14 DEF
      Next, Step

\* Every step keeps the stored pages intact.
LEMMA NextStored == SeparateLayout /\ TypeOK /\ ActorInv /\ ProgressInv /\ StoredInv /\ [Next]_vars => StoredInv'
<1>0. SUFFICES ASSUME SeparateLayout, TypeOK, ActorInv, ProgressInv, StoredInv, [Next]_vars
             PROVE  StoredInv'
  OBVIOUS
<1>1. ASSUME NEW m \in Modes, SetRaidMode(m)
      PROVE  StoredInv'
  BY <1>0, Sets, <1>1, SMTT(60), ZenonT(60) DEF SetRaidMode, TypeOK, ActorInv, StoredInv, local
<1>2. ASSUME NEW a \in Actors, NEW s \in Slots, NEW contents \in Pages, Swapout(a, s, contents)
      PROVE  StoredInv'
  BY <1>0, Sets, <1>2, SMTT(60), ZenonT(60) DEF Swapout, TypeOK, ActorInv, StoredInv, local
<1>3. ASSUME NEW a \in Actors, RecordMode(a)
      PROVE  StoredInv'
  <2>1. stored[slot[a]] = NoPage
    BY <1>0, Sets, <1>3 DEF RecordMode, ActorOK, TypeOK, ActorInv, StoredInv, local, AtBlock
  <2> QED
    BY <1>0, Sets, <1>3, <2>1, SMTT(60), ZenonT(60) DEF RecordMode, TypeOK, ActorInv, StoredInv, local
<1>4. ASSUME NEW a \in Actors, RaidWrite(a)
      PROVE  StoredInv'
  <2>0. pc' = [pc EXCEPT ![a] = pc'[a]] /\ block' = [block EXCEPT ![a] = block'[a]] /\ pc'[a] # "read"
    <3>1. CASE mode[a] = RAID_0
      BY <1>0, Sets, <1>4, <3>1 DEF RaidWrite, NextBlock, TypeOK, ActorInv, StoredInv, local
    <3>2. CASE mode[a] = RAID_1
      BY <1>0, Sets, <1>4, <3>2 DEF RaidWrite, RAID_0, RAID_1, TypeOK, ActorInv, StoredInv, local
    <3>3. CASE mode[a] = RAID_5
      BY <1>0, Sets, <1>4, <3>3 DEF RaidWrite, RAID_0, RAID_1, RAID_5, TypeOK, ActorInv, StoredInv, local
    <3> QED
      BY <1>0, <3>1, <3>2, <3>3 DEF TypeOK, Modes
  <2>1. block[a] \in Index /\ slot[a] \in Slots /\ mode[a] \in Modes /\ pc[a] # "idle"
    BY <1>0, Sets, <1>4, SMTT(60), ZenonT(60) DEF RaidWrite, ActorOK, TypeOK, ActorInv, StoredInv, local, AtBlock
  <2>2. \A s \in Slots, i \in Index, m \in Modes :
          s # slot[a] \/ i # block[a] \/ m # mode[a] =>
            Data(simulated_disks', s, i, m) = Data(simulated_disks, s, i, m)
    BY <1>0, Sets, <1>4, <2>1, WriteFrame DEF RaidWrite, Places, TypeOK, ActorInv, StoredInv, local
  <2>3. \A s \in Slots : s # slot[a] => swap_slot_raid_mode'[s] = swap_slot_raid_mode[s]
    BY <1>0, Sets, <1>4 DEF RaidWrite, ZeroNext, TypeOK, ActorInv, StoredInv, local
  <2>4. stored[slot[a]] = NoPage /\ stored' = stored /\ page' = page /\ slot' = slot
    BY <1>0, Sets, <1>4, SMTT(60), ZenonT(60) DEF RaidWrite, ActorOK, TypeOK, ActorInv, StoredInv, local, AtBlock
  <2>5. \A b \in Actors : pc'[b] = "read" => pc[b] = "read" /\ block'[b] = block[b]
    BY <1>0, <2>0 DEF TypeOK
  <2>6. StoredInv /\ \A s \in Slots : swap_slot_raid_mode[s] \in Modes
    BY <1>0, SMTT(60), ZenonT(60) DEF TypeOK
  <2> QED
    BY <2>1, <2>2, <2>3, <2>4, <2>5, <2>6, StoredKept, ZenonT(60)
<1>5. ASSUME NEW a \in Actors, XorDisk(a)
      PROVE  StoredInv'
  BY <1>0, Sets, <1>5 DEF XorDisk, TypeOK, ActorInv, StoredInv, local
<1>6. ASSUME NEW a \in Actors, RaidWriteCopy(a)
      PROVE  StoredInv'
  <2>1. block[a] \in Index /\ slot[a] \in Slots /\ mode[a] \in Modes /\ pc[a] # "idle" /\ mode[a] # RAID_0
    BY <1>0, Sets, <1>6, SMTT(60), ZenonT(60) DEF RaidWriteCopy, ActorOK, TypeOK, ActorInv, StoredInv, local, AtBlock
  <2>2. \A s \in Slots, i \in Index, m \in Modes :
          Data(simulated_disks', s, i, m) = Data(simulated_disks, s, i, m)
    BY <1>0, Sets, <1>6, <2>1, CopyFrame, SMTT(60), ZenonT(60) DEF RaidWriteCopy, TypeOK, ActorInv, StoredInv, local
  <2>3. \A s \in Slots : s # slot[a] => swap_slot_raid_mode'[s] = swap_slot_raid_mode[s]
    BY <1>0, Sets, <1>6, SMTT(60), ZenonT(60) DEF RaidWriteCopy, ZeroNext, TypeOK, ActorInv, StoredInv, local
  <2>4. stored[slot[a]] = NoPage /\ stored' = stored /\ page' = page /\ slot' = slot
    BY <1>0, Sets, <1>6, SMTT(60), ZenonT(60) DEF RaidWriteCopy, ActorOK, TypeOK, ActorInv, StoredInv, local, AtBlock
  <2>5. \A b \in Actors : pc'[b] = "read" => pc[b] = "read" /\ block'[b] = block[b]
    BY <1>0, Sets, <1>6, SMTT(60), ZenonT(60) DEF RaidWriteCopy, ZeroNext, NextBlock, TypeOK, ActorInv, StoredInv, local
  <2>6. StoredInv /\ \A s \in Slots : swap_slot_raid_mode[s] \in Modes
    BY <1>0 DEF TypeOK
  <2> QED
    BY <2>1, <2>2, <2>3, <2>4, <2>5, <2>6, StoredKept, ZenonT(60)
<1>7. ASSUME NEW a \in Actors, SetPte(a)
      PROVE  StoredInv'
  <2>1. mode[a] = swap_slot_raid_mode[slot[a]] /\ slot[a] \in Slots
    BY <1>0, Sets, <1>7, SMTT(60), ZenonT(60) DEF SetPte, ActorOK, TypeOK, ActorInv, StoredInv, local, AtBlock
  <2>2. \A i \in Index : Data(simulated_disks, slot[a], i, mode[a]) = page[a][i]
    BY <1>0, Sets, <1>7, SMTT(60), ZenonT(60) DEF SetPte, ProgressInv, ProgressOK, TypeOK, ActorInv, StoredInv, local
  <2>3. \A b \in Actors : pc'[b] = "read" => b # a /\ pc[b] = "read" /\ slot[b] # slot[a]
    BY <1>0, Sets, <1>7, SMTT(60), ZenonT(60) DEF SetPte, Exclusive, TypeOK, ActorInv, StoredInv, local
  <2> QED
    BY <1>0, Sets, <1>7, <2>1, <2>2, <2>3, SMTT(60), ZenonT(60) DEF SetPte, TypeOK, ActorInv, StoredInv, local
<1>8. ASSUME NEW a \in Actors, NEW s \in Slots, Swapin(a, s)
      PROVE  StoredInv'
  <2>1. block[a] = 0
    BY <1>0, Sets, <1>8, SMTT(60), ZenonT(60) DEF Swapin, ActorOK, TypeOK, ActorInv, StoredInv, local, AtBlock
  <2> QED
    BY <1>0, Sets, <1>8, <2>1, SMTT(60), ZenonT(60) DEF Swapin, TypeOK, ActorInv, StoredInv, local
<1>9. ASSUME NEW a \in Actors, RaidRead(a)
      PROVE  StoredInv'
  <2>1. block[a] \in Index /\ slot[a] \in Slots /\ mode[a] = swap_slot_raid_mode[slot[a]] /\ stored[slot[a]] # NoPage
    BY <1>0, Sets, <1>9, SMTT(60), ZenonT(60) DEF RaidRead, ActorOK, TypeOK, ActorInv, StoredInv, local, AtBlock
  <2>2. simulated_disks[DataPlace(Lb(a), mode[a])] = stored[slot[a]][block[a]]
    <3>0. Data(simulated_disks, slot[a], block[a], swap_slot_raid_mode[slot[a]]) = stored[slot[a]][block[a]]
      BY <1>0, <2>1, ZenonT(60) DEF StoredInv
    <3>1. Data(simulated_disks, slot[a], block[a], mode[a]) = stored[slot[a]][block[a]]
      BY <2>1, <3>0, Zenon
    <3> QED
      BY <3>1 DEF Data, Lb
  <2>3. Moved(a, "read", "lock")
    BY <1>0, Sets, <1>9, <2>1, NextBlockFacts, LoopLabels, SMTT(60), ZenonT(60) DEF RaidRead, TypeOK, ActorInv, StoredInv, local
  <2>4. \A i \in Index : i < block[a] \/ i = block[a] => page'[a][i] = stored[slot[a]][i]
    BY <1>0, Sets, <1>9, <2>1, <2>2, SMTT(60), ZenonT(60) DEF RaidRead, TypeOK, ActorInv, StoredInv, local
  <2>5. \A b \in Actors : b # a => page'[b] = page[b]
    BY <1>0, Sets, <1>9, SMTT(60), ZenonT(60) DEF RaidRead, TypeOK, ActorInv, StoredInv, local
  <2>6. simulated_disks' = simulated_disks /\ stored' = stored /\ slot' = slot /\ swap_slot_raid_mode' = swap_slot_raid_mode
    BY <1>0, Sets, <1>9, SMTT(60), ZenonT(60) DEF RaidRead, TypeOK, ActorInv, StoredInv, local
  <2>7. ASSUME NEW b \in Actors, pc'[b] = "read", NEW i \in Index, i < block'[b]
        PROVE  page'[b][i] = stored'[slot'[b]][i]
    <3>1. CASE b # a
      <4>1. pc[b] = "read" /\ block'[b] = block[b]
        BY <2>3, <2>7, <3>1 DEF Moved
      <4>2. page[b][i] = stored[slot[b]][i]
        BY <1>0, <2>7, <4>1, ZenonT(60) DEF StoredInv
      <4> QED
        BY <2>5, <2>6, <3>1, <4>2, SMTT(60), ZenonT(60)
    <3>2. CASE b = a
      <4>1. i < block[a] \/ i = block[a]
        BY Sets, <2>1, <2>3, <2>7, <3>2, ZenonT(60) DEF Moved
      <4> QED
        BY <2>4, <2>6, <3>2, <4>1
    <3> QED
      BY <3>1, <3>2, SMTT(60), ZenonT(60)
  <2> QED
    BY <1>0, <2>6, <2>7, ZenonT(60) DEF StoredInv
<1>10. ASSUME NEW a \in Actors, NEW s \in Slots, Unmap(a, s)
       PROVE  StoredInv'
  BY <1>0, Sets, <1>10, SMTT(60), ZenonT(60) DEF Unmap, Quiet, TypeOK, ActorInv, StoredInv, local
<1>11. ASSUME NEW a \in Actors, SwapFree(a)
       PROVE  StoredInv'
  <2>1. \A b \in Actors : pc'[b] = "read" => b # a /\ pc[b] = "read" /\ slot[b] # slot[a]
    BY <1>0, Sets, <1>11, SMTT(60), ZenonT(60) DEF SwapFree, Exclusive, TypeOK, ActorInv, StoredInv, local
  <2> QED
    BY <1>0, Sets, <1>11, <2>1, SMTT(60), ZenonT(60) DEF SwapFree, TypeOK, ActorInv, StoredInv, local
<1>12. ASSUME NEW a \in Actors, ZeroBlock(a)
       PROVE  StoredInv'
  <2>1. block[a] \in Index /\ slot[a] \in Slots /\ mode[a] \in Modes /\ pc[a] # "idle"
    BY <1>0, Sets, <1>12, SMTT(60), ZenonT(60) DEF ZeroBlock, ActorOK, TypeOK, ActorInv, StoredInv, local, AtBlock
  <2>2. \A s \in Slots, i \in Index, m \in Modes :
          s # slot[a] \/ i # block[a] \/ m # mode[a] =>
            Data(simulated_disks', s, i, m) = Data(simulated_disks, s, i, m)
    BY <1>0, Sets, <1>12, <2>1, WriteFrame, ZenonT(60) DEF ZeroBlock, Places, TypeOK, ActorInv, StoredInv, local
  <2>3. \A s \in Slots : s # slot[a] => swap_slot_raid_mode'[s] = swap_slot_raid_mode[s]
    BY <1>0, Sets, <1>12, SMTT(60), ZenonT(60) DEF ZeroBlock, ZeroNext, TypeOK, ActorInv, StoredInv, local
  <2>4. stored[slot[a]] = NoPage /\ stored' = stored /\ page' = page /\ slot' = slot
    BY <1>0, Sets, <1>12, SMTT(60), ZenonT(60) DEF ZeroBlock, ActorOK, TypeOK, ActorInv, StoredInv, local, AtBlock
  <2>5. \A b \in Actors : pc'[b] = "read" => pc[b] = "read" /\ block'[b] = block[b]
    BY <1>0, Sets, <1>12, SMTT(60), ZenonT(60) DEF ZeroBlock, ZeroNext, NextBlock, TypeOK, ActorInv, StoredInv, local
  <2>6. StoredInv /\ \A s \in Slots : swap_slot_raid_mode[s] \in Modes
    BY <1>0 DEF TypeOK
  <2> QED
    BY <2>1, <2>2, <2>3, <2>4, <2>5, <2>6, StoredKept, ZenonT(60)
<1>13. ASSUME NEW a \in Actors, ZeroCopy(a)
       PROVE  StoredInv'
  <2>1. block[a] \in Index /\ slot[a] \in Slots /\ mode[a] \in Modes /\ pc[a] # "idle" /\ mode[a] # RAID_0
    BY <1>0, Sets, <1>13, SMTT(60), ZenonT(60) DEF ZeroCopy, ActorOK, TypeOK, ActorInv, StoredInv, local, AtBlock
  <2>2. \A s \in Slots, i \in Index, m \in Modes :
          Data(simulated_disks', s, i, m) = Data(simulated_disks, s, i, m)
    BY <1>0, Sets, <1>13, <2>1, CopyFrame, SMTT(60), ZenonT(60) DEF ZeroCopy, TypeOK, ActorInv, StoredInv, local
  <2>3. \A s \in Slots : s # slot[a] => swap_slot_raid_mode'[s] = swap_slot_raid_mode[s]
    BY <1>0, Sets, <1>13, SMTT(60), ZenonT(60) DEF ZeroCopy, ZeroNext, TypeOK, ActorInv, StoredInv, local
  <2>4. stored[slot[a]] = NoPage /\ stored' = stored /\ page' = page /\ slot' = slot
    BY <1>0, Sets, <1>13, SMTT(60), ZenonT(60) DEF ZeroCopy, ActorOK, TypeOK, ActorInv, StoredInv, local, AtBlock
  <2>5. \A b \in Actors : pc'[b] = "read" => pc[b] = "read" /\ block'[b] = block[b]
    BY <1>0, Sets, <1>13, SMTT(60), ZenonT(60) DEF ZeroCopy, ZeroNext, NextBlock, TypeOK, ActorInv, StoredInv, local
  <2>6. StoredInv /\ \A s \in Slots : swap_slot_raid_mode[s] \in Modes
    BY <1>0 DEF TypeOK
  <2> QED
    BY <2>1, <2>2, <2>3, <2>4, <2>5, <2>6, StoredKept, ZenonT(60)
<1>14. CASE UNCHANGED vars
  BY <1>0, Sets, <1>14 DEF vars, TypeOK, ActorInv, StoredInv, local
<1> QED
  BY <1>0, <1>1, <1>2, <1>3, <1>4, <1>5, <1>6, <1>7, <1>8, <1>9, <1>10, <1>11, <1>12, <1>13, <1>14, SMTT(60), ZenonT(60) DEF
      Next, Step

\* SlotIntact follows from the inductive invariant.
LEMMA IInvSlotIntact ==
  ASSUME IInv
  PROVE  SlotIntact
<1>1. ASSUME NEW s \in Slots, stored[s] # NoPage
      PROVE  Contents(s) = stored[s]
  <2>1. stored[s] \in [Index -> Bit]
    BY <1>1, SMTT(60), ZenonT(60) DEF IInv, TypeOK
  <2>2. \A i \in Index : simulated_disks[DataPlace(LogicalBlock(s, i), swap_slot_raid_mode[s])] = stored[s][i]
    BY <1>1, ZenonT(60) DEF IInv, StoredInv, Data
  <2> QED
    BY <2>1, <2>2, ZenonT(60) DEF Contents
<1> QED
  BY <1>1, ZenonT(60) DEF SlotIntact, IInv, StoredInv

\* The layout keeps the blocks apart, so every stored page can be read back:
\* the inductive invariant holds initially and every step keeps it.
THEOREM Invariance ==
  ASSUME SeparateLayout
  PROVE  Spec => []IInv
<1>1. Init => IInv
  <2> SUFFICES ASSUME Init
               PROVE  IInv
    OBVIOUS
  <2>1. TypeOK
    <3>1. 0 \in Bit /\ 0 \in 0..NDISKS /\ "idle" \in PCs
      BY SMTT(60), ZenonT(60) DEF Bit, NDISKS, PCs
    <3> QED
      BY <3>1, Sets DEF Init, TypeOK
  <2>2. ActorInv
    BY Sets DEF Init, ActorInv, ActorOK, Exclusive, StoredUsed, AtBlock
  <2>3. ProgressInv /\ StoredInv
    BY ZenonT(60) DEF Init, ProgressInv, ProgressOK, StoredInv
  <2> QED
    BY <2>1, <2>2, <2>3 DEF IInv
<1>2. IInv /\ [Next]_vars => IInv'
  BY NextTypeOK, NextActorInv, NextProgress, NextStored DEF IInv
<1> QED
  BY <1>1, <1>2, PTL DEF Spec

\* Every variable keeps its type, for any number of slots, blocks and actors.
THEOREM TypeCorrect ==
  ASSUME SeparateLayout
  PROVE  Spec => []TypeOK
<1>1. IInv => TypeOK
  BY DEF IInv
<1> QED
  BY <1>1, Invariance, PTL

\* A page written by swapout is what swapin reads: setraidmode, the writes and
\* the zeroing of other slots, interleaved block by block, leave it alone.
THEOREM StoredPagesIntact ==
  ASSUME SeparateLayout
  PROVE  Spec => []SlotIntact
<1>1. IInv => SlotIntact
  BY IInvSlotIntact
<1> QED
  BY <1>1, Invariance, PTL
=============================================================================
