-------------------------- MODULE SwapCopiesProofs --------------------------
(***************************************************************************)
(* What else the disks hold: zeros where no page is stored and no transfer *)
(* is under way, and the same page on both mirrors of RAID_1, under the    *)
(* assumptions of SwapDiskProofs.                                          *)
(*                                                                         *)
(* The argument: a step writes at most one place, a place of its actor's   *)
(* own block (StepWrites), so it changes no data and no mirror of another  *)
(* block (DataKept, MirrorKept).  What swap_disk_free_slot has zeroed and  *)
(* raid_write has mirrored so far therefore stays (WorkInv); a region that *)
(* nobody uses is zero (FreshInv) because its last user zeroed all of it   *)
(* in the mode it was written in; and a page is stored only once it is on  *)
(* its mirror (MirrorInv).  With IInv these are inductive.                 *)
(***************************************************************************)
EXTENDS SwapDiskProofs

\* The mirror of block i of slot s under RAID_1.
Mirror(d, s, i) == d[CopyPlace(LogicalBlock(s, i), RAID_1)]

\* At these labels an actor writes or zeroes its slot, in its mode.
Filling == {"write", "xor", "copy", "setpte", "zero", "zerocopy"}

\* Somebody has data of mode m in slot s: its owner, or an actor at work on it.
InUse(s, m) ==
  \/ stored[s] # NoPage /\ swap_slot_raid_mode[s] = m
  \/ \E a \in Actors : slot[a] = s /\ pc[a] \in Filling /\ mode[a] = m

\* The region of a slot in a mode that nobody uses is zero.
FreshInv ==
  \A s \in Slots, m \in Modes : InUse(s, m) \/ \A i \in Index : Data(simulated_disks, s, i, m) = 0

\* A block that swap_disk_free_slot has passed is zero.
ZeroedOK(a) ==
  /\ pc[a] \in {"zero", "zerocopy"} =>
       \A i \in Index : i < block[a] => Data(simulated_disks, slot[a], i, mode[a]) = 0
  /\ pc[a] = "zerocopy" => Data(simulated_disks, slot[a], block[a], mode[a]) = 0

\* A block that raid_write has mirrored is on the mirror.
MirrorOK(a) ==
  mode[a] = RAID_1 =>
    /\ pc[a] \in {"write", "copy"} =>
         \A i \in Index : i < block[a] => Mirror(simulated_disks, slot[a], i) = page[a][i]
    /\ pc[a] = "setpte" => \A i \in Index : Mirror(simulated_disks, slot[a], i) = page[a][i]

WorkInv == \A a \in Actors : ZeroedOK(a) /\ MirrorOK(a)

\* The mirror of a stored page is the page.
MirrorInv ==
  \A s \in Slots : stored[s] # NoPage /\ swap_slot_raid_mode[s] = RAID_1 =>
    \A i \in Index : Mirror(simulated_disks, s, i) = stored[s][i]

CopyInv == IInv /\ FreshInv /\ WorkInv /\ MirrorInv

\* A write in one block of a slot is not on the mirror of another.
LEMMA MirrorDisjoint ==
  ASSUME NEW lb \in Nat, NEW lc \in Nat, Separate(lb), Separate(lc),
         NEW n \in Modes, lb # lc \/ n # RAID_1,
         NEW p \in Places(lc, n)
  PROVE  p # CopyPlace(lb, RAID_1)
<1>1. p[2] = PhysBlock(lc, n) /\ CopyPlace(lb, RAID_1)[2] = PhysBlock(lb, RAID_1)
  BY DEF Places, DataPlace, CopyPlace
<1>2. CASE n # RAID_1
  BY <1>1, <1>2, PhysApart DEF Modes
<1>3. CASE n = RAID_1 /\ lb # lc
  <2>1. PhysBlock(lb, RAID_1) = lb + OFFSET1 /\ PhysBlock(lc, RAID_1) = lc + OFFSET1
    BY LayoutAssumption DEF PhysBlock, Separate, RAID_0, RAID_1, RAID_5
  <2> QED
    BY <1>1, <1>3, <2>1, LayoutAssumption
<1> QED
  BY <1>2, <1>3

\* The mirror of every block has its place on the disks.
LEMMA MirrorPlaceType ==
  ASSUME SeparateLayout, NEW s \in Slots, NEW i \in Index
  PROVE  CopyPlace(LogicalBlock(s, i), RAID_1) \in AllPlaces
<1> DEFINE lb == LogicalBlock(s, i)
<1>1. lb \in Nat
  BY LogicalBlockType
<1>2. InRange(lb, RAID_1)
  BY Sets DEF SeparateLayout
<1> HIDE DEF lb
<1>3. PhysBlock(lb, RAID_1) \in Nat
  BY <1>1, LayoutAssumption DEF PhysBlock, RAID_0, RAID_1, RAID_5
<1>4. CopyDisk(lb, RAID_1) \in 0..3
  BY <1>1, LayoutAssumption DEF CopyDisk, DataDisk, RAID_0, RAID_1, RAID_5
<1> QED
  BY <1>2, <1>3, <1>4, LayoutAssumption DEF CopyPlace, AllPlaces, Disks, NDISKS, InRange, lb

\* A step writes at most one place, and that is a place of the actor's block.
LEMMA StepWrites ==
  ASSUME TypeOK, ActorInv, NEW a \in Actors, Step(a)
  PROVE  \/ simulated_disks' = simulated_disks
         \/ /\ block[a] \in Index
            /\ \E place \in Places(Lb(a), mode[a]) : \E x \in Bit : Write(place, x)
<1> DEFINE Goal == \/ simulated_disks' = simulated_disks
                   \/ /\ block[a] \in Index
                      /\ \E place \in Places(Lb(a), mode[a]) : \E x \in Bit : Write(place, x)
<1>0. /\ pc[a] \in AtBlock => block[a] \in Index
      /\ pc[a] \in {"copy", "zerocopy"} => mode[a] # RAID_0
      /\ page[a] \in [Index -> Bit] /\ parity[a] \in Bit /\ 0 \in Bit
  BY DEF ActorInv, ActorOK, TypeOK, Bit
<1>1. /\ DataPlace(Lb(a), mode[a]) \in Places(Lb(a), mode[a])
      /\ mode[a] # RAID_0 => CopyPlace(Lb(a), mode[a]) \in Places(Lb(a), mode[a])
  BY DEF Places
<1>2. ASSUME RaidWrite(a) PROVE Goal
  <2>1. block[a] \in Index /\ Write(DataPlace(Lb(a), mode[a]), page[a][block[a]])
    BY <1>0, <1>2 DEF RaidWrite, AtBlock
  <2>2. page[a][block[a]] \in Bit
    BY <1>0, <2>1
  <2> QED
    BY <1>1, <2>1, <2>2, Zenon
<1>3. ASSUME RaidWriteCopy(a) PROVE Goal
  <2> DEFINE x == IF mode[a] = RAID_1 THEN page[a][block[a]] ELSE parity[a]
  <2>1. block[a] \in Index /\ mode[a] # RAID_0 /\ Write(CopyPlace(Lb(a), mode[a]), x)
    BY <1>0, <1>3 DEF RaidWriteCopy, AtBlock
  <2>2. x \in Bit
    BY <1>0, <2>1
  <2> HIDE DEF x
  <2> QED
    BY <1>1, <2>1, <2>2, Zenon
<1>4. ASSUME ZeroBlock(a) PROVE Goal
  <2>1. block[a] \in Index /\ Write(DataPlace(Lb(a), mode[a]), 0)
    BY <1>0, <1>4 DEF ZeroBlock, AtBlock
  <2> QED
    BY <1>0, <1>1, <2>1, Zenon
<1>5. ASSUME ZeroCopy(a) PROVE Goal
  <2>1. block[a] \in Index /\ mode[a] # RAID_0 /\ Write(CopyPlace(Lb(a), mode[a]), 0)
    BY <1>0, <1>5 DEF ZeroCopy, AtBlock
  <2> QED
    BY <1>0, <1>1, <2>1, Zenon
<1>6. ASSUME NEW s \in Slots, Swapin(a, s) \/ Unmap(a, s) \/ \E contents \in Pages : Swapout(a, s, contents)
      PROVE  Goal
  BY <1>6 DEF Swapin, Unmap, Swapout
<1>7. ASSUME RecordMode(a) \/ XorDisk(a) \/ SetPte(a) \/ RaidRead(a) \/ SwapFree(a) PROVE Goal
  BY <1>7 DEF RecordMode, XorDisk, SetPte, RaidRead, SwapFree
<1> QED
  BY <1>2, <1>3, <1>4, <1>5, <1>6, <1>7, Zenon DEF Step

\* So it changes no data but that of the actor's block in its mode.
LEMMA DataKept ==
  ASSUME SeparateLayout, TypeOK, ActorInv, NEW a \in Actors, Step(a),
         NEW s \in Slots, NEW i \in Index, NEW m \in Modes,
         s # slot[a] \/ i # block[a] \/ m # mode[a]
  PROVE  Data(simulated_disks', s, i, m) = Data(simulated_disks, s, i, m)
<1>1. CASE simulated_disks' = simulated_disks
  BY <1>1, Zenon
<1>2. CASE /\ block[a] \in Index
           /\ \E place \in Places(Lb(a), mode[a]) : \E x \in Bit : Write(place, x)
  <2>1. PICK place \in Places(Lb(a), mode[a]), x \in Bit : Write(place, x)
    BY <1>2, Zenon
  <2> QED
    BY <1>2, <2>1, WriteFrame, Zenon
<1> QED
  BY <1>1, <1>2, StepWrites, Zenon

\* Nor any mirror but the one of the actor's block.
LEMMA MirrorKept ==
  ASSUME SeparateLayout, TypeOK, ActorInv, NEW a \in Actors, Step(a),
         NEW s \in Slots, NEW i \in Index,
         s # slot[a] \/ i # block[a] \/ mode[a] # RAID_1
  PROVE  Mirror(simulated_disks', s, i) = Mirror(simulated_disks, s, i)
<1>1. CASE simulated_disks' = simulated_disks
  BY <1>1, Zenon
<1>2. CASE /\ block[a] \in Index
           /\ \E place \in Places(Lb(a), mode[a]) : \E x \in Bit : Write(place, x)
  <2>1. PICK place \in Places(Lb(a), mode[a]), x \in Bit : Write(place, x)
    BY <1>2, Zenon
  <2>2. slot[a] \in Slots /\ mode[a] \in Modes
    BY DEF TypeOK
  <2>3. LogicalBlock(s, i) \in Nat /\ Lb(a) \in Nat
    BY <1>2, <2>2, LogicalBlockType DEF Lb
  <2>4. LogicalBlock(s, i) # Lb(a) \/ mode[a] # RAID_1
    BY <1>2, <2>2, LogicalBlockInjective DEF Lb
  <2>5. Separate(LogicalBlock(s, i)) /\ Separate(Lb(a))
    BY <1>2, <2>2 DEF SeparateLayout, Lb
  <2>6. place # CopyPlace(LogicalBlock(s, i), RAID_1)
    BY <2>2, <2>3, <2>4, <2>5, MirrorDisjoint
  <2>7. CopyPlace(LogicalBlock(s, i), RAID_1) \in AllPlaces
    BY MirrorPlaceType
  <2> QED
    BY <2>1, <2>6, <2>7 DEF Mirror, Write, TypeOK
<1> QED
  BY <1>1, <1>2, StepWrites, Zenon

\* A step leaves the local variables of the other actors alone.
LEMMA OthersKept ==
  ASSUME TypeOK, NEW a \in Actors, Step(a), NEW b \in Actors, b # a
  PROVE  /\ pc'[b] = pc[b] /\ slot'[b] = slot[b] /\ mode'[b] = mode[b]
         /\ block'[b] = block[b] /\ page'[b] = page[b]
<1> DEFINE Goal == /\ pc'[b] = pc[b] /\ slot'[b] = slot[b] /\ mode'[b] = mode[b]
                   /\ block'[b] = block[b] /\ page'[b] = page[b]
<1>0. /\ pc \in [Actors -> PCs] /\ slot \in [Actors -> Slots] /\ mode \in [Actors -> Modes]
      /\ block \in [Actors -> 0..BLOCKS_PER_PAGE] /\ page \in [Actors -> [Index -> Bit]]
  BY DEF TypeOK
<1>1. ASSUME NEW again, NEW after, NextBlock(a, again, after)
      PROVE  pc'[b] = pc[b] /\ block'[b] = block[b]
  BY <1>0, <1>1 DEF NextBlock
<1>2. ASSUME NEW s \in Slots, Swapin(a, s) \/ Unmap(a, s)
      PROVE  Goal
  BY <1>0, <1>2 DEF Swapin, Unmap
<1>3. ASSUME NEW s \in Slots, NEW contents \in Pages, Swapout(a, s, contents)
      PROVE  Goal
  BY <1>0, <1>3 DEF Swapout
<1>4. ASSUME RecordMode(a) \/ XorDisk(a) \/ SetPte(a) \/ SwapFree(a)
      PROVE  Goal
  BY <1>0, <1>4 DEF RecordMode, XorDisk, SetPte, SwapFree
<1>5. ASSUME RaidWrite(a) PROVE Goal
  <2>1. slot' = slot /\ mode' = mode /\ page' = page
    BY <1>5 DEF RaidWrite
  <2>2. pc'[b] = pc[b] /\ block'[b] = block[b]
    <3>1. \/ NextBlock(a, "write", "setpte")
          \/ block' = block /\ (pc' = [pc EXCEPT ![a] = "copy"] \/ pc' = [pc EXCEPT ![a] = "xor"])
      <4>1. mode[a] = RAID_0 \/ mode[a] = RAID_1 \/ mode[a] = RAID_5
        BY <1>0 DEF Modes
      <4> QED
        BY Zenon, <1>5, <4>1, Sets DEF RaidWrite
    <3> QED
      BY <1>0, <1>1, <3>1
  <2> QED
    BY <2>1, <2>2
<1>6. ASSUME RaidWriteCopy(a) \/ RaidRead(a) PROVE Goal
  <2>1. \/ NextBlock(a, "write", "setpte")
        \/ NextBlock(a, "read", "lock")
    BY <1>6, Zenon DEF RaidWriteCopy, RaidRead
  <2>2. slot' = slot /\ mode' = mode /\ page'[b] = page[b]
    BY <1>0, <1>6 DEF RaidWriteCopy, RaidRead
  <2> QED
    BY <1>1, <2>1, <2>2, Zenon
<1>7. ASSUME ZeroBlock(a) \/ ZeroCopy(a) PROVE Goal
  <2>1. NextBlock(a, "zero", "idle") \/ (block' = block /\ pc' = [pc EXCEPT ![a] = "zerocopy"])
    BY <1>7 DEF ZeroBlock, ZeroCopy, ZeroNext
  <2>2. slot' = slot /\ mode' = mode /\ page' = page
    BY <1>7 DEF ZeroBlock, ZeroCopy
  <2> QED
    BY <1>0, <1>1, <2>1, <2>2
<1> QED
  BY <1>2, <1>3, <1>4, <1>5, <1>6, <1>7, Zenon DEF Step

\* Another actor at work finds the data and the mirror of its slot as they were.
LEMMA OthersDisk ==
  ASSUME SeparateLayout, TypeOK, ActorInv, NEW a \in Actors, Step(a),
         NEW b \in Actors, b # a, pc[b] # "idle"
  PROVE  \A i \in Index :
           /\ Mirror(simulated_disks', slot[b], i) = Mirror(simulated_disks, slot[b], i)
           /\ \A m \in Modes : Data(simulated_disks', slot[b], i, m) = Data(simulated_disks, slot[b], i, m)
<1>1. slot[b] \in Slots
  BY DEF TypeOK
<1>2. CASE pc[a] = "idle"
  <2>1. block[a] = 0
    BY <1>2 DEF ActorInv, ActorOK, AtBlock
  <2>2. simulated_disks' = simulated_disks
    <3>1. PICK s \in Slots : Swapin(a, s) \/ Unmap(a, s) \/ \E contents \in Pages : Swapout(a, s, contents)
      BY <1>2 DEF Step, RecordMode, XorDisk, SetPte, RaidRead, SwapFree, RaidWrite, RaidWriteCopy, ZeroBlock, ZeroCopy
    <3> QED
      BY <3>1 DEF Swapin, Unmap, Swapout
  <2> QED
    BY <2>2, Zenon
<1>3. CASE pc[a] # "idle"
  <2>1. slot[b] # slot[a]
    BY <1>3 DEF ActorInv, Exclusive
  <2> QED
    BY <1>1, <2>1, DataKept, MirrorKept, Zenon
<1> QED
  BY <1>2, <1>3

\* So it keeps what it has zeroed and mirrored.
LEMMA OthersWork ==
  ASSUME SeparateLayout, TypeOK, ActorInv, WorkInv, NEW a \in Actors, Step(a),
         NEW b \in Actors, b # a
  PROVE  ZeroedOK(b)' /\ MirrorOK(b)'
<1>1. /\ pc'[b] = pc[b] /\ slot'[b] = slot[b] /\ mode'[b] = mode[b]
      /\ block'[b] = block[b] /\ page'[b] = page[b]
  BY OthersKept
<1>2. CASE pc[b] = "idle"
  BY <1>1, <1>2 DEF ZeroedOK, MirrorOK
<1>3. CASE pc[b] # "idle"
  <2>1. \A i \in Index :
           /\ Mirror(simulated_disks', slot[b], i) = Mirror(simulated_disks, slot[b], i)
           /\ \A m \in Modes : Data(simulated_disks', slot[b], i, m) = Data(simulated_disks, slot[b], i, m)
    BY <1>3, OthersDisk
  <2>2. mode[b] \in Modes /\ (pc[b] = "zerocopy" => block[b] \in Index)
    BY DEF TypeOK, ActorInv, ActorOK, AtBlock
  <2>3. ZeroedOK(b) /\ MirrorOK(b)
    BY DEF WorkInv
  <2>4. ZeroedOK(b)'
    BY <1>1, <2>1, <2>2, <2>3 DEF ZeroedOK
  <2>5. MirrorOK(b)'
    BY <1>1, <2>1, <2>3 DEF MirrorOK
  <2> QED
    BY <2>4, <2>5
<1> QED
  BY <1>2, <1>3

\* A block that zero or copy has just passed joins those before it.
LEMMA PassedBlocks ==
  ASSUME TypeOK, NEW a \in Actors, block[a] \in Index, NEW again \in PCs, NEW after \in PCs,
         Moved(a, again, after)
  PROVE  \/ pc'[a] = again /\ \A i \in Index : i < block'[a] => i < block[a] \/ i = block[a]
         \/ pc'[a] = after /\ block'[a] = 0 /\ \A i \in Index : i < block[a] \/ i = block[a]
<1>1. CASE pc'[a] = again /\ block'[a] = block[a] + 1
  <2>1. \A i \in Index : i < block[a] + 1 => i < block[a] \/ i = block[a]
    BY Sets, Zenon
  <2> QED
    BY <1>1, <2>1, Zenon
<1> QED
  BY <1>1, Zenon DEF Moved

\* raid_write leaves the mirrors of the blocks before its own, and its last write
\* of a block under RAID_1 is the mirror.
LEMMA WriterMirrors ==
  ASSUME SeparateLayout, TypeOK, ActorInv, WorkInv, NEW a \in Actors, Step(a),
         RaidWrite(a) \/ RaidWriteCopy(a)
  PROVE  ZeroedOK(a)' /\ MirrorOK(a)'
<1>0. /\ block[a] \in Index /\ slot[a] \in Slots /\ mode[a] \in Modes
      /\ slot'[a] = slot[a] /\ mode'[a] = mode[a] /\ page'[a] = page[a]
      /\ pc[a] \in {"write", "copy"}
  BY Zenon DEF RaidWrite, RaidWriteCopy, TypeOK, ActorInv, ActorOK, AtBlock
<1>1. \A i \in Index : i < block[a] => i # block[a]
  BY <1>0, IndexOrder
<1>2. MirrorOK(a)
  BY DEF WorkInv
<1>3. mode[a] = RAID_1 =>
        \A i \in Index : i < block[a] => Mirror(simulated_disks', slot[a], i) = page[a][i]
  <2>1. \A i \in Index : i < block[a] => Mirror(simulated_disks', slot[a], i) = Mirror(simulated_disks, slot[a], i)
    BY <1>0, <1>1, MirrorKept
  <2> QED
    BY <1>0, <1>2, <2>1 DEF MirrorOK
<1>4. CASE mode[a] # RAID_1
  <2>1. pc'[a] \in {"copy", "xor", "write", "setpte"}
    <3>1. CASE RaidWrite(a)
      <4>1. CASE mode[a] = RAID_0
        <5>1. NextBlock(a, "write", "setpte")
          BY <3>1, <4>1, Sets DEF RaidWrite
        <5>2. Moved(a, "write", "setpte")
          BY <1>0, <5>1, NextBlockFacts, LoopLabels
        <5> QED
          BY <5>2 DEF Moved
      <4>2. CASE mode[a] # RAID_0
        BY Zenon, <1>0, <3>1, <4>2, Sets DEF RaidWrite, Modes, TypeOK
      <4> QED
        BY <4>1, <4>2
    <3>2. CASE RaidWriteCopy(a)
      <4>1. Moved(a, "write", "setpte")
        BY <1>0, <3>2, NextBlockFacts, LoopLabels, SMTT(20) DEF RaidWriteCopy
      <4> QED
        BY <4>1 DEF Moved
    <3> QED
      BY <3>1, <3>2
  <2> QED
    BY <1>0, <1>4, <2>1 DEF ZeroedOK, MirrorOK
<1>5. CASE mode[a] = RAID_1 /\ RaidWrite(a)
  <2>1. pc'[a] = "copy" /\ block'[a] = block[a]
    BY <1>5, Sets DEF RaidWrite, TypeOK
  <2> QED
    BY <1>0, <1>3, <1>5, <2>1 DEF ZeroedOK, MirrorOK
<1>6. CASE mode[a] = RAID_1 /\ RaidWriteCopy(a)
  <2>1. Moved(a, "write", "setpte")
    BY <1>0, <1>6, NextBlockFacts, LoopLabels DEF RaidWriteCopy
  <2>2. Mirror(simulated_disks', slot[a], block[a]) = page[a][block[a]]
    <3>1. CopyPlace(LogicalBlock(slot[a], block[a]), RAID_1) \in AllPlaces
      BY <1>0, MirrorPlaceType
    <3>2. Write(CopyPlace(Lb(a), RAID_1), page[a][block[a]])
      BY <1>6 DEF RaidWriteCopy
    <3> QED
      BY <3>1, <3>2 DEF Write, TypeOK, Lb, Mirror
  <2>3. \A i \in Index : i < block[a] \/ i = block[a] => Mirror(simulated_disks', slot[a], i) = page[a][i]
    BY <1>3, <1>6, <2>2
  <2>4. \/ pc'[a] = "write" /\ \A i \in Index : i < block'[a] => i < block[a] \/ i = block[a]
        \/ pc'[a] = "setpte" /\ \A i \in Index : i < block[a] \/ i = block[a]
    BY <1>0, <2>1, PassedBlocks, LoopLabels
  <2> QED
    BY <1>0, <2>3, <2>4 DEF ZeroedOK, MirrorOK
<1> QED
  BY <1>4, <1>5, <1>6, Zenon

\* The effect of a step of swap_disk_free_slot on the data of its slot, and where
\* it goes on: with the copy of the block, the next block, or past the last one.
LEMMA ZeroerStep ==
  ASSUME SeparateLayout, TypeOK, ActorInv, WorkInv, NEW a \in Actors, Step(a),
         ZeroBlock(a) \/ ZeroCopy(a)
  PROVE  /\ block[a] \in Index /\ slot[a] \in Slots /\ mode[a] \in Modes
         /\ slot' = slot /\ mode' = mode /\ stored' = stored
         /\ \A s \in Slots : s # slot[a] => swap_slot_raid_mode'[s] = swap_slot_raid_mode[s]
         /\ stored[slot[a]] = NoPage /\ pc[a] \in {"zero", "zerocopy"}
         /\ \A i \in Index : i < block[a] \/ i = block[a] => Data(simulated_disks', slot[a], i, mode[a]) = 0
         /\ \/ pc'[a] = "zerocopy" /\ block'[a] = block[a]
            \/ pc'[a] = "zero" /\ \A i \in Index : i < block'[a] => i < block[a] \/ i = block[a]
            \/ pc'[a] = "idle" /\ \A i \in Index : i < block[a] \/ i = block[a]
<1>0. /\ block[a] \in Index /\ slot[a] \in Slots /\ mode[a] \in Modes
      /\ slot' = slot /\ mode' = mode /\ stored' = stored
      /\ stored[slot[a]] = NoPage /\ pc[a] \in {"zero", "zerocopy"}
  BY DEF ZeroBlock, ZeroCopy, TypeOK, ActorInv, ActorOK, AtBlock
<1>1. \A i \in Index : i < block[a] => i # block[a]
  BY <1>0, IndexOrder
<1>2. ZeroedOK(a)
  BY DEF WorkInv
<1>3. ASSUME NEW i \in Index, i < block[a]
      PROVE  Data(simulated_disks', slot[a], i, mode[a]) = 0
  <2>1. Data(simulated_disks', slot[a], i, mode[a]) = Data(simulated_disks, slot[a], i, mode[a])
    BY <1>0, <1>1, <1>3, DataKept
  <2> QED
    BY <1>0, <1>2, <1>3, <2>1 DEF ZeroedOK
<1>4. Data(simulated_disks', slot[a], block[a], mode[a]) = 0
  <2>1. CASE ZeroBlock(a)
    BY <1>0, <2>1, WriteReads, SMTT(20) DEF ZeroBlock
  <2>2. CASE ZeroCopy(a)
    <3>1. mode[a] # RAID_0 /\ Write(CopyPlace(Lb(a), mode[a]), 0)
      BY <2>2 DEF ZeroCopy, ActorInv, ActorOK
    <3>2. Data(simulated_disks', slot[a], block[a], mode[a]) = Data(simulated_disks, slot[a], block[a], mode[a])
      BY <1>0, <3>1, CopyFrame, SMTT(20)
    <3> QED
      BY <1>2, <2>2, <3>2 DEF ZeroedOK, ZeroCopy
  <2> QED
    BY <2>1, <2>2, SMTT(20)
<1>5. CASE ZeroNext(a)
  <2>1. Moved(a, "zero", "idle")
    BY <1>0, <1>5, NextBlockFacts, LoopLabels DEF ZeroNext
  <2>2. \/ pc'[a] = "zero" /\ \A i \in Index : i < block'[a] => i < block[a] \/ i = block[a]
        \/ pc'[a] = "idle" /\ \A i \in Index : i < block[a] \/ i = block[a]
    BY <1>0, <2>1, PassedBlocks, LoopLabels
  <2>3. \A s \in Slots : s # slot[a] => swap_slot_raid_mode'[s] = swap_slot_raid_mode[s]
    BY <1>5, SMTT(20) DEF ZeroNext, TypeOK
  <2> QED
    BY <1>0, <1>3, <1>4, <2>2, <2>3
<1>6. CASE ~ZeroNext(a)
  <2>1. pc'[a] = "zerocopy" /\ block' = block /\ swap_slot_raid_mode' = swap_slot_raid_mode
    BY <1>6 DEF ZeroBlock, ZeroCopy, TypeOK
  <2> QED
    BY <1>0, <1>3, <1>4, <2>1
<1> QED
  BY <1>5, <1>6

\* Every step keeps what the actors have zeroed and mirrored.
LEMMA NextWork == SeparateLayout /\ TypeOK /\ ActorInv /\ WorkInv /\ [Next]_vars => WorkInv'
<1>0. SUFFICES ASSUME SeparateLayout, TypeOK, ActorInv, WorkInv, [Next]_vars
               PROVE  WorkInv'
  OBVIOUS
<1>1. ASSUME NEW m \in Modes, SetRaidMode(m)
      PROVE  WorkInv'
  BY <1>0, <1>1 DEF SetRaidMode, WorkInv, ZeroedOK, MirrorOK, local
<1>2. ASSUME NEW a \in Actors, Step(a)
      PROVE  WorkInv'
  <2> DEFINE Mine == ZeroedOK(a)' /\ MirrorOK(a)'
  <2>0. pc \in [Actors -> PCs] /\ mode \in [Actors -> Modes] /\ slot[a] \in Slots
    BY <1>0 DEF TypeOK
  <2>1. ASSUME NEW s \in Slots, Swapin(a, s) \/ Unmap(a, s) \/ \E contents \in Pages : Swapout(a, s, contents)
        PROVE  Mine
    <3>1. pc'[a] \in {"read", "lock", "record"}
      BY <2>0, <2>1 DEF Swapin, Unmap, Swapout
    <3> QED
      BY <3>1 DEF ZeroedOK, MirrorOK
  <2>2. ASSUME RecordMode(a) \/ SwapFree(a) PROVE Mine
    <3>1. pc'[a] \in {"write", "zero"} /\ block'[a] = 0
      BY <1>0, <2>0, <2>2 DEF RecordMode, SwapFree, ActorInv, ActorOK, AtBlock
    <3>2. \A i \in Index : ~(i < 0)
      BY Sets
    <3> QED
      BY <3>1, <3>2 DEF ZeroedOK, MirrorOK
  <2>3. ASSUME XorDisk(a) PROVE Mine
    <3>1. mode'[a] # RAID_1 /\ pc'[a] \in {"xor", "copy"}
      BY <1>0, <2>0, <2>3, Sets DEF XorDisk, ActorInv, ActorOK
    <3> QED
      BY <3>1 DEF ZeroedOK, MirrorOK
  <2>4. ASSUME SetPte(a) PROVE Mine
    <3>1. pc'[a] = "idle"
      BY <2>0, <2>4 DEF SetPte
    <3> QED
      BY <3>1 DEF ZeroedOK, MirrorOK
  <2>5. ASSUME RaidRead(a) PROVE Mine
    <3>1. pc'[a] \in {"read", "lock"}
      BY <2>0, <2>5 DEF RaidRead, NextBlock
    <3> QED
      BY <3>1 DEF ZeroedOK, MirrorOK
  <2>6. ASSUME RaidWrite(a) \/ RaidWriteCopy(a) PROVE Mine
    BY <1>0, <1>2, <2>6, WriterMirrors
  <2>7. ASSUME ZeroBlock(a) \/ ZeroCopy(a) PROVE Mine
    <3>1. /\ block[a] \in Index /\ slot' = slot /\ mode' = mode
          /\ \A i \in Index : i < block[a] \/ i = block[a] => Data(simulated_disks', slot[a], i, mode[a]) = 0
          /\ \/ pc'[a] = "zerocopy" /\ block'[a] = block[a]
             \/ pc'[a] = "zero" /\ \A i \in Index : i < block'[a] => i < block[a] \/ i = block[a]
             \/ pc'[a] = "idle" /\ \A i \in Index : i < block[a] \/ i = block[a]
      BY <1>0, <1>2, <2>7, ZeroerStep
    <3> QED
      BY <3>1 DEF ZeroedOK, MirrorOK
  <2>8. Mine
    BY <1>2, <2>1, <2>2, <2>3, <2>4, <2>5, <2>6, <2>7, Zenon DEF Step
  <2>9. \A b \in Actors : b # a => ZeroedOK(b)' /\ MirrorOK(b)'
    BY <1>0, <1>2, OthersWork
  <2> QED
    BY <2>8, <2>9 DEF WorkInv
<1>3. CASE UNCHANGED vars
  BY <1>0, <1>3 DEF vars, local, WorkInv, ZeroedOK, MirrorOK
<1> QED
  BY <1>0, <1>1, <1>2, <1>3 DEF Next

\* Somebody who keeps the page and the mode of a slot, or a place in its
\* transfer, keeps the slot in use.
LEMMA InUseKept ==
  ASSUME \A s \in Slots : stored[s] # NoPage =>
           stored'[s] # NoPage /\ swap_slot_raid_mode'[s] = swap_slot_raid_mode[s],
         \A b \in Actors : pc[b] \in Filling => pc'[b] \in Filling /\ slot'[b] = slot[b] /\ mode'[b] = mode[b]
  PROVE  \A s \in Slots, m \in Modes : InUse(s, m) => InUse(s, m)'
  BY Zenon DEF InUse

\* A step that keeps the slots in use, or leaves zeros where it does not, and
\* writes only to a slot that stays in use or has become zero, leaves nothing
\* stale.
LEMMA FreshKept ==
  ASSUME SeparateLayout, TypeOK, ActorInv, FreshInv, NEW a \in Actors, Step(a),
         \A s \in Slots, m \in Modes :
           InUse(s, m) => InUse(s, m)' \/ \A i \in Index : Data(simulated_disks', s, i, m) = 0,
         \/ simulated_disks' = simulated_disks
         \/ \A s \in Slots, m \in Modes : s = slot[a] /\ m = mode[a] => InUse(s, m)'
         \/ \A i \in Index : Data(simulated_disks', slot[a], i, mode[a]) = 0
  PROVE  FreshInv'
<1>1. ASSUME NEW s \in Slots, NEW m \in Modes, ~InUse(s, m)', ~InUse(s, m), NEW i \in Index
      PROVE  Data(simulated_disks', s, i, m) = 0
  <2>1. Data(simulated_disks, s, i, m) = 0
    BY <1>1 DEF FreshInv
  <2>2. CASE simulated_disks' = simulated_disks
    BY <2>1, <2>2, Zenon
  <2>3. CASE s # slot[a] \/ m # mode[a]
    BY <2>1, <2>3, DataKept, Zenon
  <2>4. CASE simulated_disks' # simulated_disks /\ s = slot[a] /\ m = mode[a]
    BY <1>1, <2>4, Zenon
  <2> QED
    BY <2>2, <2>3, <2>4, SMTT(20)
<1> QED
  BY <1>1, Zenon DEF FreshInv

\* The steps at labels other than the two that change who uses a slot.
LEMMA UsersKept ==
  ASSUME SeparateLayout, TypeOK, ActorInv, FreshInv, NEW a \in Actors, Step(a),
         \A s \in Slots : stored[s] # NoPage =>
           stored'[s] # NoPage /\ swap_slot_raid_mode'[s] = swap_slot_raid_mode[s],
         pc[a] \in Filling => pc'[a] \in Filling /\ slot'[a] = slot[a] /\ mode'[a] = mode[a],
         simulated_disks' = simulated_disks \/ pc[a] \in Filling
  PROVE  FreshInv'
<1>1. \A b \in Actors : pc[b] \in Filling => pc'[b] \in Filling /\ slot'[b] = slot[b] /\ mode'[b] = mode[b]
  BY OthersKept
<1>2. \A s \in Slots, m \in Modes : InUse(s, m) => InUse(s, m)'
  BY <1>1, InUseKept
<1>3. \/ simulated_disks' = simulated_disks
      \/ \A s \in Slots, m \in Modes : s = slot[a] /\ m = mode[a] => InUse(s, m)'
  BY <1>1, Zenon DEF InUse
<1> QED
  BY <1>2, <1>3, FreshKept, Zenon

\* Every step keeps the unused regions zero.
LEMMA NextFresh == SeparateLayout /\ TypeOK /\ ActorInv /\ WorkInv /\ FreshInv /\ [Next]_vars => FreshInv'
<1>0. SUFFICES ASSUME SeparateLayout, TypeOK, ActorInv, WorkInv, FreshInv, [Next]_vars
               PROVE  FreshInv'
  OBVIOUS
<1>1. ASSUME NEW m \in Modes, SetRaidMode(m)
      PROVE  FreshInv'
  BY <1>0, <1>1 DEF SetRaidMode, FreshInv, InUse, local
<1>2. ASSUME NEW a \in Actors, Step(a)
      PROVE  FreshInv'
  <2>0. /\ pc \in [Actors -> PCs] /\ mode \in [Actors -> Modes] /\ slot \in [Actors -> Slots]
        /\ stored \in [Slots -> [Index -> Bit] \cup {NoPage}] /\ swap_slot_raid_mode \in [Slots -> Modes]
        /\ page[a] \in [Index -> Bit]
    BY <1>0, SMTT(20) DEF TypeOK
  <2>1. ASSUME NEW s \in Slots, Swapin(a, s) \/ Unmap(a, s) \/ \E contents \in Pages : Swapout(a, s, contents)
        PROVE  FreshInv'
    <3>1. /\ pc[a] = "idle" /\ simulated_disks' = simulated_disks
          /\ stored' = stored /\ swap_slot_raid_mode' = swap_slot_raid_mode
      BY <2>1 DEF Swapin, Unmap, Swapout
    <3>2. pc[a] \notin Filling
      BY <3>1, SMTT(20) DEF Filling
    <3> QED
      BY <1>0, <1>2, <3>1, <3>2, UsersKept
  <2>2. ASSUME RecordMode(a) PROVE FreshInv'
    <3>1. /\ pc[a] \notin Filling /\ simulated_disks' = simulated_disks /\ stored' = stored
          /\ stored[slot[a]] = NoPage
          /\ \A s \in Slots : s # slot[a] => swap_slot_raid_mode'[s] = swap_slot_raid_mode[s]
      BY <1>0, <2>0, <2>2 DEF RecordMode, Filling, ActorInv, ActorOK
    <3> QED
      BY <1>0, <1>2, <3>1, UsersKept, SMTT(20)
  <2>3. ASSUME RaidRead(a) PROVE FreshInv'
    <3>1. /\ pc[a] \notin Filling /\ simulated_disks' = simulated_disks
          /\ stored' = stored /\ swap_slot_raid_mode' = swap_slot_raid_mode
      BY <2>3 DEF RaidRead, Filling
    <3> QED
      BY <1>0, <1>2, <3>1, UsersKept
  <2>4. ASSUME RaidWrite(a) \/ XorDisk(a) \/ RaidWriteCopy(a) PROVE FreshInv'
    <3>1. /\ pc[a] \in Filling /\ slot' = slot /\ mode' = mode
          /\ stored' = stored /\ swap_slot_raid_mode' = swap_slot_raid_mode
      BY Zenon, <2>4 DEF RaidWrite, XorDisk, RaidWriteCopy, Filling
    <3>2. pc'[a] \in Filling
      <4>1. CASE NextBlock(a, "write", "setpte")
        BY <2>0, <4>1 DEF NextBlock, Filling
      <4>2. CASE ~NextBlock(a, "write", "setpte")
        <5>1. CASE RaidWrite(a)
          BY ZenonT(30), <2>0, <4>2, <5>1, Sets DEF RaidWrite, Filling, Modes
        <5>2. CASE XorDisk(a)
          BY <2>0, <5>2 DEF XorDisk, Filling
        <5> QED
          BY <2>4, <4>2, <5>1, <5>2 DEF RaidWriteCopy
      <4> QED
        BY <4>1, <4>2
    <3> QED
      BY <1>0, <1>2, <3>1, <3>2, UsersKept
  <2>5. ASSUME SetPte(a) PROVE FreshInv'
    <3>1. /\ pc[a] = "setpte" /\ simulated_disks' = simulated_disks /\ swap_slot_raid_mode' = swap_slot_raid_mode
          /\ slot' = slot /\ mode' = mode
          /\ stored' = [stored EXCEPT ![slot[a]] = page[a]] /\ page[a] # NoPage
          /\ swap_slot_raid_mode[slot[a]] = mode[a]
      BY <1>0, <2>0, <2>5, Sets DEF SetPte, ActorInv, ActorOK
    <3>2. ASSUME NEW s \in Slots, NEW m \in Modes, InUse(s, m)
          PROVE  InUse(s, m)'
      <4>1. CASE stored[s] # NoPage /\ swap_slot_raid_mode[s] = m
        BY <2>0, <3>1, <4>1 DEF InUse
      <4>2. CASE slot[a] = s /\ mode[a] = m
        BY <2>0, <3>1, <4>2 DEF InUse
      <4>3. ASSUME NEW b \in Actors, b # a, slot[b] = s, pc[b] \in Filling, mode[b] = m
            PROVE  InUse(s, m)'
        BY <1>0, <1>2, <4>3, OthersKept DEF InUse
      <4> QED
        BY <3>2, <4>1, <4>2, <4>3, ZenonT(30) DEF InUse
    <3> QED
      BY <1>0, <1>2, <3>1, <3>2, FreshKept, SMTT(20)
  <2>6. ASSUME SwapFree(a) PROVE FreshInv'
    <3>1. /\ pc[a] = "lock" /\ simulated_disks' = simulated_disks /\ swap_slot_raid_mode' = swap_slot_raid_mode
          /\ slot' = slot /\ mode'[a] = swap_slot_raid_mode[slot[a]] /\ pc'[a] = "zero"
          /\ \A s \in Slots : s # slot[a] => stored'[s] = stored[s]
      BY <2>0, <2>6 DEF SwapFree
    <3>2. ASSUME NEW s \in Slots, NEW m \in Modes, InUse(s, m)
          PROVE  InUse(s, m)'
      <4>1. CASE stored[s] # NoPage /\ swap_slot_raid_mode[s] = m /\ s # slot[a]
        BY <3>1, <4>1, Zenon DEF InUse
      <4>2. CASE swap_slot_raid_mode[s] = m /\ s = slot[a]
        <5>1. pc'[a] \in Filling /\ slot'[a] = s /\ mode'[a] = m
          BY <3>1, <4>2 DEF Filling
        <5> QED
          BY <5>1, Zenon DEF InUse
      <4>3. ASSUME NEW b \in Actors, slot[b] = s, pc[b] \in Filling, mode[b] = m
            PROVE  InUse(s, m)'
        <5>1. b # a
          BY <3>1, <4>3 DEF Filling
        <5> QED
          BY <1>0, <1>2, <4>3, <5>1, OthersKept DEF InUse
      <4> QED
        BY <3>2, <4>1, <4>2, <4>3, Zenon DEF InUse
    <3> QED
      BY <1>0, <1>2, <3>1, <3>2, FreshKept
  <2>7. ASSUME ZeroBlock(a) \/ ZeroCopy(a) PROVE FreshInv'
    <3>1. /\ slot' = slot /\ mode' = mode /\ stored' = stored
          /\ \A s \in Slots : s # slot[a] => swap_slot_raid_mode'[s] = swap_slot_raid_mode[s]
          /\ stored[slot[a]] = NoPage /\ pc[a] \in {"zero", "zerocopy"}
          /\ \A i \in Index : i < block[a] \/ i = block[a] => Data(simulated_disks', slot[a], i, mode[a]) = 0
          /\ \/ pc'[a] = "zerocopy" /\ block'[a] = block[a]
             \/ pc'[a] = "zero" /\ \A i \in Index : i < block'[a] => i < block[a] \/ i = block[a]
             \/ pc'[a] = "idle" /\ \A i \in Index : i < block[a] \/ i = block[a]
      BY Zenon, <1>0, <1>2, <2>7, ZeroerStep
    <3>2. CASE pc'[a] \in {"zero", "zerocopy"}
      <4>1. pc[a] \in Filling /\ pc'[a] \in Filling
        BY <3>1, <3>2 DEF Filling
      <4> QED
        BY <1>0, <1>2, <3>1, <4>1, UsersKept, SMTT(20)
    <3>3. CASE \A i \in Index : Data(simulated_disks', slot[a], i, mode[a]) = 0
      <4>1. ASSUME NEW s \in Slots, NEW m \in Modes, InUse(s, m), s # slot[a] \/ m # mode[a]
            PROVE  InUse(s, m)'
        <5>1. CASE stored[s] # NoPage /\ swap_slot_raid_mode[s] = m
          BY <3>1, <5>1, Zenon DEF InUse
        <5>2. ASSUME NEW b \in Actors, slot[b] = s, pc[b] \in Filling, mode[b] = m
              PROVE  InUse(s, m)'
          <6>1. b # a
            BY <4>1, <5>2
          <6> QED
            BY <1>0, <1>2, <5>2, <6>1, OthersKept DEF InUse
        <5> QED
          BY <4>1, <5>1, <5>2, Zenon DEF InUse
      <4>2. \A s \in Slots, m \in Modes :
              InUse(s, m) => InUse(s, m)' \/ \A i \in Index : Data(simulated_disks', s, i, m) = 0
        BY <3>3, <4>1, ZenonT(30)
      <4> QED
        BY <1>0, <1>2, <3>3, <4>2, FreshKept
    <3> QED
      BY <3>1, <3>2, <3>3, SMTT(20)
  <2> QED
    BY <1>2, <2>1, <2>2, <2>3, <2>4, <2>5, <2>6, <2>7, Zenon DEF Step
<1>3. CASE UNCHANGED vars
  BY <1>0, <1>3 DEF vars, local, FreshInv, InUse
<1> QED
  BY <1>0, <1>1, <1>2, <1>3 DEF Next

\* No step writes to the slot of a stored page, so its mirror stays.
LEMMA NextMirror ==
  SeparateLayout /\ TypeOK /\ ActorInv /\ WorkInv /\ MirrorInv /\ [Next]_vars => MirrorInv'
<1>0. SUFFICES ASSUME SeparateLayout, TypeOK, ActorInv, WorkInv, MirrorInv, [Next]_vars
               PROVE  MirrorInv'
  OBVIOUS
<1>1. ASSUME NEW m \in Modes, SetRaidMode(m)
      PROVE  MirrorInv'
  BY <1>0, <1>1 DEF SetRaidMode, MirrorInv, local
<1>2. ASSUME NEW a \in Actors, Step(a)
      PROVE  MirrorInv'
  <2> DEFINE Same == \A s \in Slots : stored'[s] # NoPage =>
                       /\ stored'[s] = stored[s] /\ swap_slot_raid_mode'[s] = swap_slot_raid_mode[s]
                       /\ \A i \in Index : Mirror(simulated_disks', s, i) = Mirror(simulated_disks, s, i)
  <2>0. /\ pc \in [Actors -> PCs] /\ mode \in [Actors -> Modes] /\ slot[a] \in Slots
        /\ stored \in [Slots -> [Index -> Bit] \cup {NoPage}] /\ swap_slot_raid_mode \in [Slots -> Modes]
    BY <1>0 DEF TypeOK
  <2>1. Same => MirrorInv'
    BY <1>0 DEF MirrorInv
  <2>2. ASSUME NEW s \in Slots, Swapin(a, s) \/ Unmap(a, s) \/ \E contents \in Pages : Swapout(a, s, contents)
        PROVE  Same
    <3>1. simulated_disks' = simulated_disks /\ stored' = stored /\ swap_slot_raid_mode' = swap_slot_raid_mode
      BY <2>2 DEF Swapin, Unmap, Swapout
    <3> QED
      BY <3>1, Zenon
  <2>3. ASSUME RecordMode(a) \/ RaidRead(a) \/ XorDisk(a) PROVE Same
    <3>1. simulated_disks' = simulated_disks /\ stored' = stored
      BY <2>3 DEF RecordMode, RaidRead, XorDisk
    <3>2. \A s \in Slots : stored[s] # NoPage => swap_slot_raid_mode'[s] = swap_slot_raid_mode[s]
      BY <1>0, <2>0, <2>3, SMTT(20) DEF RecordMode, RaidRead, XorDisk, ActorInv, ActorOK
    <3> QED
      BY <3>1, <3>2, Zenon
  <2>4. ASSUME RaidWrite(a) \/ RaidWriteCopy(a) PROVE Same
    <3>1. stored' = stored /\ swap_slot_raid_mode' = swap_slot_raid_mode /\ stored[slot[a]] = NoPage
      BY Zenon, <1>0, <2>4 DEF RaidWrite, RaidWriteCopy, ActorInv, ActorOK
    <3> QED
      BY <1>0, <1>2, <3>1, MirrorKept
  <2>5. ASSUME ZeroBlock(a) \/ ZeroCopy(a) PROVE Same
    <3>1. /\ stored' = stored /\ stored[slot[a]] = NoPage
          /\ \A s \in Slots : s # slot[a] => swap_slot_raid_mode'[s] = swap_slot_raid_mode[s]
      BY <1>0, <1>2, <2>5, ZeroerStep
    <3> QED
      BY <1>0, <1>2, <3>1, MirrorKept, SMTT(20)
  <2>6. ASSUME SwapFree(a) PROVE Same
    <3>1. /\ simulated_disks' = simulated_disks /\ swap_slot_raid_mode' = swap_slot_raid_mode
          /\ stored' = [stored EXCEPT ![slot[a]] = NoPage]
      BY <2>6 DEF SwapFree
    <3>2. \A s \in Slots : stored'[s] # NoPage => stored'[s] = stored[s]
      BY <2>0, <3>1
    <3> QED
      BY <3>1, <3>2, Zenon
  <2>7. ASSUME SetPte(a) PROVE MirrorInv'
    <3>1. /\ pc[a] = "setpte" /\ simulated_disks' = simulated_disks /\ swap_slot_raid_mode' = swap_slot_raid_mode
          /\ stored' = [stored EXCEPT ![slot[a]] = page[a]] /\ swap_slot_raid_mode[slot[a]] = mode[a]
      BY <1>0, <2>7 DEF SetPte, ActorInv, ActorOK
    <3>2. mode[a] = RAID_1 => \A i \in Index : Mirror(simulated_disks, slot[a], i) = page[a][i]
      BY <1>0, <3>1 DEF WorkInv, MirrorOK
    <3>3. ASSUME NEW s \in Slots, stored'[s] # NoPage, swap_slot_raid_mode'[s] = RAID_1, NEW i \in Index
          PROVE  Mirror(simulated_disks', s, i) = stored'[s][i]
      <4>1. CASE s = slot[a]
        BY <2>0, <3>1, <3>2, <3>3, <4>1
      <4>2. CASE s # slot[a]
        BY <1>0, <2>0, <3>1, <3>3, <4>2 DEF MirrorInv
      <4> QED
        BY <4>1, <4>2
    <3> QED
      BY <3>3, ZenonT(30) DEF MirrorInv
  <2> QED
    BY <1>2, <2>1, <2>2, <2>3, <2>4, <2>5, <2>6, <2>7, Zenon DEF Step
<1>3. CASE UNCHANGED vars
  BY <1>0, <1>3 DEF vars, local, MirrorInv
<1> QED
  BY <1>0, <1>1, <1>2, <1>3 DEF Next

\* The zeros, the mirrors and the pages on the disks, for every layout that keeps
\* the blocks apart: CopyInv holds initially and every step keeps it.
THEOREM CopiesInvariant ==
  ASSUME SeparateLayout
  PROVE  Spec => []CopyInv
<1>1. Init => FreshInv /\ WorkInv /\ MirrorInv
  <2>0. SUFFICES ASSUME Init
                 PROVE  FreshInv /\ WorkInv /\ MirrorInv
    OBVIOUS
  <2>1. FreshInv
    <3>1. ASSUME NEW s \in Slots, NEW m \in Modes, NEW i \in Index
          PROVE  Data(simulated_disks, s, i, m) = 0
      BY <2>0, PlaceType DEF Init, Data
    <3> QED
      BY <3>1 DEF FreshInv
  <2>2. WorkInv
    BY <2>0 DEF Init, WorkInv, ZeroedOK, MirrorOK
  <2>3. MirrorInv
    BY <2>0 DEF Init, MirrorInv
  <2> QED
    BY <2>1, <2>2, <2>3
<1>2. IInv /\ FreshInv /\ WorkInv /\ MirrorInv /\ [Next]_vars => (FreshInv /\ WorkInv /\ MirrorInv)'
  BY NextFresh, NextWork, NextMirror DEF IInv
<1> QED
  BY <1>1, <1>2, Invariance, PTL DEF Spec, CopyInv

\* "Zeroes the physical disk blocks so stale data cannot be read back if a slot
\* is reused": swap_disk_free_slot clears a slot in the mode that swap_out_page
\* used, whatever setraidmode and the other transfers do in between.
THEOREM NothingStale ==
  ASSUME SeparateLayout
  PROVE  Spec => []NoStaleData
<1>1. CopyInv => NoStaleData
  <2>0. SUFFICES ASSUME CopyInv
                 PROVE  NoStaleData
    OBVIOUS
  <2>1. ASSUME NEW s \in Slots, NEW m \in Modes,
               \/ ~swaptable[s].used /\ \A a \in Actors : slot[a] = s => pc[a] = "idle"
               \/ stored[s] # NoPage /\ swap_slot_raid_mode[s] # m
        PROVE  ~InUse(s, m)
    <3>1. CASE ~swaptable[s].used /\ \A a \in Actors : slot[a] = s => pc[a] = "idle"
      BY <2>0, <3>1 DEF CopyInv, IInv, ActorInv, StoredUsed, InUse, Filling
    <3>2. CASE stored[s] # NoPage /\ swap_slot_raid_mode[s] # m
      <4>1. ASSUME NEW a \in Actors, slot[a] = s, pc[a] \in Filling
            PROVE  FALSE
        BY <2>0, <3>2, <4>1 DEF CopyInv, IInv, ActorInv, ActorOK, Filling
      <4> QED
        BY <3>2, <4>1 DEF InUse
    <3> QED
      BY <2>1, <3>1, <3>2
  <2> QED
    BY <2>0, <2>1 DEF CopyInv, FreshInv, NoStaleData, Data
<1> QED
  BY <1>1, CopiesInvariant, PTL

\* Both copies of a page swapped out under RAID_1 are the page: raid_write
\* mirrors every block before the owner's PTE names the slot, and nothing writes
\* to either copy until swap_free.
THEOREM MirrorsEqual ==
  ASSUME SeparateLayout
  PROVE  Spec => []MirrorsAgree
<1>1. CopyInv => MirrorsAgree
  BY ZenonT(30) DEF CopyInv, IInv, StoredInv, MirrorInv, MirrorsAgree, Data, Mirror
<1> QED
  BY <1>1, CopiesInvariant, PTL
=============================================================================
