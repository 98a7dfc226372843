---------------------------- MODULE BufferCache ----------------------------
(***************************************************************************)
(* The buffer cache (kernel/bio.c), the sleep lock of each buffer          *)
(* (kernel/sleeplock.c) and the virtio disk driver below it                *)
(* (kernel/virtio_disk.c), with the device and its interrupt.              *)
(*                                                                         *)
(* Processes use a buffer as the kernel does: to read a block; to change   *)
(* it and write it (fs.c through log.c's write_head, write_log); to change *)
(* it and pin it (log_write); to write a pinned block home and unpin it    *)
(* (install_trans).  A step is a critical section under bcache.lock, a     *)
(* sleep lock's lk->lk or vdisk_lock.  kkill wakes whoever sleeps.         *)
(***************************************************************************)
EXTENDS Integers, SequencesExt

CONSTANTS Procs,
          Blocks,      \* block numbers, not 0
          Data,
          NBUF,
          NUM,         \* virtio descriptors
          Programs     \* bound: the calls the processes make, one after the other

VARIABLES buf,         \* struct buf of each buffer
          lru,         \* the list of bcache: head.next first
          desc, free, info, ops,        \* struct disk
          avail, used, \* entries of the two rings not yet consumed
          irq,         \* the device asks for an interrupt
          intr,        \* virtio_disk_intr runs, and holds vdisk_lock
          disk,        \* contents of the disk
          todo,        \* per process: the calls it makes, the present one first
          pc, b, idx,  \* per process: where it is, its buffer, its first descriptor
          pinned,
          truth,       \* history: the contents last given to each block
          panic

driver == <<desc, free, info, ops, avail, used, irq, intr, disk>>
locals == <<todo, b, idx>>
vars == <<buf, lru, driver, pc, locals, pinned, truth, panic>>

Bufs == 1 .. NBUF
Idx == 0 .. NUM - 1
None == 0

NoDesc == [next |-> 0, more |-> FALSE]

\* binit, and the part of virtio_disk_init that is not the device's set-up.
Init ==
  /\ buf = [x \in Bufs |-> [blockno |-> None, valid |-> FALSE, refcnt |-> 0, locked |-> None,
                            disk |-> FALSE, data |-> CHOOSE d \in Data : TRUE]]
  /\ lru = Reverse([x \in Bufs |-> x])
  /\ desc = [i \in Idx |-> NoDesc] /\ free = Idx
  /\ info = [i \in Idx |-> [b |-> None, status |-> 0]]
  /\ ops = [i \in Idx |-> [write |-> FALSE, sector |-> None]]
  /\ avail = <<>> /\ used = <<>> /\ irq = FALSE /\ intr = FALSE
  /\ disk = [n \in Blocks |-> CHOOSE d \in Data : TRUE] /\ truth = disk
  /\ todo \in Programs
  /\ pc = [p \in Procs |-> "idle"]
  /\ b = [p \in Procs |-> None] /\ idx = [p \in Procs |-> None]
  /\ pinned = {}
  /\ panic = FALSE

Goto(p, l) == pc' = [pc EXCEPT ![p] = l]

Buf(p) == buf[b[p]]

\* The use and the block of the call of p.
Kind(p) == Head(todo[p])[1]
Block(p) == Head(todo[p])[2]

-----------------------------------------------------------------------------
(* The cache.                                                              *)

\* A process wants a block; only a pinned block is installed.
Call(p) ==
  /\ pc[p] = "idle" /\ todo[p] # <<>>
  /\ Kind(p) = "install" => Block(p) \in pinned
  /\ Goto(p, "bget")
  /\ UNCHANGED <<buf, lru, driver, locals, pinned, truth, panic>>

Cached(n) == {x \in Bufs : buf[x].blockno = n}

\* The least recently used buffer without references, or None.
Recycled ==
  LET unused == SelectSeq(lru, LAMBDA x : buf[x].refcnt = 0)
  IN IF unused = <<>> THEN None ELSE Last(unused)

\* Mutant: a recycled buffer stays valid.
BgetKeepsValid(p) ==
  /\ pc[p] = "bget"
  /\ IF Cached(Block(p)) # {}
     THEN \E x \in Cached(Block(p)) :
            /\ buf' = [buf EXCEPT ![x].refcnt = @ + 1]
            /\ b' = [b EXCEPT ![p] = x] /\ Goto(p, "lock") /\ UNCHANGED panic
     ELSE IF Recycled # None
     THEN /\ buf' = [buf EXCEPT ![Recycled].blockno = Block(p), ![Recycled].refcnt = 1]
          /\ b' = [b EXCEPT ![p] = Recycled] /\ Goto(p, "lock") /\ UNCHANGED panic
     ELSE panic' = TRUE /\ UNCHANGED <<buf, b, pc>>
  /\ UNCHANGED <<lru, driver, todo, idx, pinned, truth>>

Bget(p) ==
  /\ pc[p] = "bget"
  /\ IF Cached(Block(p)) # {}
     THEN \E x \in Cached(Block(p)) :
            /\ buf' = [buf EXCEPT ![x].refcnt = @ + 1]
            /\ b' = [b EXCEPT ![p] = x] /\ Goto(p, "lock") /\ UNCHANGED panic
     ELSE IF Recycled # None
     THEN /\ buf' = [buf EXCEPT ![Recycled].blockno = Block(p), ![Recycled].valid = FALSE,
                                ![Recycled].refcnt = 1]
          /\ b' = [b EXCEPT ![p] = Recycled] /\ Goto(p, "lock") /\ UNCHANGED panic
     ELSE panic' = TRUE /\ UNCHANGED <<buf, b, pc>>
  /\ UNCHANGED <<lru, driver, todo, idx, pinned, truth>>

\* acquiresleep, and bread's test of valid.
Acquiresleep(p) ==
  /\ pc[p] = "lock"
  /\ IF Buf(p).locked # None
     THEN Goto(p, "lockwait") /\ UNCHANGED buf
     ELSE /\ buf' = [buf EXCEPT ![b[p]].locked = p]
          /\ Goto(p, IF Buf(p).valid THEN "use" ELSE "rw")
  /\ UNCHANGED <<lru, driver, locals, pinned, truth, panic>>

\* What the process does with the buffer it has locked: nothing, a change of
\* its data followed by bwrite or bpin, or bwrite alone.
Use(p) ==
  /\ pc[p] = "use"
  /\ IF Kind(p) \in {"write", "pin"}
     THEN \E d \in Data \ {Buf(p).data} :
            buf' = [buf EXCEPT ![b[p]].data = d] /\ truth' = [truth EXCEPT ![Block(p)] = d]
     ELSE UNCHANGED <<buf, truth>>
  /\ Goto(p, CASE Kind(p) = "read" -> "brelse"
               [] Kind(p) = "pin" -> "bpin"
               [] OTHER -> "rw")
  /\ UNCHANGED <<lru, driver, locals, pinned, panic>>

\* bpin and bunpin, under bcache.lock.  log_write pins a block once.
Bpin(p) ==
  /\ pc[p] = "bpin"
  /\ buf' = [buf EXCEPT ![b[p]].refcnt = IF Block(p) \in pinned THEN @ ELSE @ + 1]
  /\ pinned' = pinned \cup {Block(p)}
  /\ Goto(p, "brelse")
  /\ UNCHANGED <<lru, driver, locals, truth, panic>>

Bunpin(p) ==
  /\ pc[p] = "bunpin"
  /\ buf' = [buf EXCEPT ![b[p]].refcnt = @ - 1]
  /\ pinned' = pinned \ {Block(p)}
  /\ Goto(p, "brelse")
  /\ UNCHANGED <<lru, driver, locals, truth, panic>>

\* brelse: releasesleep, which wakes those who wait for the buffer ...
Releasesleep(p) ==
  /\ pc[p] = "brelse"
  /\ buf' = [buf EXCEPT ![b[p]].locked = None]
  /\ pc' = [q \in Procs |-> IF q = p THEN "unref"
                            ELSE IF pc[q] = "lockwait" /\ b[q] = b[p] THEN "lock" ELSE pc[q]]
  /\ UNCHANGED <<lru, driver, locals, pinned, truth, panic>>

\* ... and then, under bcache.lock, the reference.
Unref(p) ==
  /\ pc[p] = "unref"
  /\ buf' = [buf EXCEPT ![b[p]].refcnt = @ - 1]
  /\ lru' = IF Buf(p).refcnt = 1 THEN <<b[p]>> \o SelectSeq(lru, LAMBDA x : x # b[p]) ELSE lru
  /\ b' = [b EXCEPT ![p] = None] /\ todo' = [todo EXCEPT ![p] = Tail(@)]
  /\ Goto(p, "idle")
  /\ UNCHANGED <<driver, idx, pinned, truth, panic>>

-----------------------------------------------------------------------------
(* The driver.                                                             *)

\* wakeup(&disk.free[0]).
Woken(f) == [q \in Procs |-> IF f[q] = "descwait" THEN "rw" ELSE f[q]]

\* The three lowest free descriptors, as alloc3_desc takes them.
Lowest3 == SubSeq(SelectSeq([k \in 1 .. NUM |-> k - 1], LAMBDA i : i \in free), 1, 3)

\* virtio_disk_rw up to the sleep for the device.  With fewer than three free
\* descriptors alloc3_desc gives back what it took, and free_desc wakes the
\* others that wait for descriptors.
VirtioDiskRw(p) ==
  /\ pc[p] = "rw" /\ ~intr
  /\ IF Cardinality(free) >= 3
     THEN \E i \in {Lowest3} :
            /\ free' = free \ ToSet(i)
            /\ desc' = [desc EXCEPT ![i[1]] = [next |-> i[2], more |-> TRUE],
                                    ![i[2]] = [next |-> i[3], more |-> TRUE],
                                    ![i[3]] = NoDesc]
            /\ ops' = [ops EXCEPT ![i[1]] = [write |-> Buf(p).valid, sector |-> Buf(p).blockno]]
            /\ info' = [info EXCEPT ![i[1]] = [b |-> b[p], status |-> 255]]
            /\ buf' = [buf EXCEPT ![b[p]].disk = TRUE]
            /\ avail' = Append(avail, i[1])
            /\ idx' = [idx EXCEPT ![p] = i[1]]
            /\ Goto(p, "diskwait")
     ELSE /\ pc' = [(IF free = {} THEN pc ELSE Woken(pc)) EXCEPT ![p] = "descwait"]
          /\ UNCHANGED <<free, desc, ops, info, buf, avail, idx>>
  /\ UNCHANGED <<lru, used, irq, intr, disk, todo, b, pinned, truth, panic>>

RECURSIVE Chain(_)
Chain(i) == {i} \cup IF desc[i].more THEN Chain(desc[i].next) ELSE {}

\* Mutant: free_desc does not wake those who wait for descriptors.
DiskDoneSilent(p) ==
  /\ pc[p] = "disk" /\ ~intr
  /\ IF Buf(p).disk
     THEN Goto(p, "diskwait") /\ UNCHANGED <<free, desc, info, buf, idx, panic>>
     ELSE /\ \E c \in {Chain(idx[p])} :
               /\ free' = free \cup c
               /\ desc' = [i \in Idx |-> IF i \in c THEN NoDesc ELSE desc[i]]
               /\ panic' = (c \cap free # {})
          /\ info' = [info EXCEPT ![idx[p]].b = None]
          /\ idx' = [idx EXCEPT ![p] = None]
          /\ buf' = [buf EXCEPT ![b[p]].valid = TRUE]
          /\ pc' = [pc EXCEPT ![p] =
                      CASE ~Buf(p).valid -> "use"
                        [] Buf(p).valid /\ Kind(p) = "install" -> "bunpin"
                        [] OTHER -> "brelse"]
  /\ UNCHANGED <<lru, ops, avail, used, irq, intr, disk, todo, b, pinned, truth>>

\* The end of virtio_disk_rw, once b->disk is 0; then b->valid = 1 in bread,
\* or what follows bwrite.  free_desc panics on a descriptor that is free.
DiskDone(p) ==
  /\ pc[p] = "disk" /\ ~intr
  /\ IF Buf(p).disk
     THEN Goto(p, "diskwait") /\ UNCHANGED <<free, desc, info, buf, idx, panic>>
     ELSE /\ \E c \in {Chain(idx[p])} :
               /\ free' = free \cup c
               /\ desc' = [i \in Idx |-> IF i \in c THEN NoDesc ELSE desc[i]]
               /\ panic' = (c \cap free # {})
          /\ info' = [info EXCEPT ![idx[p]].b = None]
          /\ idx' = [idx EXCEPT ![p] = None]
          /\ buf' = [buf EXCEPT ![b[p]].valid = TRUE]
          /\ pc' = [Woken(pc) EXCEPT ![p] =
                      CASE ~Buf(p).valid -> "use"
                        [] Buf(p).valid /\ Kind(p) = "install" -> "bunpin"
                        [] OTHER -> "brelse"]
  /\ UNCHANGED <<lru, ops, avail, used, irq, intr, disk, todo, b, pinned, truth>>

\* The device serves any request it was given: it moves the data, writes the
\* status and the entry of the used ring, and asks for an interrupt.
Device(k) ==
  LET i == avail[k] x == info[i].b
  IN /\ k \in DOMAIN avail
     /\ IF ops[i].write
        THEN disk' = [disk EXCEPT ![ops[i].sector] = buf[x].data] /\ UNCHANGED buf
        ELSE buf' = [buf EXCEPT ![x].data = disk[ops[i].sector]] /\ UNCHANGED disk
     /\ info' = [info EXCEPT ![i].status = 0]
     /\ avail' = RemoveAt(avail, k)
     /\ used' = Append(used, i)
     /\ irq' = TRUE
     /\ UNCHANGED <<lru, desc, free, ops, intr, pc, locals, pinned, truth, panic>>

\* virtio_disk_intr: acknowledge first, then take the entries of the used ring
\* one by one.  The device may add to the ring meanwhile.
IntrAck ==
  /\ irq /\ ~intr
  /\ irq' = FALSE /\ intr' = TRUE
  /\ UNCHANGED <<buf, lru, desc, free, info, ops, avail, used, disk, pc, locals, pinned, truth, panic>>

IntrEntry ==
  LET x == info[used[1]].b
  IN /\ intr /\ used # <<>>
     /\ IF info[used[1]].status # 0
        THEN panic' = TRUE /\ UNCHANGED <<buf, pc>>
        ELSE /\ buf' = [buf EXCEPT ![x].disk = FALSE]
             /\ pc' = [q \in Procs |-> IF pc[q] = "diskwait" /\ b[q] = x THEN "disk" ELSE pc[q]]
             /\ UNCHANGED panic
     /\ used' = Tail(used)
     /\ UNCHANGED <<lru, desc, free, info, ops, avail, irq, intr, disk, locals, pinned, truth>>

IntrDone ==
  /\ intr /\ used = <<>>
  /\ intr' = FALSE
  /\ UNCHANGED <<buf, lru, desc, free, info, ops, avail, used, irq, disk, pc, locals, pinned, truth, panic>>

\* kkill makes a sleeping process runnable; its loop then looks again.
Kill(p) ==
  /\ pc[p] \in {"lockwait", "descwait", "diskwait"}
  /\ Goto(p, CASE pc[p] = "lockwait" -> "lock"
               [] pc[p] = "descwait" -> "rw"
               [] pc[p] = "diskwait" -> "disk")
  /\ UNCHANGED <<buf, lru, driver, locals, pinned, truth, panic>>

Next ==
  /\ ~panic
  /\ \/ \E p \in Procs :
          \/ Call(p) \/ Bget(p) \/ Acquiresleep(p) \/ Bpin(p) \/ Bunpin(p) \/ Releasesleep(p) \/ Unref(p)
          \/ Use(p)
          \/ VirtioDiskRw(p) \/ DiskDone(p) \/ Kill(p)
     \/ \E k \in 1 .. NUM : Device(k)
     \/ IntrAck \/ IntrEntry \/ IntrDone

Spec == Init /\ [][Next]_vars

-----------------------------------------------------------------------------
\* The types; a list of the cache holds every buffer once.
TypeOK ==
  /\ buf \in [Bufs -> [blockno : Blocks \cup {None}, valid : BOOLEAN, refcnt : 0 .. Cardinality(Procs) + 1,
                       locked : Procs \cup {None}, disk : BOOLEAN, data : Data]]
  /\ Len(lru) = NBUF /\ ToSet(lru) = Bufs
  /\ free \subseteq Idx
  /\ Len(avail) + Len(used) <= NUM

\* A valid buffer has what was last put into its block, whoever put it there
\* and whatever was recycled since; a block that no valid buffer has is on the
\* disk as it was last changed, and so is what an unreferenced buffer holds.
CacheCoherent ==
  /\ \A x \in Bufs : buf[x].valid /\ buf[x].blockno # None =>
        /\ buf[x].data = truth[buf[x].blockno]
        /\ buf[x].refcnt = 0 => disk[buf[x].blockno] = buf[x].data
  /\ \A n \in Blocks : (\A x \in Cached(n) : ~buf[x].valid) => disk[n] = truth[n]

\* Whoever sleeps will be woken: on a buffer's lock because another process
\* holds it; for descriptors because a request is in progress; for the device
\* because its request is with the device, or is in the used ring and the
\* interrupt handler is running or an interrupt is still to come.
SleepersHaveWaker ==
  \A p \in Procs :
    /\ pc[p] = "lockwait" => Buf(p).locked \notin {None, p}
    /\ pc[p] = "descwait" => \E q \in Procs : pc[q] \in {"disk", "diskwait"}
    /\ pc[p] = "diskwait" =>
         /\ Buf(p).disk
         /\ idx[p] \in ToSet(avail) \/ (idx[p] \in ToSet(used) /\ (irq \/ intr))

\* Every descriptor is free or belongs to the chain of one request, and no
\* buffer is referenced by fewer than use it: free_desc, virtio_disk_intr and
\* bget never panic while the pins and the processes leave a buffer over.
NeverPanics ==
  /\ ~panic
  /\ \A p \in Procs : pc[p] \in {"disk", "diskwait"} => Cardinality(Chain(idx[p])) = 3
=============================================================================
