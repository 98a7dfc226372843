------------------------------- MODULE Inodes -------------------------------
(***************************************************************************)
(* The inode and directory layer of the file system (kernel/fs.c), as      *)
(* operators on the record s of everything that layer reads and writes:    *)
(*                                                                         *)
(*   s.inode   the disk inodes (as seen through the buffer cache)          *)
(*   s.used    the blocks whose bit is set in the free bitmap              *)
(*   s.data    the contents of the data blocks                             *)
(*   s.it      the inode table: ref, inum, valid and the cached fields     *)
(*   s.wr      the blocks the running system call passed to log_write      *)
(*   s.intx    some system call is inside a transaction                    *)
(*   s.panic   the message of the panic the code reached, or ""            *)
(*                                                                         *)
(* Every caller holds the sleep-lock of the inode it names, so each        *)
(* operator is one uninterrupted piece of a system call (FileSys says      *)
(* where the calls may interleave).  A block is BSIZE cells; a cell is one *)
(* byte of a file, one directory entry or one block number.  An operator   *)
(* that also returns a value returns [s |-> ..., r |-> value].             *)
(***************************************************************************)
EXTENDS Integers, Sequences, FiniteSets, FiniteSetsExt

CONSTANTS NINODES,     \* sb.ninodes: the inode numbers are 1 .. NINODES-1
          FSSIZE,      \* sb.size: blocks on the disk
          NLOG,        \* blocks of the log
          BSIZE,       \* cells of a block
          NDIRECT,     \* direct addresses of an inode
          NINDIRECT,   \* addresses in the indirect block
          IPB,         \* inodes of an inode block
          NINODE       \* entries of the in-memory inode table

\* The disk: boot block, superblock, log, inode blocks, bitmap, data.
INODESTART == 2 + NLOG
BMAPSTART  == INODESTART + NINODES \div IPB + 1
NMETA      == BMAPSTART + 1

Inums      == 1 .. NINODES - 1
Entries    == 1 .. NINODE
DataBlocks == NMETA .. FSSIZE - 1
MAXFILE    == NDIRECT + NINDIRECT
ROOTINO    == 1

\* The block of the inode numbered inum, and the only bitmap block.
IBLOCK(inum) == INODESTART + inum \div IPB
BBLOCK       == BMAPSTART

Cell(n)   == [n |-> n, name |-> ""]
Entry(name, inum) == [n |-> inum, name |-> name]
ZeroBlock == [c \in 0 .. BSIZE - 1 |-> Cell(0)]

\* struct dinode after memset(0), and an inode table entry never used.
FreeInode == [type |-> "free", major |-> 0, nlink |-> 0, size |-> 0,
              addrs |-> [a \in 0 .. NDIRECT |-> 0]]
NoInode   == [inum |-> 0, ref |-> 0, valid |-> FALSE, di |-> FreeInode]

Panic(s, msg) == IF s.panic = "" THEN [s EXCEPT !.panic = msg] ELSE s

\* log_write: the block joins the running transaction.
LogWrite(s, b) ==
    IF s.intx THEN [s EXCEPT !.wr = @ \cup {b}]
              ELSE Panic(s, "log_write outside of trans")

---------------------------------------------------------------------------
(* Blocks.                                                                 *)

\* balloc: the lowest free block, zeroed; 0 when the disk is full.
Balloc(s) ==
    LET free    == (0 .. FSSIZE - 1) \ s.used
        take(b) == [s EXCEPT !.used = @ \cup {b}, !.data[b] = ZeroBlock]
        log(b)  == [s |-> LogWrite(LogWrite(take(b), BBLOCK), b), r |-> b]
    IN  IF free = {} THEN [s |-> s, r |-> 0] ELSE log(Min(free))

Bfree(s, b) ==
    IF b \in s.used THEN LogWrite([s EXCEPT !.used = @ \ {b}], BBLOCK)
                    ELSE Panic(s, "freeing free block")

---------------------------------------------------------------------------
(* The inode table.                                                        *)

Iupdate(s, i) ==
    LET inum == s.it[i].inum
    IN  LogWrite([s EXCEPT !.inode[inum] = s.it[i].di], IBLOCK(inum))

Iget(s, inum) ==
    LET cached  == {i \in Entries : s.it[i].ref > 0 /\ s.it[i].inum = inum}
        empty   == {i \in Entries : s.it[i].ref = 0}
        hit(i)  == [s |-> [s EXCEPT !.it[i].ref = @ + 1], r |-> i]
        miss(i) == [s |-> [s EXCEPT !.it[i] = [@ EXCEPT !.inum = inum, !.ref = 1,
                                                         !.valid = FALSE]],
                    r |-> i]
    IN  IF cached # {} THEN hit(Min(cached))
        ELSE IF empty # {} THEN miss(Min(empty))
        ELSE [s |-> Panic(s, "iget: no inodes"), r |-> 1]

Idup(s, i) == [s EXCEPT !.it[i].ref = @ + 1]

\* ialloc: the lowest free disk inode gets its type and a table entry;
\* 0 when there is none.
Ialloc(s, type) ==
    LET free       == {n \in Inums : s.inode[n].type = "free"}
        mark(inum) == [s EXCEPT !.inode[inum] = [FreeInode EXCEPT !.type = type]]
        take(inum) == Iget(LogWrite(mark(inum), IBLOCK(inum)), inum)
    IN  IF free = {} THEN [s |-> s, r |-> 0] ELSE take(Min(free))

\* ilock, once the sleep-lock is held: read the inode unless it is cached.
Ilock(s, i) ==
    LET di == s.inode[s.it[i].inum]
        t  == [s EXCEPT !.it[i].di = di, !.it[i].valid = TRUE]
    IN  IF s.it[i].ref < 1 THEN Panic(s, "ilock")
        ELSE IF s.it[i].valid THEN s
        ELSE IF di.type = "free" THEN Panic(t, "ilock: no type") ELSE t

\* The test of iput, made under itable.lock: the last reference to an inode
\* without links.
LastUnlinked(s, i) == /\ s.it[i].ref = 1
                      /\ s.it[i].valid
                      /\ s.it[i].di.nlink = 0

AddLinks(s, i, n) == Iupdate([s EXCEPT !.it[i].di.nlink = @ + n], i)

---------------------------------------------------------------------------
(* Inode content.                                                          *)

\* bmap: the block holding block bn of the file, allocating it (and the
\* indirect block) if there is none; 0 when the disk is full.
BmapDirect(s, i, a) ==
    LET keep(al) == IF al.r = 0 THEN al ELSE [al EXCEPT !.s.it[i].di.addrs[a] = al.r]
    IN  IF s.it[i].di.addrs[a] # 0 THEN [s |-> s, r |-> s.it[i].di.addrs[a]]
        ELSE keep(Balloc(s))

BmapIndirect(s, i, n) ==
    LET keep(ind, al) ==
            IF al.r = 0 THEN al
            ELSE [al EXCEPT !.s = LogWrite([al.s EXCEPT !.data[ind][n] = Cell(al.r)], ind)]
        find(ind) ==
            IF ind.r = 0 THEN ind
            ELSE IF ind.s.data[ind.r][n].n # 0 THEN [ind EXCEPT !.r = ind.s.data[ind.r][n].n]
            ELSE keep(ind.r, Balloc(ind.s))
    IN  find(BmapDirect(s, i, NDIRECT))

Bmap(s, i, bn) ==
    CASE bn < NDIRECT -> BmapDirect(s, i, bn)
      [] bn >= NDIRECT /\ bn < MAXFILE -> BmapIndirect(s, i, bn - NDIRECT)
      [] OTHER -> [s |-> Panic(s, "bmap: out of range"), r |-> 0]

RECURSIVE BfreeAll(_, _)
BfreeAll(s, blocks) ==
    IF blocks = <<>> THEN s ELSE BfreeAll(Bfree(s, Head(blocks)), Tail(blocks))

\* itrunc: free the direct blocks, what the indirect block lists, and the
\* indirect block; the inode is written back empty.
Itrunc(s, i) ==
    LET addrs  == s.it[i].di.addrs
        ind    == addrs[NDIRECT]
        direct == [a \in 1 .. NDIRECT |-> addrs[a - 1]]
        listed == IF ind = 0 THEN <<>>
                  ELSE [a \in 1 .. NINDIRECT |-> s.data[ind][a - 1].n]
        blocks == SelectSeq(direct \o listed \o <<ind>>, LAMBDA b : b # 0)
        t      == BfreeAll(s, blocks)
    IN  Iupdate([t EXCEPT !.it[i].di.addrs = FreeInode.addrs,
                          !.it[i].di.size = 0], i)

\* readi: up to n cells from off; a hole is filled by bmap.
RECURSIVE ReadCells(_, _, _, _, _)
ReadCells(s, i, off, n, got) ==
    LET more(m) == IF m.r = 0 THEN [s |-> m.s, r |-> got]
                   ELSE ReadCells(m.s, i, off + 1, n - 1,
                                  Append(got, m.s.data[m.r][off % BSIZE]))
    IN  IF n = 0 THEN [s |-> s, r |-> got] ELSE more(Bmap(s, i, off \div BSIZE))

Readi(s, i, off, n) ==
    LET size == s.it[i].di.size
    IN  IF off > size THEN [s |-> s, r |-> <<>>]
        ELSE ReadCells(s, i, off, IF off + n > size THEN size - off ELSE n, <<>>)

\* writei: the cells of buf at off, block by block, stopping when the disk is
\* full or, with a bad user address, at the first copy; then the size and the
\* inode.  Returns the cells written, -1 past the end or the size limit.
RECURSIVE WriteCells(_, _, _, _, _)
WriteCells(s, i, off, buf, tot) ==
    LET put(m)  == LogWrite([m.s EXCEPT !.data[m.r][off % BSIZE] = Head(buf)], m.r)
        more(m) == IF m.r = 0 THEN [s |-> m.s, r |-> tot]
                   ELSE WriteCells(put(m), i, off + 1, Tail(buf), tot + 1)
    IN  IF buf = <<>> THEN [s |-> s, r |-> tot] ELSE more(Bmap(s, i, off \div BSIZE))

Writei(s, i, off, buf, bad) ==
    LET size    == s.it[i].di.size
        grow(w) == [s |-> Iupdate([w.s EXCEPT !.it[i].di.size = Max({@, off + w.r})], i),
                    r |-> w.r]
    IN  IF off > size \/ off + Len(buf) > MAXFILE * BSIZE THEN [s |-> s, r |-> -1]
        ELSE IF bad /\ buf # <<>> THEN grow([s |-> Bmap(s, i, off \div BSIZE).s, r |-> 0])
        ELSE grow(WriteCells(s, i, off, buf, 0))

---------------------------------------------------------------------------
(* Directories.                                                            *)

\* dirlookup, without the iget of what it finds: the offset of the entry, or
\* -1.  Reading the directory may fill a hole, so the state is returned too.
Dirlookup(s, dp, name) ==
    LET size      == s.it[dp].di.size
        hits(r)   == {o \in DOMAIN r : r[o].n # 0 /\ r[o].name = name}
        found(rd, o) == [s |-> rd.s, r |-> o - 1, inum |-> rd.r[o].n]
        none(rd)  == [s |-> IF Len(rd.r) < size THEN Panic(rd.s, "dirlookup read") ELSE rd.s,
                      r |-> -1, inum |-> 0]
        scan(rd)  == IF hits(rd.r) = {} THEN none(rd) ELSE found(rd, Min(hits(rd.r)))
    IN  scan(Readi(IF s.it[dp].di.type # "dir" THEN Panic(s, "dirlookup not DIR") ELSE s,
                   dp, 0, size))

\* dirlink: the first free entry, or a new one at the end.
Dirlink(s, dp, name, inum) ==
    LET size    == s.it[dp].di.size
        free(r) == {o \in 0 .. Len(r) - 1 : r[o + 1].n = 0}
        put(t, off) == Writei(t, dp, off, <<Entry(name, inum)>>, FALSE)
        done(w) == [s |-> w.s, r |-> IF w.r = 1 THEN 0 ELSE -1]
        add(rd) == done(put(rd.s, Min(free(rd.r) \cup {size})))
        try(lk) == IF lk.r # -1 THEN [s |-> lk.s, r |-> -1] ELSE add(Readi(lk.s, dp, 0, size))
    IN  try(Dirlookup(s, dp, name))

\* isdirempty: no entry after "." and "..".
Isdirempty(s, dp) ==
    LET rd == Readi(s, dp, 2, s.it[dp].di.size)
    IN  \A o \in DOMAIN rd.r : rd.r[o].n = 0

---------------------------------------------------------------------------
(* What the disk means, for the properties: the blocks of an inode, and    *)
(* the entries of the directories.                                         *)

Indirect(d, inum) ==
    LET ind == d.inode[inum].addrs[NDIRECT]
    IN  IF ind = 0 THEN <<>> ELSE [a \in 1 .. NINDIRECT |-> d.data[ind][a - 1].n]

BlocksOf(d, inum) ==
    SelectSeq([a \in 1 .. NDIRECT + 1 |-> d.inode[inum].addrs[a - 1]]
              \o Indirect(d, inum), LAMBDA b : b # 0)

Allocated(d) == {n \in Inums : d.inode[n].type # "free"}

\* The cell at offset off of inode inum; the zero cell in a hole.
CellAt(d, inum, off) ==
    LET bn == off \div BSIZE
        b  == IF bn < NDIRECT THEN d.inode[inum].addrs[bn]
              ELSE Indirect(d, inum)[bn - NDIRECT + 1]
    IN  IF b = 0 THEN Cell(0) ELSE d.data[b][off % BSIZE]

DirEntries(d, dir) ==
    {[off |-> o, name |-> CellAt(d, dir, o).name, inum |-> CellAt(d, dir, o).n] :
        o \in {o \in 0 .. d.inode[dir].size - 1 : CellAt(d, dir, o).n # 0}}

Dirs(d) == {n \in Allocated(d) : d.inode[n].type = "dir"}

\* No block belongs to two files or twice to one, and the bitmap marks
\* exactly the metadata and the blocks of the files.
BlocksExact(d) ==
    LET owned(n) == {BlocksOf(d, n)[k] : k \in DOMAIN BlocksOf(d, n)}
    IN  /\ d.used = (0 .. NMETA - 1) \cup UNION {owned(n) : n \in Allocated(d)}
        /\ \A n \in Allocated(d) : Len(BlocksOf(d, n)) = Cardinality(owned(n))
        /\ \A m, n \in Allocated(d) : m # n => owned(m) \cap owned(n) = {}

\* The entries that name inum: "." apart, and ".." of a removed directory.
NamesOf(d, inum) ==
    {<<dir, e>> \in UNION {{dir} \X DirEntries(d, dir) : dir \in Dirs(d)} :
        /\ e.inum = inum /\ e.name # "."
        /\ e.name = ".." => d.inode[dir].nlink > 0}

\* The link count of every allocated inode outside the set lost is the number
\* of its names, and no name is dangling.
LinksExact(d, lost) ==
    /\ \A n \in Allocated(d) \ lost : d.inode[n].nlink = Cardinality(NamesOf(d, n))
    /\ \A dir \in Dirs(d) \ lost : \A e \in DirEntries(d, dir) :
          d.inode[dir].nlink > 0 => e.inum \in Allocated(d)

\* A directory starts with "." and "..", and names no entry twice.
DirsWellFormed(d) ==
    \A dir \in Dirs(d) :
        /\ d.inode[dir].size >= 2 => /\ CellAt(d, dir, 0) = Entry(".", dir)
                                     /\ CellAt(d, dir, 1).name = ".."
        /\ \A e, f \in DirEntries(d, dir) : e.name = f.name => e = f
=============================================================================
