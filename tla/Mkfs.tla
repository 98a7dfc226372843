-------------------------------- MODULE Mkfs --------------------------------
(***************************************************************************)
(* The image builder (mkfs/mkfs.c): the disk that holds the given files in *)
(* the root directory.  The state of the builder is the image and the next *)
(* free block; blocks and inodes are handed out in order and the bitmap is *)
(* written once, at the end.                                               *)
(***************************************************************************)
EXTENDS Inodes

\* ialloc: inode inum with one link and no data.
MkIalloc(m, inum, type) ==
    [m EXCEPT !.inode[inum] = [FreeInode EXCEPT !.type = type, !.nlink = 1]]

\* iappend, one cell: block fbn of the file, allocated if there is none.
MkDirect(m, inum, a) ==
    IF m.inode[inum].addrs[a] # 0 THEN m
    ELSE [m EXCEPT !.inode[inum].addrs[a] = m.freeblock, !.freeblock = @ + 1]

MkIndirect(m, inum, n) ==
    LET t   == MkDirect(m, inum, NDIRECT)
        ind == t.inode[inum].addrs[NDIRECT]
    IN  IF t.data[ind][n].n # 0 THEN t
        ELSE [t EXCEPT !.data[ind][n] = Cell(t.freeblock), !.freeblock = @ + 1]

RECURSIVE Iappend(_, _, _)
Iappend(m, inum, cells) ==
    LET off == m.inode[inum].size
        fbn == off \div BSIZE
        t   == IF fbn < NDIRECT THEN MkDirect(m, inum, fbn)
               ELSE MkIndirect(m, inum, fbn - NDIRECT)
        x   == IF fbn < NDIRECT THEN t.inode[inum].addrs[fbn]
               ELSE t.data[t.inode[inum].addrs[NDIRECT]][fbn - NDIRECT].n
    IN  IF cells = <<>> THEN m
        ELSE Iappend([t EXCEPT !.data[x][off % BSIZE] = Head(cells),
                               !.inode[inum].size = @ + 1], inum, Tail(cells))

\* The loop of main over its arguments: an inode, its name, its contents.
RECURSIVE AddFiles(_, _, _)
AddFiles(m, files, inum) ==
    LET f == Head(files)
        t == Iappend(MkIalloc(m, inum, "file"), ROOTINO, <<Entry(f.name, inum)>>)
    IN  IF files = <<>> THEN m
        ELSE AddFiles(Iappend(t, inum, f.cells), Tail(files), inum + 1)

\* main: the root directory, the files, the size of the root rounded to the
\* next multiple of a block, the bitmap.
Mkfs(files) ==
    LET empty == [inode |-> [n \in Inums |-> FreeInode], freeblock |-> NMETA,
                  data |-> [b \in DataBlocks |-> ZeroBlock]]
        root  == Iappend(MkIalloc(empty, ROOTINO, "dir"), ROOTINO,
                         <<Entry(".", ROOTINO), Entry("..", ROOTINO)>>)
        all   == AddFiles(root, files, ROOTINO + 1)
        size  == (all.inode[ROOTINO].size \div BSIZE + 1) * BSIZE
    IN  [inode |-> [all.inode EXCEPT ![ROOTINO].size = size],
         used  |-> 0 .. all.freeblock - 1,
         data  |-> all.data]
=============================================================================
