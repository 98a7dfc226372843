------------------------------ MODULE Umalloc ------------------------------
(***************************************************************************)
(* malloc and free of the user library (user/umalloc.c): one circular list *)
(* of free blocks, ordered by address, that starts at base.                *)
(*                                                                         *)
(* Addresses count Headers; base is at 0, below the heap.  A block is its  *)
(* header and what follows it; the program may also move the break itself. *)
(***************************************************************************)
EXTENDS Integers, FiniteSets

CONSTANTS MORECORE,    \* 4096: the least morecore asks for
          Break,       \* where the heap begins
          Limit,       \* sbrk fails beyond it
          Requests     \* the nunits asked for

VARIABLES freep, ptr, size,   \* the list; size also of the blocks in use
          brk,
          live,        \* headers of the blocks in use
          core,        \* history: the Headers got from sbrk by morecore
          failed       \* history: the last malloc returned 0 for this nunits, or 0

vars == <<freep, ptr, size, brk, live, core, failed>>

base == 0
Addr == Break .. Limit - 1
None == -1

Init ==
  /\ freep = None
  /\ ptr = [a \in {base} \cup Addr |-> None] /\ size = [a \in {base} \cup Addr |-> 0]
  /\ brk = Break /\ live = {} /\ core = {} /\ failed = 0

\* The variables malloc and free work on.
Heap == [freep |-> freep, ptr |-> ptr, size |-> size, brk |-> brk, core |-> core, at |-> None]

-----------------------------------------------------------------------------
\* The block after which bp belongs, looking from p on.
RECURSIVE Place(_, _, _)
Place(h, bp, p) ==
  IF \/ bp > p /\ bp < h.ptr[p]
     \/ p >= h.ptr[p] /\ (bp > p \/ bp < h.ptr[p])
  THEN p ELSE Place(h, bp, h.ptr[p])

\* free: put bp after p, joined with the next block and with p if they touch.
\* What a joined block had in its header is not looked at again.
Join(h, bp, p) ==
  LET up(g, nxt) ==
        IF bp + g.size[bp] = nxt
        THEN [g EXCEPT !.size[bp] = @ + g.size[nxt], !.ptr[bp] = g.ptr[nxt],
                       !.size[nxt] = 0, !.ptr[nxt] = None]
        ELSE [g EXCEPT !.ptr[bp] = nxt]
      down(g) ==
        IF p + g.size[p] = bp
        THEN [g EXCEPT !.size[p] = @ + g.size[bp], !.ptr[p] = g.ptr[bp], !.freep = p,
                       !.size[bp] = 0, !.ptr[bp] = None]
        ELSE [g EXCEPT !.ptr[p] = bp, !.freep = p]
  IN down(up(h, h.ptr[p]))

FreeBlock(h, bp) == Join(h, bp, Place(h, bp, h.freep))

\* morecore, when sbrk does not fail.
Units(nu) == IF nu < MORECORE THEN MORECORE ELSE nu
Morecore(h, nu) ==
  FreeBlock([h EXCEPT !.size[h.brk] = Units(nu), !.brk = @ + Units(nu),
                      !.core = @ \cup (h.brk .. h.brk + Units(nu) - 1)], h.brk)

\* Mutant: the block that is split keeps its size.
CarveUnshrunk(h, prevp, p, nunits) ==
  IF h.size[p] = nunits
  THEN [h EXCEPT !.ptr[p] = None, !.ptr[prevp] = h.ptr[p], !.freep = prevp, !.at = p]
  ELSE LET tail == p + h.size[p] - nunits
       IN [h EXCEPT !.size[tail] = nunits, !.freep = prevp, !.at = tail]

\* The block p is large enough: all of it is given, or its tail.
Carve(h, prevp, p, nunits) ==
  IF h.size[p] = nunits
  THEN [h EXCEPT !.ptr[p] = None, !.ptr[prevp] = h.ptr[p], !.freep = prevp, !.at = p]
  ELSE LET tail == p + h.size[p] - nunits
       IN [h EXCEPT !.size[p] = @ - nunits, !.size[tail] = nunits, !.freep = prevp, !.at = tail]

\* The loop of malloc, at the block p that follows prevp.
RECURSIVE Search(_, _, _, _)
Search(h, prevp, p, nunits) ==
  LET on(g, q) == Search(g, q, g.ptr[q], nunits)
      more(g) == on(g, g.freep)
  IN IF h.size[p] >= nunits THEN Carve(h, prevp, p, nunits)
     ELSE IF p # h.freep THEN on(h, p)
     ELSE IF h.brk + Units(nunits) > Limit THEN h
     ELSE more(Morecore(h, nunits))

Started(h) == IF h.freep # None THEN h
              ELSE [h EXCEPT !.freep = base, !.ptr[base] = base, !.size[base] = 0]

\* A call of malloc or free leaves the heap h.
Becomes(h) == freep' = h.freep /\ ptr' = h.ptr /\ size' = h.size /\ brk' = h.brk /\ core' = h.core

Malloc(nunits) ==
  \E h \in {LET s == Started(Heap) IN Search(s, s.freep, s.ptr[s.freep], nunits)} :
    /\ Becomes(h)
    /\ live' = IF h.at = None THEN live ELSE live \cup {h.at}
    /\ failed' = IF h.at = None THEN nunits ELSE 0

Free(bp) ==
  /\ bp \in live
  /\ Becomes(FreeBlock(Heap, bp))
  /\ live' = live \ {bp} /\ failed' = 0

\* The program calls sbrk itself.
Sbrk ==
  /\ brk < Limit
  /\ brk' = brk + 1 /\ failed' = 0
  /\ UNCHANGED <<freep, ptr, size, live, core>>

Next == Sbrk \/ (\E n \in Requests : Malloc(n)) \/ (\E a \in live : Free(a))

Spec == Init /\ [][Next]_vars

-----------------------------------------------------------------------------
\* The blocks on the list, from base on, and whether it comes back to base.
RECURSIVE ListFrom(_, _)
ListFrom(a, seen) == IF a \in seen \cup {None} THEN seen ELSE ListFrom(ptr[a], seen \cup {a})
FreeBlocks == IF freep = None THEN {} ELSE ListFrom(ptr[base], {base}) \ {base}

Extent(a) == a .. a + size[a] - 1

\* Every Header got from sbrk belongs to exactly one block, free or in use: no
\* two blocks that malloc gave out share memory, none overlaps what is free,
\* and splitting and joining lose nothing.
HeapPartition ==
  LET blocks == FreeBlocks \cup live
  IN /\ FreeBlocks \cap live = {}
     /\ \A a, c \in blocks : a # c => Extent(a) \cap Extent(c) = {}
     /\ UNION {Extent(a) : a \in blocks} = core

\* The list is in the order of addresses and comes back to base, freep is on
\* it, and no free block touches the next: free joined all it could.
ListCoalesced ==
  freep # None =>
    /\ freep \in FreeBlocks \cup {base}
    /\ \A a \in FreeBlocks \cup {base} :
         IF ptr[a] = base THEN \A c \in FreeBlocks : c <= a
         ELSE a < ptr[a] /\ ptr[a] # a + size[a] /\ \A c \in FreeBlocks : ~(a < c /\ c < ptr[a])

\* malloc returns 0 only if no free block is large enough and sbrk refuses.
MallocHonest ==
  failed # 0 => brk + Units(failed) > Limit /\ \A a \in FreeBlocks : size[a] < failed
=============================================================================
