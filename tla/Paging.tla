------------------------------- MODULE Paging -------------------------------
(***************************************************************************)
(* Page frames, page faults and page replacement: kernel/kalloc.c and      *)
(* kernel/vm.c, with sbrk, fork, exec and exit as their users.             *)
(*                                                                         *)
(* A process p in the kernel is at kt[p].pc; a step is one critical        *)
(* section (framelock, kmem.lock or swaplock) or one access to a page      *)
(* table or a page between two of them.  The swap disk is the one SwapDisk *)
(* promises: a slot keeps the page written to it until it is freed.  A     *)
(* page holds one value; page-table pages, trapframes and TLBs are left    *)
(* out.  The pages of a process share one page-table page.                 *)
(***************************************************************************)
EXTENDS Integers, Sequences, FiniteSets, Clock

CONSTANTS Procs, Root,     \* Root is the process that exists at the start
          NCPU,
          Pages,           \* virtual pages are 0..(Pages - 1)
          NFrames,         \* physical pages are 1..NFrames
          MAX_SWAP,
          Workloads,       \* each one the system calls in use, and how many of the swap slots
          KernelPreempt,   \* timer interrupts preempt a process inside the kernel
          NoProc

ASSUME PagingAssumption ==
  /\ Root \in Procs /\ NoProc \notin Procs
  /\ NCPU \in Nat \ {0} /\ Pages \in Nat \ {0} /\ NFrames \in Nat \ {0} /\ MAX_SWAP \in Nat
  /\ KernelPreempt \in BOOLEAN
  /\ \A w \in Workloads : /\ w.ops \subseteq {"lazy", "eager", "shrink", "fork", "exit", "exec"}
                         /\ w.slots \in 0..MAX_SWAP

VAs == 0..(Pages - 1)
Frames == 1..NFrames
NoFrame == 0
Slots == 0..(MAX_SWAP - 1)
Values == {0, 1}
Junk == 2

VARIABLES
  load,                  \* the workload
  status, running,       \* p->state
  sz, table, pagetable,  \* p->sz in pages, and p->pagetable among two tables
  acc,                   \* the <<p, t, va>> whose PTE_A is set
  frametable, clock_hand, active_frames, resident_pages,
  freelist, mem, swaptable, slotdata,
  kt,                    \* the kernel threads' local variables
  panic,
  expect                 \* what each process has last written to its pages

procvars == <<status, running, sz, table>>
framevars == <<frametable, clock_hand, active_frames, resident_pages>>
swapvars == <<swaptable, slotdata>>
vars == <<load, procvars, pagetable, acc, framevars, freelist, mem, swapvars, kt, panic, expect>>

None == [k |-> "none", n |-> 0]
Mem(pa) == [k |-> "mem", n |-> pa]
Swap(s) == [k |-> "swap", n |-> s]
PTEs == {None} \cup {Mem(pa) : pa \in Frames} \cup {Swap(s) : s \in Slots}

PCs == {"user", "count", "kalloc", "evict", "slot", "write", "setpte", "stats", "return", "revert", "fail",
        "have", "free", "register", "copy", "commit", "unmap", "ftfree", "kfree", "putfree", "clear"}
Idle == [pc |-> "user", op |-> "none", va |-> 0, end |-> 0, tgt |-> NoProc, tab |-> 0, tries |-> 0,
         idx |-> 0, vp |-> NoProc, vtab |-> 0, vva |-> 0, pa |-> NoFrame, src |-> NoFrame, ref |-> FALSE,
         slot |-> 0, from |-> None]

Unused == [used |-> FALSE, proc |-> NoProc, va |-> 0, pa |-> NoFrame]

TypeOK ==
  /\ load \in Workloads
  /\ status \in [Procs -> {"unused", "embryo", "alive", "zombie"}]
  /\ running \subseteq Procs /\ Cardinality(running) <= NCPU
  /\ sz \in [Procs -> 0..Pages]
  /\ table \in [Procs -> {0, 1}]
  /\ pagetable \in [Procs -> [{0, 1} -> [VAs -> PTEs]]]
  /\ acc \subseteq Procs \X {0, 1} \X VAs
  /\ frametable \in [FrameIdx -> [used : BOOLEAN, proc : Procs \cup {NoProc}, va : VAs,
                                  pa : Frames \cup {NoFrame}]]
  /\ clock_hand \in FrameIdx
  /\ active_frames \in 0..MAX_FRAMES
  /\ resident_pages \in [Procs -> 0..MAX_FRAMES]
  /\ freelist \in Seq(Frames) /\ Len(freelist) <= NFrames
  /\ mem \in [Frames -> Values \cup {Junk}]
  /\ swaptable \subseteq Slots
  /\ slotdata \in [Slots -> Values \cup {Junk}]
  /\ kt \in [Procs -> [pc : PCs, op : {"none", "fault", "grow", "shrink", "fork", "forkfault", "forkfail", "reap",
                                       "exec", "execfail"},
                       va : 0..Pages, end : 0..Pages, tgt : Procs \cup {NoProc}, tab : {0, 1}, tries : 0..2,
                       idx : FrameIdx, vp : Procs \cup {NoProc}, vtab : {0, 1}, vva : VAs,
                       pa : Frames \cup {NoFrame}, src : Frames \cup {NoFrame}, ref : BOOLEAN, slot : Slots \cup {0},
                       from : PTEs]]
  /\ expect \in [Procs -> [VAs -> Values]]

\* One process, with one page in frame 0 of the frame table.
Init ==
  /\ load \in Workloads
  /\ status = [p \in Procs |-> IF p = Root THEN "alive" ELSE "unused"]
  /\ running = {}
  /\ sz = [p \in Procs |-> IF p = Root THEN 1 ELSE 0]
  /\ table = [p \in Procs |-> 0]
  /\ pagetable = [p \in Procs |-> [t \in {0, 1} |-> [va \in VAs |->
                    IF p = Root /\ t = 0 /\ va = 0 THEN Mem(1) ELSE None]]]
  /\ acc = {}
  /\ frametable = [i \in FrameIdx |-> IF i = 0 THEN [used |-> TRUE, proc |-> Root, va |-> 0, pa |-> 1]
                                      ELSE Unused]
  /\ clock_hand = 0
  /\ active_frames = 1
  /\ resident_pages = [p \in Procs |-> IF p = Root THEN 1 ELSE 0]
  /\ freelist = [i \in 1..(NFrames - 1) |-> i + 1]
  /\ mem = [pa \in Frames |-> IF pa = 1 THEN 0 ELSE Junk]
  /\ swaptable = {}
  /\ slotdata = [s \in Slots |-> 0]
  /\ kt = [p \in Procs |-> Idle]
  /\ panic = "no"
  /\ expect = [p \in Procs |-> [va \in VAs |-> 0]]

At(p, pc) == panic = "no" /\ p \in running /\ kt[p].pc = pc

\* p goes on at pc, with some of its local variables changed.
Goto(p, k) == kt' = [kt EXCEPT ![p] = k]

Panic(why) ==
  /\ panic' = why
  /\ UNCHANGED <<procvars, pagetable, acc, framevars, freelist, mem, swapvars, kt, expect>>

SetPTE(p, t, va, pte) == pagetable' = [pagetable EXCEPT ![p][t][va] = pte]

-----------------------------------------------------------------------------
(* Scheduling.  A page fault from user mode runs with interrupts off, fork *)
(* holds the child's lock and wait the zombie's.                           *)

Dispatch(p) ==
  /\ panic = "no"
  /\ status[p] = "alive" /\ p \notin running /\ Cardinality(running) < NCPU
  /\ running' = running \cup {p}
  /\ UNCHANGED <<status, sz, table, pagetable, acc, framevars, freelist, mem, swapvars, kt, panic, expect>>

Yield(p) ==
  /\ panic = "no" /\ p \in running
  /\ kt[p].pc = "user" \/ (KernelPreempt /\ kt[p].op \in {"grow", "shrink", "exec", "execfail"})
  /\ running' = running \ {p}
  /\ UNCHANGED <<status, sz, table, pagetable, acc, framevars, freelist, mem, swapvars, kt, panic, expect>>

\* A load or store of user code: it sets PTE_A, or enters vmfault.
Access(p, va, v) ==
  /\ At(p, "user")
  /\ va < sz[p]
  /\ LET pte == pagetable[p][table[p]][va]
     IN IF pte.k = "mem"
        THEN /\ acc' = acc \cup {<<p, table[p], va>>}
             /\ mem' = [mem EXCEPT ![pte.n] = v]
             /\ expect' = [expect EXCEPT ![p][va] = v]
             /\ UNCHANGED kt
        ELSE /\ Goto(p, [kt[p] EXCEPT !.pc = "count", !.op = "fault", !.va = va, !.from = pte])
             /\ UNCHANGED <<acc, mem, expect>>
  /\ UNCHANGED <<procvars, pagetable, framevars, freelist, swapvars, panic>>

-----------------------------------------------------------------------------
(* get_frame, kalloc and clock_evict.                                      *)

\* Mutant: one frame too many.
GetFrameLate(p) ==
  /\ At(p, "count")
  /\ Goto(p, IF active_frames <= MAX_FRAMES THEN [kt[p] EXCEPT !.pc = "kalloc"]
             ELSE [kt[p] EXCEPT !.pc = "evict", !.tries = 1])
  /\ UNCHANGED <<procvars, pagetable, acc, framevars, freelist, mem, swapvars, panic, expect>>

GetFrame(p) ==
  /\ At(p, "count")
  /\ Goto(p, IF active_frames < MAX_FRAMES THEN [kt[p] EXCEPT !.pc = "kalloc"]
             ELSE [kt[p] EXCEPT !.pc = "evict", !.tries = 1])
  /\ UNCHANGED <<procvars, pagetable, acc, framevars, freelist, mem, swapvars, panic, expect>>

\* kalloc itself evicts when the free list is empty, and get_frame tries again.
Kalloc(p) ==
  /\ At(p, "kalloc")
  /\ IF freelist # <<>>
     THEN /\ Goto(p, [kt[p] EXCEPT !.pc = "have", !.pa = Head(freelist)])
          /\ freelist' = Tail(freelist)
          /\ mem' = [mem EXCEPT ![Head(freelist)] = Junk]
     ELSE /\ Goto(p, [kt[p] EXCEPT !.pc = "evict", !.tries = 2])
          /\ UNCHANGED <<freelist, mem>>
  /\ UNCHANGED <<procvars, pagetable, acc, framevars, swapvars, panic, expect>>

\* clock_evict returns 0.
EvictFails(p) == [kt[p] EXCEPT !.tries = @ - 1, !.pc = IF kt[p].tries > 1 THEN "evict" ELSE "fail"]

\* The frames whose owner is not running on another CPU, and those of them
\* that the owner's page table maps.
Owned(p) == {i \in FrameIdx : frametable[i].proc # NoProc /\ frametable[i].proc \notin running \ {p}}
Key(i) == <<frametable[i].proc, table[frametable[i].proc], frametable[i].va>>
Evictable(p) == {i \in Owned(p) : LET k == Key(i) IN pagetable[k[1]][k[2]][k[3]].k = "mem"}

\* The queue levels, which the scheduler changes at any time, are any.
ClockEvict(p, level) ==
  /\ At(p, "evict")
  /\ LET owned == Owned(p)
         scan == ClockScan(clock_hand, Evictable(p), [i \in owned |-> Key(i)], acc,
                           [i \in owned |-> level[frametable[i].proc]])
         best == Victim(scan.best, owned)
     IN /\ acc' = scan.acc
        /\ IF best = -1
           THEN Goto(p, EvictFails(p)) /\ UNCHANGED <<frametable, clock_hand>>
           ELSE /\ clock_hand' = HandPast(best)
                /\ frametable' = [frametable EXCEPT ![best].proc = NoProc]
                /\ Goto(p, [kt[p] EXCEPT !.pc = "slot", !.idx = best, !.vp = frametable[best].proc,
                                         !.vva = frametable[best].va])
  /\ UNCHANGED <<procvars, pagetable, active_frames, resident_pages, freelist, mem, swapvars, panic, expect>>

\* swapout: the victim's PTE, and a free slot.  It returns -1 without either.
SwapoutSlot(p) ==
  /\ At(p, "slot")
  /\ LET v == kt[p].vp
         pte == pagetable[v][table[v]][kt[p].vva]
         free == 0..(load.slots - 1) \ swaptable
         slot == CHOOSE s \in free : \A t \in free : s <= t
     IN IF pte.k # "mem" \/ free = {}
        THEN Goto(p, [kt[p] EXCEPT !.pc = "revert"]) /\ UNCHANGED swaptable
        ELSE /\ swaptable' = swaptable \cup {slot}
             /\ Goto(p, [kt[p] EXCEPT !.pc = "write", !.vtab = table[v], !.pa = pte.n, !.slot = slot])
  /\ UNCHANGED <<procvars, pagetable, acc, framevars, freelist, mem, slotdata, panic, expect>>

SwapoutWrite(p) ==
  /\ At(p, "write")
  /\ slotdata' = [slotdata EXCEPT ![kt[p].slot] = mem[kt[p].pa]]
  /\ Goto(p, [kt[p] EXCEPT !.pc = "setpte"])
  /\ UNCHANGED <<procvars, pagetable, acc, framevars, freelist, mem, swaptable, panic, expect>>

SwapoutSetPTE(p) ==
  /\ At(p, "setpte")
  /\ SetPTE(kt[p].vp, kt[p].vtab, kt[p].vva, Swap(kt[p].slot))
  /\ Goto(p, [kt[p] EXCEPT !.pc = "stats"])
  /\ UNCHANGED <<procvars, acc, framevars, freelist, mem, swapvars, panic, expect>>

EvictStats(p) ==
  /\ At(p, "stats")
  /\ resident_pages' = [resident_pages EXCEPT ![kt[p].vp] = @ - 1]
  /\ frametable' = [frametable EXCEPT ![kt[p].idx].used = FALSE]
  /\ active_frames' = active_frames - 1
  /\ Goto(p, [kt[p] EXCEPT !.pc = "return"])
  /\ UNCHANGED <<procvars, pagetable, acc, clock_hand, freelist, mem, swapvars, panic, expect>>

\* The frame table is read after framelock is released.
EvictReturn(p) ==
  /\ At(p, "return")
  /\ LET pa == frametable[kt[p].idx].pa
     IN Goto(p, IF pa = NoFrame THEN EvictFails(p)
                ELSE [kt[p] EXCEPT !.pc = "have", !.pa = pa, !.tries = 0, !.idx = 0, !.vp = NoProc, !.vtab = 0,
                                   !.vva = 0, !.slot = 0])
  /\ UNCHANGED <<procvars, pagetable, acc, framevars, freelist, mem, swapvars, panic, expect>>

EvictRevert(p) ==
  /\ At(p, "revert")
  /\ frametable' = [frametable EXCEPT ![kt[p].idx].proc = kt[p].vp]
  /\ Goto(p, EvictFails(p))
  /\ UNCHANGED <<procvars, pagetable, acc, clock_hand, active_frames, resident_pages, freelist, mem, swapvars,
                 panic, expect>>

-----------------------------------------------------------------------------
(* What the callers of get_frame do with the frame, or without one.        *)

\* The owner and the page table of the page being added.
Owner(p) == IF kt[p].op = "fork" THEN kt[p].tgt ELSE p
NewTable(p) == IF kt[p].op = "exec" THEN kt[p].tab ELSE table[Owner(p)]

\* Mutant: the slot is not read.
SwapinZero(p) ==
  /\ At(p, "have") /\ kt[p].op \in {"fault", "forkfault"} /\ kt[p].from.k = "swap"
  /\ mem' = [mem EXCEPT ![kt[p].pa] = 0]
  /\ Goto(p, [kt[p] EXCEPT !.pc = "free"])
  /\ UNCHANGED <<procvars, pagetable, acc, framevars, freelist, swapvars, panic, expect>>

\* swapin, in vmfault.
Swapin(p) ==
  /\ At(p, "have") /\ kt[p].op \in {"fault", "forkfault"} /\ kt[p].from.k = "swap"
  /\ IF kt[p].from.n \notin swaptable THEN Panic("swapin")
     ELSE /\ mem' = [mem EXCEPT ![kt[p].pa] = slotdata[kt[p].from.n]]
          /\ Goto(p, [kt[p] EXCEPT !.pc = "free"])
          /\ UNCHANGED <<procvars, pagetable, acc, framevars, freelist, swapvars, panic, expect>>

\* Mutant: the slot is not freed.
SwapFreeLeaks(p) ==
  /\ At(p, "free")
  /\ SetPTE(p, table[p], kt[p].va, Mem(kt[p].pa))
  /\ Goto(p, [kt[p] EXCEPT !.pc = "register"])
  /\ UNCHANGED <<procvars, acc, framevars, freelist, mem, swapvars, panic, expect>>

\* swap_free, and the new PTE, which no one else looks at before the frame is
\* registered.
SwapFree(p) ==
  /\ At(p, "free")
  /\ swaptable' = swaptable \ {kt[p].from.n}
  /\ slotdata' = [slotdata EXCEPT ![kt[p].from.n] = 0]
  /\ SetPTE(p, table[p], kt[p].va, Mem(kt[p].pa))
  /\ Goto(p, [kt[p] EXCEPT !.pc = "register"])
  /\ UNCHANGED <<procvars, acc, framevars, freelist, mem, panic, expect>>

\* A page of zeros (vmfault, uvmalloc) or a copy of the parent's (uvmcopy), and
\* mappages.
MapPage(p) ==
  /\ At(p, "have") /\ ~(kt[p].op \in {"fault", "forkfault"} /\ kt[p].from.k = "swap")
  /\ LET o == Owner(p)
         t == NewTable(p)
         va == kt[p].va
     IN IF pagetable[o][t][va].k = "mem" THEN Panic("mappages: remap")
        ELSE /\ mem' = [mem EXCEPT ![kt[p].pa] = IF kt[p].op = "fork" THEN mem[kt[p].src] ELSE 0]
             /\ SetPTE(o, t, va, Mem(kt[p].pa))
             /\ acc' = IF kt[p].op = "fork" /\ kt[p].ref THEN acc \cup {<<o, t, va>>}
                       ELSE acc \ {<<o, t, va>>}
             /\ Goto(p, [kt[p] EXCEPT !.pc = "register"])
             /\ UNCHANGED <<procvars, framevars, freelist, swapvars, panic, expect>>

\* The frame is in the frame table: back to user code, or to the next page.
AfterRegister(p) ==
  CASE kt[p].op \in {"fault", "grow"} -> Idle
    [] kt[p].op = "forkfault" -> [kt[p] EXCEPT !.pc = "copy", !.op = "fork"]
    [] kt[p].op = "fork" -> [kt[p] EXCEPT !.pc = "copy", !.va = @ + 1]
    [] kt[p].op = "exec" -> [kt[p] EXCEPT !.va = @ + 1,
                                          !.pc = IF kt[p].va + 1 < kt[p].end THEN "count" ELSE "commit"]

\* frametable_alloc.  With no entry free it calls clock_evict, which acquires
\* framelock a second time.
Register(p) ==
  /\ At(p, "register")
  /\ LET free == {i \in FrameIdx : ~frametable[i].used}
         i == CHOOSE i \in free : \A j \in free : i <= j
     IN IF free = {} THEN Panic("acquire")
        ELSE /\ frametable' = [frametable EXCEPT ![i] = [used |-> TRUE, proc |-> Owner(p), va |-> kt[p].va,
                                                         pa |-> kt[p].pa]]
             /\ active_frames' = active_frames + 1
             /\ resident_pages' = [resident_pages EXCEPT ![Owner(p)] = @ + 1]
             /\ sz' = IF kt[p].op = "grow" THEN [sz EXCEPT ![p] = @ + 1] ELSE sz
             /\ Goto(p, AfterRegister(p))
             /\ UNCHANGED <<status, running, table, pagetable, acc, clock_hand, freelist, mem, swapvars, panic,
                            expect>>

\* kexit, for a process that could not get a page; init must not exit.
Killed(p) ==
  IF p = Root THEN panic' = "init exiting" /\ UNCHANGED <<status, running, kt>>
  ELSE /\ status' = [status EXCEPT ![p] = "zombie"]
       /\ running' = running \ {p}
       /\ Goto(p, Idle)
       /\ UNCHANGED panic

\* get_frame returned 0.
NoMemory(p) ==
  /\ At(p, "fail")
  /\ CASE kt[p].op \in {"fault", "forkfault"} /\ kt[p].from.k = "swap" -> Panic("oom vmfault")
       [] kt[p].op = "fault" /\ kt[p].from.k = "none" ->
            /\ Killed(p)
            /\ UNCHANGED <<sz, table, pagetable, acc, framevars, freelist, mem, swapvars, expect>>
       [] kt[p].op \in {"grow", "fork", "exec"} ->
            /\ Goto(p, CASE kt[p].op = "grow" -> Idle
                         [] kt[p].op = "fork" -> [kt[p] EXCEPT !.pc = "unmap", !.op = "forkfail", !.tab = table[kt[p].tgt],
                                                               !.end = kt[p].va, !.va = 0]
                         [] kt[p].op = "exec" -> [kt[p] EXCEPT !.pc = "unmap", !.op = "execfail", !.tgt = p,
                                                               !.end = kt[p].va, !.va = 0])
            /\ UNCHANGED <<procvars, pagetable, acc, framevars, freelist, mem, swapvars, panic, expect>>

-----------------------------------------------------------------------------
(* sbrk, fork, exit, wait and exec.                                        *)

SbrkLazy(p) ==
  /\ At(p, "user") /\ "lazy" \in load.ops
  /\ sz[p] < Pages
  /\ sz' = [sz EXCEPT ![p] = @ + 1]
  /\ UNCHANGED <<status, running, table, pagetable, acc, framevars, freelist, mem, swapvars, kt, panic, expect>>

SbrkEager(p) ==
  /\ At(p, "user") /\ "eager" \in load.ops
  /\ sz[p] < Pages
  /\ Goto(p, [kt[p] EXCEPT !.pc = "count", !.op = "grow", !.va = sz[p]])
  /\ UNCHANGED <<procvars, pagetable, acc, framevars, freelist, mem, swapvars, panic, expect>>

SbrkShrink(p) ==
  /\ At(p, "user") /\ "shrink" \in load.ops
  /\ sz[p] > 1
  /\ Goto(p, [kt[p] EXCEPT !.pc = "unmap", !.op = "shrink", !.tgt = p, !.tab = table[p], !.va = sz[p] - 1,
                           !.end = sz[p]])
  /\ UNCHANGED <<procvars, pagetable, acc, framevars, freelist, mem, swapvars, panic, expect>>

\* kfork up to uvmcopy: the child has an empty page table.
Fork(p, c) ==
  /\ At(p, "user") /\ "fork" \in load.ops
  /\ status[c] = "unused"
  /\ status' = [status EXCEPT ![c] = "embryo"]
  /\ table' = [table EXCEPT ![c] = 0]
  /\ pagetable' = [pagetable EXCEPT ![c] = [t \in {0, 1} |-> [va \in VAs |-> None]]]
  /\ acc' = {k \in acc : k[1] # c}
  /\ Goto(p, [kt[p] EXCEPT !.pc = "copy", !.op = "fork", !.tgt = c])
  /\ UNCHANGED <<running, sz, framevars, freelist, mem, swapvars, panic, expect>>

\* An iteration of uvmcopy, up to get_frame; after the last page the child is
\* complete.
UvmCopy(p) ==
  /\ At(p, "copy")
  /\ LET va == kt[p].va
         c == kt[p].tgt
         pte == pagetable[p][table[p]][va]
     IN IF va = sz[p]
        THEN /\ status' = [status EXCEPT ![c] = "alive"]
             /\ sz' = [sz EXCEPT ![c] = sz[p]]
             /\ expect' = [expect EXCEPT ![c] = expect[p]]
             /\ Goto(p, Idle)
        ELSE /\ Goto(p, CASE pte.k = "none" -> [kt[p] EXCEPT !.va = @ + 1]
                          [] pte.k = "swap" -> [kt[p] EXCEPT !.pc = "count", !.op = "forkfault", !.from = pte]
                          [] pte.k = "mem" -> [kt[p] EXCEPT !.pc = "count", !.src = pte.n,
                                                            !.ref = <<p, table[p], va>> \in acc])
             /\ UNCHANGED <<status, sz, expect>>
  /\ UNCHANGED <<running, table, pagetable, acc, framevars, freelist, mem, swapvars, panic>>

Exit(p) ==
  /\ At(p, "user") /\ "exit" \in load.ops /\ p # Root
  /\ Killed(p)
  /\ UNCHANGED <<sz, table, pagetable, acc, framevars, freelist, mem, swapvars, expect>>

\* kwait finds a zombie: freeproc unmaps its pages.  Any process may be the
\* zombie's parent.
Wait(p, z) ==
  /\ At(p, "user")
  /\ status[z] = "zombie"
  /\ Goto(p, [kt[p] EXCEPT !.pc = "unmap", !.op = "reap", !.tgt = z, !.tab = table[z], !.end = sz[z]])
  /\ UNCHANGED <<procvars, pagetable, acc, framevars, freelist, mem, swapvars, panic, expect>>

\* kexec: a new page table, filled page by page.
Exec(p, newsz) ==
  /\ At(p, "user") /\ "exec" \in load.ops
  /\ pagetable' = [pagetable EXCEPT ![p][1 - table[p]] = [va \in VAs |-> None]]
  /\ acc' = {k \in acc : <<k[1], k[2]>> # <<p, 1 - table[p]>>}
  /\ Goto(p, [kt[p] EXCEPT !.pc = "count", !.op = "exec", !.tab = 1 - table[p], !.end = newsz])
  /\ UNCHANGED <<procvars, framevars, freelist, mem, swapvars, panic, expect>>

ExecCommit(p) ==
  /\ At(p, "commit")
  /\ table' = [table EXCEPT ![p] = kt[p].tab]
  /\ sz' = [sz EXCEPT ![p] = kt[p].end]
  /\ expect' = [expect EXCEPT ![p] = [va \in VAs |-> 0]]
  /\ Goto(p, [kt[p] EXCEPT !.pc = "unmap", !.tgt = p, !.tab = table[p], !.va = 0, !.end = sz[p]])
  /\ UNCHANGED <<status, running, pagetable, acc, framevars, freelist, mem, swapvars, panic>>

-----------------------------------------------------------------------------
(* uvmunmap, page by page.                                                 *)

\* A page that was never touched falls through to kfree(0): walk finds its PTE,
\* because the leaf page table also maps the program's text.
Unmap(p) ==
  /\ At(p, "unmap") /\ kt[p].va < kt[p].end
  /\ LET v == kt[p].tgt
         pte == pagetable[v][kt[p].tab][kt[p].va]
     IN CASE pte.k = "none" -> Panic("kfree")
          [] pte.k = "swap" ->
               /\ swaptable' = swaptable \ {pte.n}
               /\ slotdata' = [slotdata EXCEPT ![pte.n] = 0]
               /\ SetPTE(v, kt[p].tab, kt[p].va, None)
               /\ acc' = acc \ {<<v, kt[p].tab, kt[p].va>>}
               /\ Goto(p, [kt[p] EXCEPT !.va = @ + 1])
               /\ UNCHANGED <<procvars, framevars, freelist, mem, panic, expect>>
          [] pte.k = "mem" ->
               /\ Goto(p, [kt[p] EXCEPT !.pc = "ftfree", !.pa = pte.n])
               /\ UNCHANGED <<procvars, pagetable, acc, framevars, freelist, mem, swapvars, panic, expect>>

\* frametablefree forgets the entry of a page; owner is NoProc while the page is
\* being evicted.
Forget(i) ==
  LET owner == frametable[i].proc
  IN /\ frametable' = [frametable EXCEPT ![i] = Unused]
     /\ resident_pages' = IF owner = NoProc THEN resident_pages
                          ELSE [resident_pages EXCEPT ![owner] = @ - 1]
     /\ active_frames' = active_frames - 1

\* Mutant: the owner's counter is forgotten.
FrametableFreeUncounted(p) ==
  /\ At(p, "ftfree") \/ At(p, "kfree")
  /\ LET found == {i \in FrameIdx : frametable[i].used /\ frametable[i].pa = kt[p].pa}
         i == CHOOSE i \in found : \A j \in found : i <= j
     IN IF found = {} THEN UNCHANGED <<frametable, active_frames>>
        ELSE frametable' = [frametable EXCEPT ![i] = Unused] /\ active_frames' = active_frames - 1
  /\ Goto(p, [kt[p] EXCEPT !.pc = IF kt[p].pc = "ftfree" THEN "kfree" ELSE "putfree"])
  /\ UNCHANGED <<procvars, pagetable, acc, clock_hand, resident_pages, freelist, mem, swapvars, panic, expect>>

\* frametablefree, called by uvmunmap and once more by kfree.
FrametableFree(p) ==
  /\ At(p, "ftfree") \/ At(p, "kfree")
  /\ LET found == {i \in FrameIdx : frametable[i].used /\ frametable[i].pa = kt[p].pa}
     IN IF found = {} THEN UNCHANGED <<frametable, active_frames, resident_pages>>
        ELSE Forget(CHOOSE i \in found : \A j \in found : i <= j)
  /\ Goto(p, [kt[p] EXCEPT !.pc = IF kt[p].pc = "ftfree" THEN "kfree" ELSE "putfree"])
  /\ UNCHANGED <<procvars, pagetable, acc, clock_hand, freelist, mem, swapvars, panic, expect>>

\* Mutant: the page is lost.
KfreeLeaks(p) ==
  /\ At(p, "putfree")
  /\ mem' = [mem EXCEPT ![kt[p].pa] = Junk]
  /\ Goto(p, [kt[p] EXCEPT !.pc = "clear"])
  /\ UNCHANGED <<procvars, pagetable, acc, framevars, freelist, swapvars, panic, expect>>

\* The rest of kfree.
Kfree(p) ==
  /\ At(p, "putfree")
  /\ mem' = [mem EXCEPT ![kt[p].pa] = Junk]
  /\ freelist' = <<kt[p].pa>> \o freelist
  /\ Goto(p, [kt[p] EXCEPT !.pc = "clear"])
  /\ UNCHANGED <<procvars, pagetable, acc, framevars, swapvars, panic, expect>>

ClearPTE(p) ==
  /\ At(p, "clear")
  /\ SetPTE(kt[p].tgt, kt[p].tab, kt[p].va, None)
  /\ acc' = acc \ {<<kt[p].tgt, kt[p].tab, kt[p].va>>}
  /\ Goto(p, [kt[p] EXCEPT !.pc = "unmap", !.va = @ + 1])
  /\ UNCHANGED <<procvars, framevars, freelist, mem, swapvars, panic, expect>>

\* After the last page: the new size of the process, or freeproc's reset.
Unmapped(p) ==
  /\ At(p, "unmap") /\ kt[p].va = kt[p].end
  /\ LET v == kt[p].tgt
         gone == kt[p].op \in {"reap", "forkfail"}
     IN /\ sz' = CASE gone -> [sz EXCEPT ![v] = 0]
                   [] kt[p].op = "shrink" -> [sz EXCEPT ![v] = @ - 1]
                   [] OTHER -> sz
        /\ expect' = CASE gone -> [expect EXCEPT ![v] = [va \in VAs |-> 0]]
                       [] kt[p].op = "shrink" -> [expect EXCEPT ![v][sz[v] - 1] = 0]
                       [] OTHER -> expect
        /\ status' = IF gone THEN [status EXCEPT ![v] = "unused"] ELSE status
        /\ resident_pages' = IF gone THEN [resident_pages EXCEPT ![v] = 0] ELSE resident_pages
  /\ Goto(p, Idle)
  /\ UNCHANGED <<running, table, pagetable, acc, frametable, clock_hand, active_frames, freelist, mem, swapvars,
                 panic>>

-----------------------------------------------------------------------------
Evict(p) ==
  \/ \E level \in [Procs -> {0, 1}] : ClockEvict(p, level)
  \/ SwapoutSlot(p) \/ SwapoutWrite(p) \/ SwapoutSetPTE(p) \/ EvictStats(p) \/ EvictReturn(p) \/ EvictRevert(p)

Syscall(p) ==
  \/ SbrkLazy(p) \/ SbrkEager(p) \/ SbrkShrink(p) \/ Exit(p) \/ UvmCopy(p) \/ ExecCommit(p)
  \/ \E c \in Procs : Fork(p, c) \/ Wait(p, c)
  \/ \E n \in 1..Pages : Exec(p, n)

Step(p) ==
  \/ Dispatch(p) \/ Yield(p) \/ \E va \in VAs, v \in Values : Access(p, va, v)
  \/ GetFrame(p) \/ Kalloc(p) \/ Evict(p)
  \/ Swapin(p) \/ SwapFree(p) \/ MapPage(p) \/ Register(p) \/ NoMemory(p)
  \/ Syscall(p)
  \/ Unmap(p) \/ FrametableFree(p) \/ Kfree(p) \/ ClearPTE(p) \/ Unmapped(p)

Next == (\E p \in Procs : Step(p)) /\ UNCHANGED load

Spec == Init /\ [][Next]_vars

-----------------------------------------------------------------------------
Evicting(q) == kt[q].pc \in {"slot", "write", "setpte", "stats", "revert"}

\* Every page of a process holds what the process last wrote to it, in memory
\* or in its swap slot; a page never touched reads as zero.
DataIntact ==
  \A p \in Procs, va \in VAs :
    status[p] = "alive" /\ va < sz[p] /\ ~(kt[p].op = "shrink" /\ va = kt[p].end - 1) =>
      LET pte == pagetable[p][table[p]][va]
      IN expect[p][va] = CASE pte.k = "mem" -> mem[pte.n]
                           [] pte.k = "swap" -> slotdata[pte.n]
                           [] pte.k = "none" -> 0

\* Every physical page is in one place: once on the free list, or in one page
\* table, or in the hands of one process that has taken it from there.
PagesExclusive ==
  \A pa \in Frames :
    LET free == {i \in 1..Len(freelist) : freelist[i] = pa}
        mapped == {k \in Procs \X {0, 1} \X VAs : pagetable[k[1]][k[2]][k[3]] = Mem(pa)}
        cleared == {<<kt[q].tgt, kt[q].tab, kt[q].va>> : q \in {q \in Procs : kt[q].pc = "clear"}}
        held == {q \in Procs : kt[q].pa = pa /\ kt[q].pc \in {"stats", "return", "have", "free"}}
    IN Cardinality(free) + Cardinality(mapped \ cleared) + Cardinality(held) = 1

\* Every swap slot in use belongs to one PTE, or to one swapout under way.
SlotsExclusive ==
  \A s \in Slots :
    LET named == {k \in Procs \X {0, 1} \X VAs : pagetable[k[1]][k[2]][k[3]] = Swap(s)}
        filling == {q \in Procs : kt[q].pc \in {"write", "setpte"} /\ kt[q].slot = s}
    IN Cardinality(named) + Cardinality(filling) = IF s \in swaptable THEN 1 ELSE 0

\* The frame table names the page table entry that maps the frame, and the
\* counters that get_frame and getvmstats use agree with it.
FramesTracked ==
  /\ active_frames = Cardinality({i \in FrameIdx : frametable[i].used})
  /\ \A i \in FrameIdx : frametable[i].used /\ frametable[i].proc # NoProc =>
       \E t \in {0, 1} : pagetable[frametable[i].proc][t][frametable[i].va] = Mem(frametable[i].pa)
  /\ \A p \in Procs : resident_pages[p] =
       Cardinality({i \in FrameIdx : frametable[i].used /\ frametable[i].proc = p})
         + Cardinality({q \in Procs : Evicting(q) /\ kt[q].vp = p})

\* The kernel panics for nothing but lack of memory: every swap slot is taken
\* when a process cannot get a page it needs.
PanicsOnlyWhenFull ==
  panic # "no" => panic \in {"oom vmfault", "init exiting"} /\ swaptable = 0..(load.slots - 1)

\* "It's OK if the mappings don't exist": uvmunmap passes over the pages of its
\* range that were never touched.
UnmapsAnything == panic # "kfree"

\* "If the process is actively running on another CPU, DO NOT evict its pages!
\* This entirely prevents cross-core TLB desynchronization": swapout never
\* changes a PTE of a process that runs on another CPU.
EvictsOnlyStopped ==
  [][\A p \in Procs : kt[p].pc = "setpte" /\ kt'[p].pc = "stats" => kt[p].vp \notin running \ {p}]_vars
=============================================================================
