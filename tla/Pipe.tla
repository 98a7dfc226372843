-------------------------------- MODULE Pipe --------------------------------
(***************************************************************************)
(* A pipe (kernel/pipe.c, sys_pipe in kernel/sysfile.c) shared by several  *)
(* processes: one makes it, others inherit its ends by fork, all read,     *)
(* write and close it, and may be killed at any time.                      *)
(*                                                                         *)
(* pi->lock is the variable lock.  The loop of pipewrite, which looks at   *)
(* killed before every byte, takes a step per byte; what else is done      *)
(* under the lock is one step.  The counters are uints: they wrap at WORD, *)
(* a multiple of PIPESIZE.                                                 *)
(***************************************************************************)
EXTENDS Integers, Sequences, FiniteSets

CONSTANTS Procs, Creator, Bytes,
          PIPESIZE,
          WORD,        \* 2^32
          Sizes        \* the n of the calls

VARIABLES pi,      \* struct pipe, whether its page is allocated, and the file structures it has
          ends,    \* "read", "write" -> processes that have that end open
          lock,    \* holder of pi->lock, or None
          pc, n, i,\* per process: where it is; n and i of its call
          killed,
          queue,   \* history: the bytes written and not yet read
          cut      \* history: a killed writer left bytes without waking the readers

vars == <<pi, ends, lock, pc, n, i, killed, queue, cut>>

None == "none"

\* PIPESIZE divides 2^32 and is less.
PipeAssumption ==
    /\ Creator \in Procs /\ None \notin Procs
    /\ Sizes \subseteq Nat
    /\ PIPESIZE \in Nat \ {0} /\ WORD \in Nat
    /\ WORD % PIPESIZE = 0 /\ WORD > PIPESIZE

NoPipe == [data |-> [k \in 0 .. PIPESIZE - 1 |-> 0], nread |-> 0, nwrite |-> 0,
           readopen |-> FALSE, writeopen |-> FALSE, page |-> FALSE, files |-> 0,
           panic |-> FALSE]

Init ==
    /\ pi = NoPipe
    /\ ends = [e \in {"read", "write"} |-> {}]
    /\ lock = None
    /\ pc = [p \in Procs |-> IF p = Creator THEN "idle" ELSE "gone"]
    /\ n = [p \in Procs |-> 0] /\ i = [p \in Procs |-> 0]
    /\ killed = [p \in Procs |-> FALSE]
    /\ queue = <<>> /\ cut = FALSE

Goto(p, l) == pc' = [pc EXCEPT ![p] = l]

\* p goes to l after wakeup(&pi->nread) or wakeup(&pi->nwrite).
Wakeup(asleep, awake, p, l) ==
    pc' = [[q \in Procs |-> IF pc[q] = asleep THEN awake ELSE pc[q]] EXCEPT ![p] = l]
WakeReaders(p, l) == Wakeup("rasleep", "read", p, l)
WakeWriters(p, l) == Wakeup("wasleep", "write", p, l)

\* Mutant: the counters are compared as if they did not wrap.
FullUnwrapped  == pi.nwrite = pi.nread + PIPESIZE

Full  == pi.nwrite = (pi.nread + PIPESIZE) % WORD
Empty == pi.nread = pi.nwrite

---------------------------------------------------------------------------
(* sys_pipe and close.                                                     *)

\* pipealloc once it has two file structures and the page.
Pipealloc(s) == [s EXCEPT !.nread = 0, !.nwrite = 0, !.readopen = TRUE, !.writeopen = TRUE,
                          !.page = TRUE, !.files = 2]

\* The last fileclose of one end, with its pipeclose; kfree of a page that is
\* not allocated would be the panic.
Pipeclose(s, writable) ==
    LET t == IF writable THEN [s EXCEPT !.writeopen = FALSE, !.files = @ - 1]
                         ELSE [s EXCEPT !.readopen = FALSE, !.files = @ - 1]
    IN  IF t.readopen \/ t.writeopen THEN t
        ELSE [NoPipe EXCEPT !.files = t.files, !.panic = ~t.page]

\* pipealloc finds no file structure or no page and gives back what it has; or
\* sys_pipe finds no descriptor, or cannot copy the descriptors out, and closes
\* both files.
PipeFails(p) ==
    /\ pc[p] = "idle" /\ ~pi.page
    /\ pi' \in {pi, Pipeclose(Pipeclose(Pipealloc(pi), FALSE), TRUE)}
    /\ UNCHANGED <<ends, lock, pc, n, i, killed, queue, cut>>

Pipe(p) ==
    /\ pc[p] = "idle" /\ ~pi.page
    /\ pi' = Pipealloc(pi)
    /\ ends' = [e \in {"read", "write"} |-> {p}]
    /\ queue' = <<>> /\ cut' = FALSE
    /\ UNCHANGED <<lock, pc, n, i, killed>>

\* kfork dups the open files of p.
Fork(p, q) ==
    /\ pc[p] = "idle" /\ pc[q] = "gone"
    /\ ends' = [e \in {"read", "write"} |-> IF p \in ends[e] THEN ends[e] \cup {q} ELSE ends[e]]
    /\ Goto(q, "idle")
    /\ killed' = [killed EXCEPT ![q] = FALSE]
    /\ UNCHANGED <<pi, lock, n, i, queue, cut>>

\* fileclose: the last holder of an end runs pipeclose.
Close(p, e) ==
    /\ pc[p] = "idle" /\ p \in ends[e]
    /\ ends' = [ends EXCEPT ![e] = @ \ {p}]
    /\ \/ /\ ends[e] # {p}
          /\ UNCHANGED <<pi, pc, cut>>
       \/ /\ ends[e] = {p} /\ lock = None
          /\ pi' = Pipeclose(pi, e = "write")
          /\ IF e = "write" THEN WakeReaders(p, "idle") ELSE WakeWriters(p, "idle")
          /\ cut' = (cut /\ e # "write" /\ pi'.page)
    /\ queue' = IF pi'.page THEN queue ELSE <<>>
    /\ UNCHANGED <<lock, n, i, killed>>

---------------------------------------------------------------------------
(* pipewrite.                                                              *)

Write(p) ==
    /\ pc[p] = "idle" /\ p \in ends["write"]
    /\ \E size \in Sizes : n' = [n EXCEPT ![p] = size]
    /\ i' = [i EXCEPT ![p] = 0]
    /\ Goto(p, "write")
    /\ UNCHANGED <<pi, ends, lock, killed, queue, cut>>

\* acquire(&pi->lock), at the start or at the end of sleep.
WriteLock(p) ==
    /\ pc[p] = "write" /\ lock = None
    /\ lock' = p
    /\ Goto(p, "writing")
    /\ UNCHANGED <<pi, ends, n, i, killed, queue, cut>>

\* The call returns; the process is back at "idle" with its locals forgotten.
Returns(p) == /\ lock' = None
              /\ n' = [n EXCEPT ![p] = 0] /\ i' = [i EXCEPT ![p] = 0]

\* return -1 without a wakeup.
WriteRefused(p) ==
    /\ pc[p] = "writing" /\ i[p] < n[p]
    /\ ~pi.readopen \/ killed[p]
    /\ Returns(p) /\ Goto(p, "idle")
    /\ cut' = (cut \/ (pi.readopen /\ i[p] > 0))
    /\ UNCHANGED <<pi, ends, killed, queue>>

WriteFull(p) ==
    /\ pc[p] = "writing" /\ i[p] < n[p]
    /\ pi.readopen /\ ~killed[p] /\ Full
    /\ WakeReaders(p, "wsleep")
    /\ cut' = FALSE
    /\ UNCHANGED <<pi, ends, lock, n, i, killed, queue>>

\* sleep: the lock is released and the process asleep at once, for wakeup.
WriteSleep(p) ==
    /\ pc[p] = "wsleep"
    /\ lock' = None
    /\ Goto(p, "wasleep")
    /\ UNCHANGED <<pi, ends, n, i, killed, queue, cut>>

WriteByte(p) ==
    /\ pc[p] = "writing" /\ i[p] < n[p]
    /\ pi.readopen /\ ~killed[p] /\ ~Full
    /\ \E b \in Bytes :
          /\ pi' = [pi EXCEPT !.data[pi.nwrite % PIPESIZE] = b,
                              !.nwrite = (@ + 1) % WORD]
          /\ queue' = Append(queue, b)
    /\ i' = [i EXCEPT ![p] = @ + 1]
    /\ UNCHANGED <<ends, lock, pc, n, killed, cut>>

\* All bytes are written, or copyin failed.
WriteDone(p) ==
    /\ pc[p] = "writing"
    /\ i[p] = n[p] \/ (pi.readopen /\ ~killed[p] /\ ~Full)
    /\ Returns(p)
    /\ WakeReaders(p, "idle")
    /\ cut' = FALSE
    /\ UNCHANGED <<pi, ends, killed, queue>>

---------------------------------------------------------------------------
(* piperead.                                                               *)

Read(p) ==
    /\ pc[p] = "idle" /\ p \in ends["read"]
    /\ \E size \in Sizes : n' = [n EXCEPT ![p] = size]
    /\ Goto(p, "read")
    /\ UNCHANGED <<pi, ends, lock, i, killed, queue, cut>>

\* The pipe is empty: return -1, or sleep; a kill may come between the test
\* and the sleep.
ReadEmpty(p) ==
    /\ pc[p] = "read" /\ lock = None
    /\ Empty /\ pi.writeopen
    /\ \/ killed[p] /\ Returns(p) /\ Goto(p, "idle")
       \/ ~killed[p] /\ lock' = p /\ Goto(p, "rsleep") /\ UNCHANGED <<n, i>>
    /\ UNCHANGED <<pi, ends, killed, queue, cut>>

ReadSleep(p) ==
    /\ pc[p] = "rsleep"
    /\ lock' = None
    /\ Goto(p, "rasleep")
    /\ UNCHANGED <<pi, ends, n, i, killed, queue, cut>>

\* The copy loop: m bytes, fewer than there are if copyout fails.
ReadBytes(p) ==
    LET avail == (pi.nwrite - pi.nread) % WORD
    IN  /\ pc[p] = "read" /\ lock = None
        /\ ~(Empty /\ pi.writeopen)
        /\ \E m \in 0 .. n[p] :
              /\ m <= avail
              /\ pi' = [pi EXCEPT !.nread = (@ + m) % WORD]
              /\ queue' = SubSeq(queue, m + 1, Len(queue))
        /\ Returns(p)
        /\ WakeWriters(p, "idle")
        /\ UNCHANGED <<ends, killed, cut>>

---------------------------------------------------------------------------
\* kkill: killed is set, and a sleeping process woken.
Kill(p) ==
    /\ pc[p] # "gone" /\ ~killed[p]
    /\ killed' = [killed EXCEPT ![p] = TRUE]
    /\ Goto(p, CASE pc[p] = "wasleep" -> "write"
                 [] pc[p] = "rasleep" -> "read"
                 [] OTHER -> pc[p])
    /\ UNCHANGED <<pi, ends, lock, n, i, queue, cut>>

\* kexit, when the process has closed its files.
Exit(p) ==
    /\ pc[p] = "idle" /\ p # Creator
    /\ \A e \in {"read", "write"} : p \notin ends[e]
    /\ Goto(p, "gone")
    /\ UNCHANGED <<pi, ends, lock, n, i, killed, queue, cut>>

\* usertrap: a process that was killed makes no further call, and exits.
Calls(p) == /\ ~killed[p]
            /\ \/ PipeFails(p) \/ Pipe(p) \/ Write(p) \/ Read(p)
               \/ \E q \in Procs : Fork(p, q)
Next == \E p \in Procs :
          \/ Calls(p) \/ Close(p, "read") \/ Close(p, "write") \/ Kill(p) \/ Exit(p)
          \/ WriteLock(p) \/ WriteRefused(p) \/ WriteFull(p) \/ WriteSleep(p)
          \/ WriteByte(p) \/ WriteDone(p)
          \/ ReadEmpty(p) \/ ReadSleep(p) \/ ReadBytes(p)

Spec == Init /\ [][Next]_vars

---------------------------------------------------------------------------
(* Properties.                                                             *)

\* The types; pi->lock is held where the code holds it.
TypeOK ==
    /\ pi.nread \in 0 .. WORD - 1 /\ pi.nwrite \in 0 .. WORD - 1
    /\ pi.data \in [0 .. PIPESIZE - 1 -> Bytes \cup {0}]
    /\ pi.files \in 0 .. 2
    /\ \A p \in Procs : lock = p <=> pc[p] \in {"writing", "wsleep", "rsleep"}

\* The ring holds exactly the bytes written and not read, in order, also when
\* the counters wrap around between the one and the other: what a reader takes
\* is what the writers put, interleaved as they held the lock.
RingIsQueue ==
    /\ Len(queue) <= PIPESIZE
    /\ (pi.nwrite - pi.nread) % WORD = Len(queue)
    /\ \A k \in 1 .. Len(queue) : pi.data[(pi.nread + k - 1) % PIPESIZE] = queue[k]

\* With pi->lock free, a process sleeps in the pipe only as long as it has to
\* wait: a writer on a full pipe with a reader, a reader on an empty pipe with
\* a writer.  The one exception is the bytes of a writer that was killed in the
\* middle of pipewrite, which returns without wakeup(&pi->nread).
SleepsOnlyBlocked ==
    lock = None =>
        \A p \in Procs : /\ pc[p] = "wasleep" => Full /\ pi.readopen
                         /\ pc[p] = "rasleep" => pi.writeopen /\ (Empty \/ cut)

\* The page and the file structures belong to the pipe exactly as long as an
\* end is open: freed once, by the last close or by a failing sys_pipe, and
\* never under a process that is reading or writing.
FreedOnce ==
    /\ ~pi.panic
    /\ pi.page = (ends["read"] \cup ends["write"] # {})
    /\ pi.readopen = (ends["read"] # {}) /\ pi.writeopen = (ends["write"] # {})
    /\ pi.files = Cardinality({e \in {"read", "write"} : ends[e] # {}})
    /\ \A p \in Procs : pc[p] \notin {"idle", "gone"} => pi.page
=============================================================================
