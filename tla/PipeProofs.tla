----------------------------- MODULE PipeProofs -----------------------------
(***************************************************************************)
(* Proofs about the pipe: the ring holds exactly the bytes on their way,   *)
(* also when the counters wrap around; nobody sleeps in a pipe that would  *)
(* let it go on; and the page is freed once.  They hold for any number of  *)
(* processes, any contents, any PIPESIZE and any word a multiple of it.    *)
(*                                                                         *)
(* PipeInv is the inductive invariant.  To the properties it adds which    *)
(* end a process that is inside pipewrite or piperead has open (EndsInv),  *)
(* the counters as the queue's length apart (RingInv), and, while          *)
(* pi->lock is held, what the holder is going to do about the sleepers     *)
(* (SleepInv).                                                             *)
(***************************************************************************)
EXTENDS Pipe, FiniteSetTheorems, TLAPS

Ends == {"read", "write"}
WriteAt == {"write", "writing", "wsleep", "wasleep"}
ReadAt == {"read", "rsleep", "rasleep"}
LockAt == {"writing", "wsleep", "rsleep"}
Labels == {"idle", "gone"} \cup WriteAt \cup ReadAt
Ring == 0 .. PIPESIZE - 1
Counters == 0 .. WORD - 1
Contents == [Ring -> Bytes \cup {0}]

PipeRecord == [data : Contents, nread : Counters, nwrite : Counters,
               readopen : BOOLEAN, writeopen : BOOLEAN, page : BOOLEAN,
               files : Int, panic : BOOLEAN]

\* The types of what the actions assign.
Typed ==
    /\ pi \in PipeRecord
    /\ ends \in [Ends -> SUBSET Procs]
    /\ pc \in [Procs -> Labels]
    /\ n \in [Procs -> Nat] /\ i \in [Procs -> Nat]
    /\ queue \in Seq(Bytes)

\* A process in a call has that end open, and one that does not exist has none.
EndsInv ==
    \A p \in Procs : /\ pc[p] \in WriteAt => p \in ends["write"]
                     /\ pc[p] \in ReadAt => p \in ends["read"]
                     /\ pc[p] = "gone" => p \notin ends["read"] /\ p \notin ends["write"]

LockInv ==
    /\ lock \in Procs \cup {None}
    /\ \A p \in Procs : lock = p <=> pc[p] \in LockAt

Held(e) == IF ends[e] # {} THEN 1 ELSE 0

\* struct pipe agrees with the open files.
OpenInv ==
    /\ ~pi.panic
    /\ pi.readopen <=> ends["read"] # {}
    /\ pi.writeopen <=> ends["write"] # {}
    /\ pi.page <=> ends["read"] # {} \/ ends["write"] # {}
    /\ pi.files = Held("read") + Held("write")
    /\ ~pi.page => queue = <<>>

\* The counters differ by the length of the queue, and the ring has its bytes.
RingInv ==
    /\ Len(queue) <= PIPESIZE
    /\ pi.nwrite = (pi.nread + Len(queue)) % WORD
    /\ \A k \in 1 .. Len(queue) : pi.data[(pi.nread + k - 1) % PIPESIZE] = queue[k]

\* A writer that has bytes in the ring and holds pi->lock: it will wake the
\* readers, or leave with cut set.
WillWake == \E w \in Procs : pc[w] = "writing" /\ i[w] > 0

SleepInv ==
    \A p \in Procs :
       /\ pc[p] \in {"wsleep", "wasleep"} => Full /\ pi.readopen
       /\ pc[p] = "rsleep" => Empty /\ pi.writeopen
       /\ pc[p] = "rasleep" => pi.writeopen /\ (Empty \/ cut \/ WillWake)

PipeInv == Typed /\ EndsInv /\ LockInv /\ OpenInv /\ RingInv /\ SleepInv

---------------------------------------------------------------------------
(* The arithmetic of a ring whose counters wrap around.                    *)

\* Quotient and remainder.
LEMMA DivMod ==
  ASSUME NEW d \in Nat \ {0}, NEW a \in Int
  PROVE  a % d \in 0 .. d - 1 /\ a \div d \in Int /\ a = d * (a \div d) + (a % d)
  OBVIOUS

\* The remainder is the only one.
LEMMA ModUnique ==
  ASSUME NEW d \in Nat \ {0}, NEW a \in Int, NEW q \in Int, NEW r \in 0 .. d - 1, a = d * q + r
  PROVE  a % d = r
<1>. DEFINE x == a \div d
            m == a % d
<1>1. m \in 0 .. d - 1 /\ x \in Int /\ a = d * x + m
  BY DivMod
<1>. HIDE DEF x, m
<1>2. ~(q > x)
  <2>. SUFFICES ASSUME q > x PROVE FALSE
    OBVIOUS
  <2>1. q - (x + 1) \in Nat
    BY <1>1
  <2>2. d * (q - (x + 1)) \in Nat
    BY <2>1
  <2>3. d * (q - (x + 1)) = d * q - d * x - d
    BY <1>1
  <2>4. d * q \in Int /\ d * x \in Int
    BY <1>1
  <2>. QED  BY <1>1, <2>2, <2>3, <2>4
<1>3. ~(x > q)
  <2>. SUFFICES ASSUME x > q PROVE FALSE
    OBVIOUS
  <2>1. x - (q + 1) \in Nat
    BY <1>1
  <2>2. d * (x - (q + 1)) \in Nat
    BY <2>1
  <2>3. d * (x - (q + 1)) = d * x - d * q - d
    BY <1>1
  <2>4. d * q \in Int /\ d * x \in Int
    BY <1>1
  <2>. QED  BY <1>1, <2>2, <2>3, <2>4
<1>4. q = x
  BY <1>1, <1>2, <1>3
<1>5. m = r
  BY <1>1, <1>4
<1>. QED  BY <1>5 DEF m

\* Two numbers that differ by a multiple of d have the same remainder.
LEMMA ModShift ==
  ASSUME NEW d \in Nat \ {0}, NEW a \in Int, NEW b \in Int, NEW q \in Int, a = d * q + b
  PROVE  a % d = b % d
<1>. DEFINE x == b \div d
            m == b % d
<1>1. m \in 0 .. d - 1 /\ x \in Int /\ b = d * x + m
  BY DivMod
<1>. HIDE DEF x, m
<1>2. d * (q + x) = d * q + d * x /\ q + x \in Int
  BY <1>1
<1>3. d * q \in Int /\ d * x \in Int
  BY <1>1
<1>4. a = d * (q + x) + m
  BY <1>1, <1>2, <1>3
<1>5. a % d = m
  BY <1>1, <1>2, <1>4, ModUnique
<1>. QED  BY <1>5 DEF m

\* Wrapping around first makes no difference to a sum.
LEMMA ModAdd ==
  ASSUME NEW d \in Nat \ {0}, NEW a \in Int, NEW b \in Int
  PROVE  ((a % d) + b) % d = (a + b) % d
<1>. DEFINE q == a \div d
            r == a % d
            sum == a + b
            part == r + b
<1>1. r \in 0 .. d - 1 /\ q \in Int /\ a = d * q + r
  BY DivMod
<1>. HIDE DEF q, r
<1>2. d * q \in Int
  BY <1>1
<1>3. sum = d * q + part /\ sum \in Int /\ part \in Int
  BY <1>1, <1>2
<1>. HIDE DEF sum, part
<1>4. sum % d = part % d
  BY Zenon, <1>1, <1>3, ModShift
<1>. QED  BY <1>4 DEF sum, part, r

\* Nor does it for the place in the ring, if the ring's size divides the word.
LEMMA RingAdd ==
  ASSUME NEW d \in Nat \ {0}, NEW w \in Nat \ {0}, w % d = 0, NEW a \in Int, NEW b \in Int
  PROVE  ((a % w) + b) % d = (a + b) % d
<1>. DEFINE k == w \div d
            q == a \div w
            r == a % w
<1>1. k \in Int /\ w = d * k
  BY DivMod
<1>2. r \in 0 .. w - 1 /\ q \in Int /\ a = w * q + r
  BY DivMod
<1>. HIDE DEF k, q, r
<1>. DEFINE x == k * q
            sum == a + b
            part == r + b
<1>3. w * q = d * x /\ x \in Int
  BY <1>1, <1>2
<1>. HIDE DEF x
<1>4. sum = d * x + part /\ sum \in Int /\ part \in Int
  BY <1>2, <1>3
<1>. HIDE DEF sum, part
<1>5. sum % d = part % d
  BY Zenon, <1>3, <1>4, ModShift
<1>. QED  BY <1>5 DEF sum, part, r

\* Two positions less than the ring's size apart are different places.
LEMMA ModApart ==
  ASSUME NEW d \in Nat \ {0}, NEW a \in Int, NEW b \in Int, a < b, b < a + d
  PROVE  a % d # b % d
<1>. SUFFICES ASSUME a % d = b % d PROVE FALSE
  OBVIOUS
<1>. DEFINE x == a \div d
            y == b \div d
            m == a % d
<1>1. m \in 0 .. d - 1 /\ x \in Int /\ a = d * x + m
  BY DivMod
<1>2. y \in Int /\ b = d * y + m
  BY DivMod
<1>. HIDE DEF x, y, m
<1>3. d * (y - x) = d * y - d * x /\ d * y \in Int /\ d * x \in Int
  BY <1>1, <1>2
<1>4. d * (y - x) > 0 /\ d * (y - x) < d
  BY <1>1, <1>2, <1>3
<1>5. ~(y - x <= 0)
  <2>. SUFFICES ASSUME y - x <= 0 PROVE FALSE
    OBVIOUS
  <2>1. x - y \in Nat
    BY <1>1, <1>2
  <2>2. d * (x - y) \in Nat
    BY <2>1
  <2>3. d * (x - y) = 0 - d * (y - x)
    BY <1>1, <1>2
  <2>. QED  BY <1>1, <1>2, <1>3, <1>4, <2>2, <2>3
<1>6. ~(y - x >= 1)
  <2>. SUFFICES ASSUME y - x >= 1 PROVE FALSE
    OBVIOUS
  <2>1. y - x - 1 \in Nat
    BY <1>1, <1>2
  <2>2. d * (y - x - 1) \in Nat
    BY <2>1
  <2>3. d * (y - x - 1) = d * (y - x) - d
    BY <1>1, <1>2
  <2>. QED  BY <1>1, <1>2, <1>3, <1>4, <2>2, <2>3
<1>. QED  BY <1>1, <1>2, <1>5, <1>6

\* A number below d is its own remainder.
LEMMA ModSmall ==
  ASSUME NEW d \in Nat \ {0}, NEW a \in 0 .. d - 1
  PROVE  a % d = a
<1>1. a = d * 0 + a
  OBVIOUS
<1>. QED  BY <1>1, ModUnique

---------------------------------------------------------------------------
(* The records that pipealloc and pipeclose leave.                         *)

LEMMA RingSizes ==
  ASSUME PipeAssumption
  PROVE  /\ PIPESIZE \in Nat \ {0} /\ WORD \in Nat \ {0} /\ WORD % PIPESIZE = 0 /\ WORD > PIPESIZE
         /\ 0 \in Counters /\ Counters \subseteq Nat /\ NoPipe \in PipeRecord
         /\ \A a \in Int : a % WORD \in Counters /\ a % PIPESIZE \in Ring
<1>1. /\ PIPESIZE \in Nat \ {0} /\ WORD \in Nat \ {0} /\ WORD % PIPESIZE = 0 /\ WORD > PIPESIZE
      /\ 0 \in Counters /\ Counters \subseteq Nat
  BY DEF PipeAssumption, Counters
<1>2. \A a \in Int : a % WORD \in Counters /\ a % PIPESIZE \in Ring
  BY <1>1, DivMod DEF Counters, Ring
<1>3. [k \in 0 .. PIPESIZE - 1 |-> 0] \in Contents
  BY DEF Contents, Ring
<1>4. NoPipe \in PipeRecord
  BY <1>1, <1>3 DEF NoPipe, PipeRecord
<1>. QED  BY <1>1, <1>2, <1>4

\* A field is assigned.
LEMMA Assign ==
  ASSUME NEW s \in PipeRecord
  PROVE  /\ \A v \in BOOLEAN : [s EXCEPT !.readopen = v] \in PipeRecord
         /\ \A v \in BOOLEAN : [s EXCEPT !.writeopen = v] \in PipeRecord
         /\ \A v \in BOOLEAN : [s EXCEPT !.page = v] \in PipeRecord
         /\ \A v \in BOOLEAN : [s EXCEPT !.panic = v] \in PipeRecord
         /\ \A f \in Int : [s EXCEPT !.files = f] \in PipeRecord
         /\ \A c \in Counters : [s EXCEPT !.nread = c] \in PipeRecord
         /\ \A c \in Counters : [s EXCEPT !.nwrite = c] \in PipeRecord
         /\ \A d \in Contents : [s EXCEPT !.data = d] \in PipeRecord
  BY DEF PipeRecord

\* What pipealloc leaves.
LEMMA Alloc ==
  ASSUME PipeAssumption, NEW s \in PipeRecord
  PROVE  LET t == Pipealloc(s)
         IN  /\ t \in PipeRecord /\ t.nread = 0 /\ t.nwrite = 0 /\ t.data = s.data
             /\ (t.panic <=> s.panic) /\ t.readopen /\ t.writeopen /\ t.page /\ t.files = 2
<1>. DEFINE t(v) == [s EXCEPT !.nread = 0, !.nwrite = 0, !.readopen = v, !.writeopen = v,
                              !.page = v, !.files = 2]
<1>1. ASSUME NEW v \in BOOLEAN
      PROVE  t(v) \in PipeRecord
  <2>. DEFINE s1 == [s EXCEPT !.nread = 0]
              s2 == [s1 EXCEPT !.nwrite = 0]
              s3 == [s2 EXCEPT !.readopen = v]
              s4 == [s3 EXCEPT !.writeopen = v]
              s5 == [s4 EXCEPT !.page = v]
              s6 == [s5 EXCEPT !.files = 2]
  <2>1. s1 \in PipeRecord
    BY Zenon, Assign, RingSizes
  <2>2. s2 \in PipeRecord
    BY Zenon, <2>1, Assign, RingSizes
  <2>3. s3 \in PipeRecord
    BY Zenon, <2>2, Assign
  <2>4. s4 \in PipeRecord
    BY Zenon, <2>3, Assign
  <2>5. s5 \in PipeRecord
    BY Zenon, <2>4, Assign
  <2>6. 2 \in Int
    OBVIOUS
  <2>7. s6 \in PipeRecord
    BY Zenon, <2>5, <2>6, Assign
  <2>8. t(v) = s6
    BY DEF PipeRecord
  <2>. QED  BY Zenon, <2>7, <2>8
<1>2. ASSUME NEW v \in BOOLEAN
      PROVE  /\ t(v).nread = 0 /\ t(v).nwrite = 0
             /\ t(v).data = s.data /\ t(v).panic = s.panic /\ t(v).readopen = v
             /\ t(v).writeopen = v /\ t(v).page = v /\ t(v).files = 2
  BY DEF PipeRecord
<1>3. Pipealloc(s) = t(TRUE)
  BY DEF Pipealloc
<1>. HIDE DEF t
<1>. QED  BY Zenon, <1>1, <1>2, <1>3

\* One end is closed.
LEMMA CloseEnd ==
  ASSUME NEW s \in PipeRecord, NEW v \in BOOLEAN
  PROVE  /\ LET t == [s EXCEPT !.readopen = v, !.files = @ - 1]
            IN  /\ t \in PipeRecord /\ t.nread = s.nread /\ t.nwrite = s.nwrite
                /\ t.data = s.data /\ t.panic = s.panic /\ t.page = s.page
                /\ t.readopen = v /\ t.writeopen = s.writeopen /\ t.files = s.files - 1
         /\ LET t == [s EXCEPT !.writeopen = v, !.files = @ - 1]
            IN  /\ t \in PipeRecord /\ t.nread = s.nread /\ t.nwrite = s.nwrite
                /\ t.data = s.data /\ t.panic = s.panic /\ t.page = s.page
                /\ t.readopen = s.readopen /\ t.writeopen = v /\ t.files = s.files - 1
<1>1. s.files - 1 \in Int
  BY DEF PipeRecord
<1>. DEFINE t == [s EXCEPT !.readopen = v, !.files = @ - 1]
            u == [s EXCEPT !.writeopen = v, !.files = @ - 1]
<1>2. /\ t = [[s EXCEPT !.readopen = v] EXCEPT !.files = s.files - 1]
      /\ u = [[s EXCEPT !.writeopen = v] EXCEPT !.files = s.files - 1]
  BY DEF PipeRecord
<1>3. t \in PipeRecord /\ u \in PipeRecord
  BY Zenon, <1>1, <1>2, Assign
<1>4. /\ t.nread = s.nread /\ t.nwrite = s.nwrite
      /\ t.data = s.data /\ t.panic = s.panic /\ t.page = s.page
      /\ t.readopen = v /\ t.writeopen = s.writeopen /\ t.files = s.files - 1
  BY DEF PipeRecord
<1>5. /\ u.nread = s.nread /\ u.nwrite = s.nwrite
      /\ u.data = s.data /\ u.panic = s.panic /\ u.page = s.page
      /\ u.readopen = s.readopen /\ u.writeopen = v /\ u.files = s.files - 1
  BY DEF PipeRecord
<1>. QED  BY Zenon, <1>3, <1>4, <1>5

\* The page is freed.
LEMMA Freed ==
  ASSUME PipeAssumption, NEW f \in Int, NEW v \in BOOLEAN
  PROVE  LET t == [NoPipe EXCEPT !.files = f, !.panic = v]
         IN  /\ t \in PipeRecord /\ t.nread = 0 /\ t.nwrite = 0 /\ t.panic = v
             /\ t.page = FALSE /\ t.readopen = FALSE /\ t.writeopen = FALSE /\ t.files = f
<1>. DEFINE t == [NoPipe EXCEPT !.files = f, !.panic = v]
<1>1. /\ NoPipe.nread = 0 /\ NoPipe.nwrite = 0 /\ NoPipe.page = FALSE /\ NoPipe.readopen = FALSE
      /\ NoPipe.writeopen = FALSE
  BY DEF NoPipe
<1>2. t = [[NoPipe EXCEPT !.files = f] EXCEPT !.panic = v]
  BY RingSizes DEF PipeRecord
<1>3. t \in PipeRecord
  BY Zenon, <1>2, RingSizes, Assign
<1>4. /\ t.nread = NoPipe.nread /\ t.nwrite = NoPipe.nwrite
      /\ t.panic = v /\ t.files = f /\ t.page = NoPipe.page /\ t.readopen = NoPipe.readopen
      /\ t.writeopen = NoPipe.writeopen
  BY RingSizes DEF PipeRecord
<1>. QED  BY Zenon, <1>1, <1>3, <1>4

\* pipeclose of an end while the other is open.
LEMMA CloseOne ==
  ASSUME NEW s \in PipeRecord
  PROVE  /\ s.writeopen => LET t == Pipeclose(s, FALSE)
                           IN  /\ t \in PipeRecord /\ t.nread = s.nread /\ t.nwrite = s.nwrite
                               /\ t.data = s.data /\ (t.panic <=> s.panic) /\ (t.page <=> s.page)
                               /\ ~t.readopen /\ t.writeopen /\ t.files = s.files - 1
         /\ s.readopen => LET t == Pipeclose(s, TRUE)
                          IN  /\ t \in PipeRecord /\ t.nread = s.nread /\ t.nwrite = s.nwrite
                              /\ t.data = s.data /\ (t.panic <=> s.panic) /\ (t.page <=> s.page)
                              /\ t.readopen /\ ~t.writeopen /\ t.files = s.files - 1
<1>. DEFINE t == [s EXCEPT !.readopen = FALSE, !.files = @ - 1]
            u == [s EXCEPT !.writeopen = FALSE, !.files = @ - 1]
<1>1. /\ t \in PipeRecord /\ t.nread = s.nread /\ t.nwrite = s.nwrite
      /\ t.data = s.data /\ t.panic = s.panic /\ t.page = s.page
      /\ t.readopen = FALSE /\ t.writeopen = s.writeopen /\ t.files = s.files - 1
  BY Zenon, CloseEnd
<1>2. /\ u \in PipeRecord /\ u.nread = s.nread /\ u.nwrite = s.nwrite
      /\ u.data = s.data /\ u.panic = s.panic /\ u.page = s.page
      /\ u.readopen = s.readopen /\ u.writeopen = FALSE /\ u.files = s.files - 1
  BY Zenon, CloseEnd
<1>3. /\ s.writeopen => Pipeclose(s, FALSE) = t
      /\ s.readopen => Pipeclose(s, TRUE) = u
  <2>. HIDE DEF t, u
  <2>1. s.writeopen => t.writeopen
    BY Zenon, <1>1
  <2>2. s.readopen => u.readopen
    BY Zenon, <1>2
  <2>. QED  BY Zenon, <2>1, <2>2 DEF Pipeclose, t, u
<1>. HIDE DEF t, u
<1>. QED  BY Zenon, <1>1, <1>2, <1>3

\* pipeclose of the last end.
LEMMA CloseLast ==
  ASSUME PipeAssumption, NEW s \in PipeRecord, NEW w \in BOOLEAN,
         s.page, IF w THEN ~s.readopen ELSE ~s.writeopen
  PROVE  LET t == Pipeclose(s, w)
         IN  /\ t \in PipeRecord /\ t.nread = 0 /\ t.nwrite = 0 /\ ~t.panic /\ ~t.page
             /\ ~t.readopen /\ ~t.writeopen /\ t.files = s.files - 1
<1>. DEFINE c == IF w THEN [s EXCEPT !.writeopen = FALSE, !.files = @ - 1]
                      ELSE [s EXCEPT !.readopen = FALSE, !.files = @ - 1]
            t == [NoPipe EXCEPT !.files = c.files, !.panic = FALSE]
<1>1. /\ c \in PipeRecord /\ c.page = s.page /\ c.files = s.files - 1
      /\ ~c.readopen /\ ~c.writeopen
  BY Zenon, CloseEnd
<1>. HIDE DEF c
<1>2. (~c.page) = FALSE
  BY Zenon, <1>1
<1>3. Pipeclose(s, w) = t
  BY Zenon, <1>1, <1>2 DEF Pipeclose, c
<1>4. c.files \in Int
  BY <1>1 DEF PipeRecord
<1>5. /\ t \in PipeRecord /\ t.nread = 0 /\ t.nwrite = 0 /\ t.panic = FALSE
      /\ t.page = FALSE /\ t.readopen = FALSE /\ t.writeopen = FALSE /\ t.files = c.files
  BY Zenon, <1>4, Freed
<1>. HIDE DEF t
<1>. QED  BY Zenon, <1>1, <1>3, <1>5

\* sys_pipe fails: the pipe is as if it had never been.
LEMMA PipeFailsLeaves ==
  ASSUME PipeAssumption, PipeInv, NEW p \in Procs, PipeFails(p)
  PROVE  /\ pi' \in PipeRecord /\ ~pi'.panic /\ ~pi'.readopen /\ ~pi'.writeopen /\ ~pi'.page
         /\ pi'.files = 0
         /\ pi' = pi \/ (pi'.nread = 0 /\ pi'.nwrite = 0)
<1>1. /\ pi \in PipeRecord /\ ~pi.page /\ ~pi.panic /\ ~pi.readopen /\ ~pi.writeopen
      /\ pi.files = 0
  <2>1. pi \in PipeRecord /\ ~pi.page
    BY DEF PipeInv, Typed, PipeFails
  <2>2. ends["read"] = {} /\ ends["write"] = {}
    BY <2>1 DEF PipeInv, OpenInv
  <2>. QED  BY <2>1, <2>2 DEF PipeInv, OpenInv, Held
<1>2. CASE pi' = pi
  BY Zenon, <1>1, <1>2
<1>3. CASE pi' = Pipeclose(Pipeclose(Pipealloc(pi), FALSE), TRUE)
  <2>. DEFINE s == Pipealloc(pi)
              t == Pipeclose(s, FALSE)
              u == Pipeclose(t, TRUE)
  <2>1. s \in PipeRecord /\ s.writeopen /\ s.page /\ s.files = 2
    BY Zenon, <1>1, Alloc
  <2>. HIDE DEF s
  <2>2. t \in PipeRecord /\ ~t.readopen /\ t.page /\ t.files = 2 - 1
    BY Zenon, <2>1, CloseOne
  <2>. HIDE DEF t
  <2>3. /\ u \in PipeRecord /\ u.nread = 0 /\ u.nwrite = 0 /\ ~u.panic /\ ~u.page
        /\ ~u.readopen /\ ~u.writeopen /\ u.files = t.files - 1
    BY Zenon, <2>2, CloseLast
  <2>. HIDE DEF u
  <2>4. u.files = 0
    BY <2>2, <2>3
  <2>5. pi' = u
    BY <1>3 DEF s, t, u
  <2>. QED  BY Zenon, <2>3, <2>4, <2>5
<1>. QED  BY Zenon, <1>2, <1>3 DEF PipeFails

\* The last holder of an end closes it.
LEMMA CloseLeaves ==
  ASSUME PipeAssumption, PipeInv, NEW p \in Procs,
         NEW e \in Ends, NEW f \in Ends, e # f, Close(p, e), ends[e] = {p}
  PROVE  /\ pi' \in PipeRecord /\ ~pi'.panic /\ pi'.files = pi.files - 1
         /\ e = "read" => ~pi'.readopen /\ (pi'.writeopen <=> ends[f] # {})
         /\ e = "write" => ~pi'.writeopen /\ (pi'.readopen <=> ends[f] # {})
         /\ pi'.page <=> ends[f] # {}
         /\ ends[f] # {} => /\ pi'.nread = pi.nread /\ pi'.nwrite = pi.nwrite
                            /\ pi'.data = pi.data
         /\ ends[f] = {} => pi'.nread = 0 /\ pi'.nwrite = 0
<1>1. /\ pi \in PipeRecord /\ ~pi.panic /\ pi.page
      /\ pi.readopen <=> ends["read"] # {}
      /\ pi.writeopen <=> ends["write"] # {}
  <2>1. ends["read"] # {} \/ ends["write"] # {}
    BY DEF Ends
  <2>. QED  BY <2>1 DEF PipeInv, Typed, OpenInv
<1>2. pi' = Pipeclose(pi, e = "write")
  BY DEF Close
<1>3. CASE e = "read"
  <2>1. f = "write"
    BY <1>3 DEF Ends
  <2>2. (e = "write") = FALSE
    BY <1>3
  <2>3. pi' = Pipeclose(pi, FALSE)
    BY Zenon, <1>2, <2>2
  <2>4. CASE ends[f] # {}
    BY Zenon, <1>1, <1>3, <2>1, <2>3, <2>4, CloseOne
  <2>5. CASE ends[f] = {}
    <3>1. ~pi.writeopen
      BY Zenon, <1>1, <2>1, <2>5
    <3>2. LET t == Pipeclose(pi, FALSE)
          IN  /\ t \in PipeRecord /\ t.nread = 0 /\ t.nwrite = 0 /\ ~t.panic /\ ~t.page
              /\ ~t.readopen /\ ~t.writeopen /\ t.files = pi.files - 1
      BY Zenon, <1>1, <3>1, CloseLast
    <3>. QED  BY Zenon, <1>3, <2>3, <2>5, <3>2
  <2>. QED  BY Zenon, <2>4, <2>5
<1>4. CASE e = "write"
  <2>1. f = "read"
    BY <1>4 DEF Ends
  <2>2. (e = "write") = TRUE
    BY <1>4
  <2>3. pi' = Pipeclose(pi, TRUE)
    BY Zenon, <1>2, <2>2
  <2>4. CASE ends[f] # {}
    BY Zenon, <1>1, <1>4, <2>1, <2>3, <2>4, CloseOne
  <2>5. CASE ends[f] = {}
    <3>1. ~pi.readopen
      BY Zenon, <1>1, <2>1, <2>5
    <3>2. LET t == Pipeclose(pi, TRUE)
          IN  /\ t \in PipeRecord /\ t.nread = 0 /\ t.nwrite = 0 /\ ~t.panic /\ ~t.page
              /\ ~t.readopen /\ ~t.writeopen /\ t.files = pi.files - 1
      BY Zenon, <1>1, <3>1, CloseLast
    <3>. QED  BY Zenon, <1>4, <2>3, <2>5, <3>2
  <2>. QED  BY Zenon, <2>4, <2>5
<1>. QED  BY Zenon, <1>3, <1>4 DEF Ends

\* pipewrite puts a byte and piperead takes m bytes.
LEMMA BytesMove ==
  ASSUME PipeAssumption, PipeInv
  PROVE  /\ \A b \in Bytes :
              LET t == [pi EXCEPT !.data[pi.nwrite % PIPESIZE] = b, !.nwrite = (@ + 1) % WORD]
              IN  /\ t \in PipeRecord
                  /\ t.data = [pi.data EXCEPT ![pi.nwrite % PIPESIZE] = b]
                  /\ t.nwrite = (pi.nwrite + 1) % WORD /\ t.nread = pi.nread
                  /\ t.readopen = pi.readopen /\ t.writeopen = pi.writeopen /\ t.page = pi.page
                  /\ t.files = pi.files /\ t.panic = pi.panic
         /\ \A m \in Nat :
              LET t == [pi EXCEPT !.nread = (@ + m) % WORD]
              IN  /\ t \in PipeRecord
                  /\ t.data = pi.data /\ t.nwrite = pi.nwrite /\ t.nread = (pi.nread + m) % WORD
                  /\ t.readopen = pi.readopen /\ t.writeopen = pi.writeopen /\ t.page = pi.page
                  /\ t.files = pi.files /\ t.panic = pi.panic
<1>1. pi \in PipeRecord /\ pi.nread \in Nat /\ pi.nwrite \in Nat /\ pi.data \in Contents
  BY RingSizes DEF PipeInv, Typed, PipeRecord
<1>2. ASSUME NEW b \in Bytes
      PROVE  LET t == [pi EXCEPT !.data[pi.nwrite % PIPESIZE] = b, !.nwrite = (@ + 1) % WORD]
             IN  /\ t \in PipeRecord
                 /\ t.data = [pi.data EXCEPT ![pi.nwrite % PIPESIZE] = b]
                 /\ t.nwrite = (pi.nwrite + 1) % WORD /\ t.nread = pi.nread
                 /\ t.readopen = pi.readopen /\ t.writeopen = pi.writeopen /\ t.page = pi.page
                 /\ t.files = pi.files /\ t.panic = pi.panic
  <2>. DEFINE d == [pi.data EXCEPT ![pi.nwrite % PIPESIZE] = b]
              c == (pi.nwrite + 1) % WORD
              t == [[pi EXCEPT !.data = d] EXCEPT !.nwrite = c]
              u == [pi EXCEPT !.data[pi.nwrite % PIPESIZE] = b, !.nwrite = (@ + 1) % WORD]
  <2>1. d \in Contents
    BY Zenon, <1>1 DEF Contents
  <2>2. c \in Counters
    BY <1>1, RingSizes
  <2>3. t = u
    BY <1>1 DEF PipeRecord
  <2>. HIDE DEF d, c
  <2>4. t \in PipeRecord
    BY Zenon, <1>1, <2>1, <2>2, Assign
  <2>5. /\ t.data = d /\ t.nwrite = c /\ t.nread = pi.nread
        /\ t.readopen = pi.readopen /\ t.writeopen = pi.writeopen /\ t.page = pi.page
        /\ t.files = pi.files /\ t.panic = pi.panic
    BY <1>1 DEF PipeRecord
  <2>. HIDE DEF t, u
  <2>6. /\ u \in PipeRecord /\ u.data = d /\ u.nwrite = c /\ u.nread = pi.nread
        /\ u.readopen = pi.readopen /\ u.writeopen = pi.writeopen /\ u.page = pi.page
        /\ u.files = pi.files /\ u.panic = pi.panic
    BY Zenon, <2>3, <2>4, <2>5
  <2>. QED  BY Zenon, <2>6 DEF u, d, c
<1>3. ASSUME NEW m \in Nat
      PROVE  LET t == [pi EXCEPT !.nread = (@ + m) % WORD]
             IN  /\ t \in PipeRecord
                 /\ t.data = pi.data /\ t.nwrite = pi.nwrite /\ t.nread = (pi.nread + m) % WORD
                 /\ t.readopen = pi.readopen /\ t.writeopen = pi.writeopen /\ t.page = pi.page
                 /\ t.files = pi.files /\ t.panic = pi.panic
  <2>. DEFINE c == (pi.nread + m) % WORD
              t == [pi EXCEPT !.nread = c]
  <2>1. c \in Counters
    BY <1>1, RingSizes
  <2>. HIDE DEF c
  <2>2. t \in PipeRecord
    BY Zenon, <1>1, <2>1, Assign
  <2>3. /\ t.nread = c /\ t.data = pi.data /\ t.nwrite = pi.nwrite
        /\ t.readopen = pi.readopen /\ t.writeopen = pi.writeopen /\ t.page = pi.page
        /\ t.files = pi.files /\ t.panic = pi.panic
    BY <1>1 DEF PipeRecord
  <2>4. t = [pi EXCEPT !.nread = (@ + m) % WORD]
    BY DEF c
  <2>. HIDE DEF t
  <2>. QED  BY Zenon, <2>2, <2>3, <2>4 DEF c
<1>. QED  BY Zenon, <1>2, <1>3

\* Who is woken by a close.
LEMMA CloseWakes ==
  ASSUME NEW p \in Procs
  PROVE  /\ Close(p, "read") => pc' = pc \/ (ends["read"] = {p} /\ WakeWriters(p, "idle"))
         /\ Close(p, "write") => pc' = pc \/ (ends["write"] = {p} /\ WakeReaders(p, "idle"))
<1>1. "read" # "write"
  OBVIOUS
<1>. QED  BY <1>1 DEF Close

---------------------------------------------------------------------------
(* Every action keeps the invariant.                                       *)

\* A process stays at a label of the model.
LEMMA StepPc ==
  ASSUME PipeAssumption, PipeInv, [Next]_vars
  PROVE  (pc \in [Procs -> Labels])'
<1>1. ASSUME NEW p \in Procs, PipeFails(p) PROVE (pc \in [Procs -> Labels])'
  BY <1>1 DEF PipeFails, PipeInv, Typed, Labels, WriteAt, ReadAt
<1>2. ASSUME NEW p \in Procs, Pipe(p) PROVE (pc \in [Procs -> Labels])'
  BY <1>2 DEF Pipe, PipeInv, Typed, Labels, WriteAt, ReadAt
<1>3. ASSUME NEW p \in Procs, Write(p) PROVE (pc \in [Procs -> Labels])'
  BY <1>3 DEF Write, Goto, PipeInv, Typed, Labels, WriteAt, ReadAt
<1>4. ASSUME NEW p \in Procs, Read(p) PROVE (pc \in [Procs -> Labels])'
  BY <1>4 DEF Read, Goto, PipeInv, Typed, Labels, WriteAt, ReadAt
<1>5. ASSUME NEW p \in Procs, NEW q \in Procs, Fork(p, q) PROVE (pc \in [Procs -> Labels])'
  BY <1>5 DEF Fork, Goto, PipeInv, Typed, Labels, WriteAt, ReadAt
<1>6. ASSUME NEW p \in Procs, Close(p, "read") PROVE (pc \in [Procs -> Labels])'
  BY Zenon, <1>6, CloseWakes DEF WakeWriters, Wakeup, PipeInv, Typed, Labels, WriteAt, ReadAt
<1>7. ASSUME NEW p \in Procs, Close(p, "write") PROVE (pc \in [Procs -> Labels])'
  BY Zenon, <1>7, CloseWakes DEF WakeReaders, Wakeup, PipeInv, Typed, Labels, WriteAt, ReadAt
<1>8. ASSUME NEW p \in Procs, Kill(p) PROVE (pc \in [Procs -> Labels])'
  BY <1>8 DEF Kill, Goto, PipeInv, Typed, Labels, WriteAt, ReadAt
<1>9. ASSUME NEW p \in Procs, Exit(p) PROVE (pc \in [Procs -> Labels])'
  BY <1>9 DEF Exit, Goto, PipeInv, Typed, Labels, WriteAt, ReadAt
<1>10. ASSUME NEW p \in Procs, WriteLock(p) PROVE (pc \in [Procs -> Labels])'
  BY <1>10 DEF WriteLock, Goto, PipeInv, Typed, Labels, WriteAt, ReadAt
<1>11. ASSUME NEW p \in Procs, WriteRefused(p) PROVE (pc \in [Procs -> Labels])'
  BY <1>11 DEF WriteRefused, Returns, Goto, PipeInv, Typed, Labels, WriteAt, ReadAt
<1>12. ASSUME NEW p \in Procs, WriteFull(p) PROVE (pc \in [Procs -> Labels])'
  BY <1>12 DEF WriteFull, WakeReaders, Wakeup, PipeInv, Typed, Labels, WriteAt, ReadAt
<1>13. ASSUME NEW p \in Procs, WriteSleep(p) PROVE (pc \in [Procs -> Labels])'
  BY <1>13 DEF WriteSleep, Goto, PipeInv, Typed, Labels, WriteAt, ReadAt
<1>14. ASSUME NEW p \in Procs, WriteByte(p) PROVE (pc \in [Procs -> Labels])'
  BY <1>14 DEF WriteByte, PipeInv, Typed, Labels, WriteAt, ReadAt
<1>15. ASSUME NEW p \in Procs, WriteDone(p) PROVE (pc \in [Procs -> Labels])'
  BY <1>15 DEF WriteDone, Returns, WakeReaders, Wakeup, PipeInv, Typed, Labels, WriteAt, ReadAt
<1>16. ASSUME NEW p \in Procs, ReadEmpty(p) PROVE (pc \in [Procs -> Labels])'
  BY Zenon, <1>16 DEF ReadEmpty, Returns, Goto, PipeInv, Typed, Labels, WriteAt, ReadAt
<1>17. ASSUME NEW p \in Procs, ReadSleep(p) PROVE (pc \in [Procs -> Labels])'
  BY <1>17 DEF ReadSleep, Goto, PipeInv, Typed, Labels, WriteAt, ReadAt
<1>18. ASSUME NEW p \in Procs, ReadBytes(p) PROVE (pc \in [Procs -> Labels])'
  BY <1>18 DEF ReadBytes, Returns, WakeWriters, Wakeup, PipeInv, Typed, Labels, WriteAt, ReadAt
<1>19. CASE UNCHANGED vars
  BY <1>19 DEF vars, PipeInv, Typed, Labels, WriteAt, ReadAt
<1>. QED
  BY ONLY Zenon, [Next]_vars, <1>1, <1>2, <1>3, <1>4, <1>5, <1>6, <1>7, <1>8, <1>9, <1>10, <1>11, <1>12, <1>13, <1>14, <1>15, <1>16, <1>17, <1>18, <1>19 DEF Next, Calls

\* The sizes of the calls, and how far they are.
LEMMA StepLocals ==
  ASSUME PipeAssumption, PipeInv, [Next]_vars
  PROVE  (n \in [Procs -> Nat] /\ i \in [Procs -> Nat])'
<1>1. ASSUME NEW p \in Procs, PipeFails(p) PROVE (n \in [Procs -> Nat] /\ i \in [Procs -> Nat])'
  BY <1>1 DEF PipeFails, PipeInv, Typed, PipeAssumption
<1>2. ASSUME NEW p \in Procs, Pipe(p) PROVE (n \in [Procs -> Nat] /\ i \in [Procs -> Nat])'
  BY <1>2 DEF Pipe, PipeInv, Typed, PipeAssumption
<1>3. ASSUME NEW p \in Procs, Write(p) PROVE (n \in [Procs -> Nat] /\ i \in [Procs -> Nat])'
  BY <1>3 DEF Write, Goto, PipeInv, Typed, PipeAssumption
<1>4. ASSUME NEW p \in Procs, Read(p) PROVE (n \in [Procs -> Nat] /\ i \in [Procs -> Nat])'
  BY <1>4 DEF Read, Goto, PipeInv, Typed, PipeAssumption
<1>5. ASSUME NEW p \in Procs, NEW q \in Procs, Fork(p, q) PROVE (n \in [Procs -> Nat] /\ i \in [Procs -> Nat])'
  BY <1>5 DEF Fork, Goto, PipeInv, Typed, PipeAssumption
<1>6. ASSUME NEW p \in Procs, Close(p, "read") PROVE (n \in [Procs -> Nat] /\ i \in [Procs -> Nat])'
  BY <1>6 DEF Close, WakeReaders, WakeWriters, Wakeup, PipeInv, Typed, PipeAssumption
<1>7. ASSUME NEW p \in Procs, Close(p, "write") PROVE (n \in [Procs -> Nat] /\ i \in [Procs -> Nat])'
  BY <1>7 DEF Close, WakeReaders, WakeWriters, Wakeup, PipeInv, Typed, PipeAssumption
<1>8. ASSUME NEW p \in Procs, Kill(p) PROVE (n \in [Procs -> Nat] /\ i \in [Procs -> Nat])'
  BY <1>8 DEF Kill, Goto, PipeInv, Typed, PipeAssumption
<1>9. ASSUME NEW p \in Procs, Exit(p) PROVE (n \in [Procs -> Nat] /\ i \in [Procs -> Nat])'
  BY <1>9 DEF Exit, Goto, PipeInv, Typed, PipeAssumption
<1>10. ASSUME NEW p \in Procs, WriteLock(p) PROVE (n \in [Procs -> Nat] /\ i \in [Procs -> Nat])'
  BY <1>10 DEF WriteLock, Goto, PipeInv, Typed, PipeAssumption
<1>11. ASSUME NEW p \in Procs, WriteRefused(p) PROVE (n \in [Procs -> Nat] /\ i \in [Procs -> Nat])'
  BY <1>11 DEF WriteRefused, Returns, Goto, PipeInv, Typed, PipeAssumption
<1>12. ASSUME NEW p \in Procs, WriteFull(p) PROVE (n \in [Procs -> Nat] /\ i \in [Procs -> Nat])'
  BY <1>12 DEF WriteFull, WakeReaders, Wakeup, PipeInv, Typed, PipeAssumption
<1>13. ASSUME NEW p \in Procs, WriteSleep(p) PROVE (n \in [Procs -> Nat] /\ i \in [Procs -> Nat])'
  BY <1>13 DEF WriteSleep, Goto, PipeInv, Typed, PipeAssumption
<1>14. ASSUME NEW p \in Procs, WriteByte(p) PROVE (n \in [Procs -> Nat] /\ i \in [Procs -> Nat])'
  BY <1>14 DEF WriteByte, PipeInv, Typed, PipeAssumption
<1>15. ASSUME NEW p \in Procs, WriteDone(p) PROVE (n \in [Procs -> Nat] /\ i \in [Procs -> Nat])'
  BY <1>15 DEF WriteDone, Returns, WakeReaders, Wakeup, PipeInv, Typed, PipeAssumption
<1>16. ASSUME NEW p \in Procs, ReadEmpty(p) PROVE (n \in [Procs -> Nat] /\ i \in [Procs -> Nat])'
  <2>1. UNCHANGED <<n, i>> \/ Returns(p)
    BY Zenon, <1>16 DEF ReadEmpty
  <2>. QED  BY <2>1 DEF Returns, PipeInv, Typed
<1>17. ASSUME NEW p \in Procs, ReadSleep(p) PROVE (n \in [Procs -> Nat] /\ i \in [Procs -> Nat])'
  BY <1>17 DEF ReadSleep, Goto, PipeInv, Typed, PipeAssumption
<1>18. ASSUME NEW p \in Procs, ReadBytes(p) PROVE (n \in [Procs -> Nat] /\ i \in [Procs -> Nat])'
  BY <1>18 DEF ReadBytes, Returns, WakeWriters, Wakeup, PipeInv, Typed, PipeAssumption
<1>19. CASE UNCHANGED vars
  BY <1>19 DEF vars, PipeInv, Typed, PipeAssumption
<1>. QED
  BY ONLY Zenon, [Next]_vars, <1>1, <1>2, <1>3, <1>4, <1>5, <1>6, <1>7, <1>8, <1>9, <1>10, <1>11, <1>12, <1>13, <1>14, <1>15, <1>16, <1>17, <1>18, <1>19 DEF Next, Calls

\* The open ends.
LEMMA StepEnds ==
  ASSUME PipeAssumption, PipeInv, [Next]_vars
  PROVE  (ends \in [Ends -> SUBSET Procs])'
<1>1. ASSUME NEW p \in Procs, PipeFails(p) PROVE (ends \in [Ends -> SUBSET Procs])'
  BY <1>1 DEF PipeFails, PipeInv, Typed, Ends
<1>2. ASSUME NEW p \in Procs, Pipe(p) PROVE (ends \in [Ends -> SUBSET Procs])'
  BY <1>2 DEF Pipe, PipeInv, Typed, Ends
<1>3. ASSUME NEW p \in Procs, Write(p) PROVE (ends \in [Ends -> SUBSET Procs])'
  BY <1>3 DEF Write, Goto, PipeInv, Typed, Ends
<1>4. ASSUME NEW p \in Procs, Read(p) PROVE (ends \in [Ends -> SUBSET Procs])'
  BY <1>4 DEF Read, Goto, PipeInv, Typed, Ends
<1>5. ASSUME NEW p \in Procs, NEW q \in Procs, Fork(p, q) PROVE (ends \in [Ends -> SUBSET Procs])'
  BY <1>5 DEF Fork, Goto, PipeInv, Typed, Ends
<1>6. ASSUME NEW p \in Procs, Close(p, "read") PROVE (ends \in [Ends -> SUBSET Procs])'
  BY <1>6 DEF Close, WakeReaders, WakeWriters, Wakeup, PipeInv, Typed, Ends
<1>7. ASSUME NEW p \in Procs, Close(p, "write") PROVE (ends \in [Ends -> SUBSET Procs])'
  BY <1>7 DEF Close, WakeReaders, WakeWriters, Wakeup, PipeInv, Typed, Ends
<1>8. ASSUME NEW p \in Procs, Kill(p) PROVE (ends \in [Ends -> SUBSET Procs])'
  BY <1>8 DEF Kill, Goto, PipeInv, Typed, Ends
<1>9. ASSUME NEW p \in Procs, Exit(p) PROVE (ends \in [Ends -> SUBSET Procs])'
  BY <1>9 DEF Exit, Goto, PipeInv, Typed, Ends
<1>10. ASSUME NEW p \in Procs, WriteLock(p) PROVE (ends \in [Ends -> SUBSET Procs])'
  BY <1>10 DEF WriteLock, Goto, PipeInv, Typed, Ends
<1>11. ASSUME NEW p \in Procs, WriteRefused(p) PROVE (ends \in [Ends -> SUBSET Procs])'
  BY <1>11 DEF WriteRefused, Returns, Goto, PipeInv, Typed, Ends
<1>12. ASSUME NEW p \in Procs, WriteFull(p) PROVE (ends \in [Ends -> SUBSET Procs])'
  BY <1>12 DEF WriteFull, WakeReaders, Wakeup, PipeInv, Typed, Ends
<1>13. ASSUME NEW p \in Procs, WriteSleep(p) PROVE (ends \in [Ends -> SUBSET Procs])'
  BY <1>13 DEF WriteSleep, Goto, PipeInv, Typed, Ends
<1>14. ASSUME NEW p \in Procs, WriteByte(p) PROVE (ends \in [Ends -> SUBSET Procs])'
  BY <1>14 DEF WriteByte, PipeInv, Typed, Ends
<1>15. ASSUME NEW p \in Procs, WriteDone(p) PROVE (ends \in [Ends -> SUBSET Procs])'
  BY <1>15 DEF WriteDone, Returns, WakeReaders, Wakeup, PipeInv, Typed, Ends
<1>16. ASSUME NEW p \in Procs, ReadEmpty(p) PROVE (ends \in [Ends -> SUBSET Procs])'
  BY <1>16 DEF ReadEmpty, Returns, Goto, PipeInv, Typed, Ends
<1>17. ASSUME NEW p \in Procs, ReadSleep(p) PROVE (ends \in [Ends -> SUBSET Procs])'
  BY <1>17 DEF ReadSleep, Goto, PipeInv, Typed, Ends
<1>18. ASSUME NEW p \in Procs, ReadBytes(p) PROVE (ends \in [Ends -> SUBSET Procs])'
  BY <1>18 DEF ReadBytes, Returns, WakeWriters, Wakeup, PipeInv, Typed, Ends
<1>19. CASE UNCHANGED vars
  BY <1>19 DEF vars, PipeInv, Typed, Ends
<1>. QED
  BY ONLY Zenon, [Next]_vars, <1>1, <1>2, <1>3, <1>4, <1>5, <1>6, <1>7, <1>8, <1>9, <1>10, <1>11, <1>12, <1>13, <1>14, <1>15, <1>16, <1>17, <1>18, <1>19 DEF Next, Calls

\* What the actions leave of the record and the bytes.
LEMMA PipeKept ==
  ASSUME PipeAssumption, PipeInv, NEW p \in Procs
  PROVE  /\ Close(p, "read") => pi' = pi \/ ends["read"] = {p}
         /\ Close(p, "write") => pi' = pi \/ ends["write"] = {p}
  BY DEF Close

\* The lengths in the ring.
LEMMA Lengths ==
  ASSUME PipeAssumption, PipeInv
  PROVE  /\ pi \in PipeRecord /\ pi.nread \in Nat /\ pi.nwrite \in Nat /\ pi.data \in Contents
         /\ Len(queue) \in Nat /\ Len(queue) <= PIPESIZE
         /\ pi.nwrite = (pi.nread + Len(queue)) % WORD
         /\ (pi.nwrite - pi.nread) % WORD = Len(queue)
         /\ ~Full => Len(queue) < PIPESIZE
<1>. DEFINE r == pi.nread
            w == pi.nwrite
            l == Len(queue)
            d == 0 - r
            sum == r + l
<1>1. /\ pi \in PipeRecord /\ r \in Nat /\ w \in Nat /\ pi.data \in Contents
  BY RingSizes DEF PipeInv, Typed, PipeRecord
<1>2. l \in Nat /\ l <= PIPESIZE /\ w = sum % WORD
  BY DEF PipeInv, RingInv, Typed
<1>3. (w - r) % WORD = l
  <2>. HIDE DEF r, w, l
  <2>1. d \in Int /\ sum \in Int /\ sum + d = l /\ w - r = w + d
    BY <1>1, <1>2
  <2>. HIDE DEF d, sum
  <2>2. ((sum % WORD) + d) % WORD = (sum + d) % WORD
    BY <2>1, RingSizes, ModAdd
  <2>3. l \in 0 .. WORD - 1
    BY <1>2, RingSizes
  <2>4. l % WORD = l
    BY <2>3, RingSizes, ModSmall
  <2>. QED  BY <1>2, <2>1, <2>2, <2>4
<1>4. ~Full => l < PIPESIZE
  <2>. HIDE DEF r, w, l
  <2>1. l = PIPESIZE => sum = r + PIPESIZE
    BY <1>2
  <2>2. l = PIPESIZE => w = (r + PIPESIZE) % WORD
    BY <1>2, <2>1
  <2>3. l = PIPESIZE => Full
    BY <2>2 DEF Full, r, w
  <2>. QED  BY <1>2, <2>3, RingSizes
<1>. QED  BY <1>1, <1>2, <1>3, <1>4

\* struct pipe keeps its type.
LEMMA StepRecord ==
  ASSUME PipeAssumption, PipeInv, [Next]_vars
  PROVE  (pi \in PipeRecord)'
<1>1. ASSUME NEW p \in Procs, PipeFails(p) PROVE (pi \in PipeRecord)'
  BY Zenon, <1>1, PipeFailsLeaves
<1>2. ASSUME NEW p \in Procs, Pipe(p) PROVE (pi \in PipeRecord)'
  <2>1. pi' = Pipealloc(pi) /\ pi \in PipeRecord
    BY <1>2 DEF Pipe, PipeInv, Typed
  <2>. QED  BY Zenon, <2>1, Alloc
<1>3. ASSUME NEW p \in Procs, Write(p) PROVE (pi \in PipeRecord)'
  BY <1>3 DEF Write, Goto, PipeInv, Typed
<1>4. ASSUME NEW p \in Procs, Read(p) PROVE (pi \in PipeRecord)'
  BY <1>4 DEF Read, Goto, PipeInv, Typed
<1>5. ASSUME NEW p \in Procs, NEW q \in Procs, Fork(p, q) PROVE (pi \in PipeRecord)'
  BY <1>5 DEF Fork, Goto, PipeInv, Typed
<1>6. ASSUME NEW p \in Procs, Close(p, "read") PROVE (pi \in PipeRecord)'
  <2>1. CASE ends["read"] = {p}
    <3>1. "read" \in Ends /\ "write" \in Ends /\ "read" # "write"
      BY DEF Ends
    <3>. QED  BY Zenon, <1>6, <2>1, <3>1, CloseLeaves
  <2>2. CASE pi' = pi
    BY Zenon, <2>2 DEF PipeInv, Typed
  <2>. QED  BY Zenon, <1>6, <2>1, <2>2, PipeKept
<1>7. ASSUME NEW p \in Procs, Close(p, "write") PROVE (pi \in PipeRecord)'
  <2>1. CASE ends["write"] = {p}
    <3>1. "write" \in Ends /\ "read" \in Ends /\ "write" # "read"
      BY DEF Ends
    <3>. QED  BY Zenon, <1>7, <2>1, <3>1, CloseLeaves
  <2>2. CASE pi' = pi
    BY Zenon, <2>2 DEF PipeInv, Typed
  <2>. QED  BY Zenon, <1>7, <2>1, <2>2, PipeKept
<1>8. ASSUME NEW p \in Procs, Kill(p) PROVE (pi \in PipeRecord)'
  BY <1>8 DEF Kill, Goto, PipeInv, Typed
<1>9. ASSUME NEW p \in Procs, Exit(p) PROVE (pi \in PipeRecord)'
  BY <1>9 DEF Exit, Goto, PipeInv, Typed
<1>10. ASSUME NEW p \in Procs, WriteLock(p) PROVE (pi \in PipeRecord)'
  BY <1>10 DEF WriteLock, Goto, PipeInv, Typed
<1>11. ASSUME NEW p \in Procs, WriteRefused(p) PROVE (pi \in PipeRecord)'
  BY <1>11 DEF WriteRefused, Returns, Goto, PipeInv, Typed
<1>12. ASSUME NEW p \in Procs, WriteFull(p) PROVE (pi \in PipeRecord)'
  BY <1>12 DEF WriteFull, WakeReaders, Wakeup, PipeInv, Typed
<1>13. ASSUME NEW p \in Procs, WriteSleep(p) PROVE (pi \in PipeRecord)'
  BY <1>13 DEF WriteSleep, Goto, PipeInv, Typed
<1>14. ASSUME NEW p \in Procs, WriteByte(p) PROVE (pi \in PipeRecord)'
  <2>1. PICK b \in Bytes :
          pi' = [pi EXCEPT !.data[pi.nwrite % PIPESIZE] = b, !.nwrite = (@ + 1) % WORD]
    BY Zenon, <1>14 DEF WriteByte
  <2>. QED  BY ZenonT(30), <2>1, BytesMove
<1>15. ASSUME NEW p \in Procs, WriteDone(p) PROVE (pi \in PipeRecord)'
  BY <1>15 DEF WriteDone, Returns, WakeReaders, Wakeup, PipeInv, Typed
<1>16. ASSUME NEW p \in Procs, ReadEmpty(p) PROVE (pi \in PipeRecord)'
  BY <1>16 DEF ReadEmpty, Returns, Goto, PipeInv, Typed
<1>17. ASSUME NEW p \in Procs, ReadSleep(p) PROVE (pi \in PipeRecord)'
  BY <1>17 DEF ReadSleep, Goto, PipeInv, Typed
<1>18. ASSUME NEW p \in Procs, ReadBytes(p) PROVE (pi \in PipeRecord)'
  <2>1. PICK m \in 0 .. n[p] : pi' = [pi EXCEPT !.nread = (@ + m) % WORD]
    BY <1>18 DEF ReadBytes
  <2>2. m \in Nat
    BY <1>18 DEF PipeInv, Typed
  <2>. QED  BY Zenon, <2>1, <2>2, BytesMove
<1>19. CASE UNCHANGED vars
  BY <1>19 DEF vars, PipeInv, Typed
<1>. QED
  BY ONLY Zenon, [Next]_vars, <1>1, <1>2, <1>3, <1>4, <1>5, <1>6, <1>7, <1>8, <1>9, <1>10, <1>11, <1>12, <1>13, <1>14, <1>15, <1>16, <1>17, <1>18, <1>19 DEF Next, Calls

\* The bytes on their way.
LEMMA StepQueue ==
  ASSUME PipeAssumption, PipeInv, [Next]_vars
  PROVE  (queue \in Seq(Bytes))'
<1>1. ASSUME NEW p \in Procs, PipeFails(p) PROVE (queue \in Seq(Bytes))'
  BY <1>1 DEF PipeFails, PipeInv, Typed
<1>2. ASSUME NEW p \in Procs, Pipe(p) PROVE (queue \in Seq(Bytes))'
  BY <1>2 DEF Pipe, PipeInv, Typed
<1>3. ASSUME NEW p \in Procs, Write(p) PROVE (queue \in Seq(Bytes))'
  BY <1>3 DEF Write, Goto, PipeInv, Typed
<1>4. ASSUME NEW p \in Procs, Read(p) PROVE (queue \in Seq(Bytes))'
  BY <1>4 DEF Read, Goto, PipeInv, Typed
<1>5. ASSUME NEW p \in Procs, NEW q \in Procs, Fork(p, q) PROVE (queue \in Seq(Bytes))'
  BY <1>5 DEF Fork, Goto, PipeInv, Typed
<1>6. ASSUME NEW p \in Procs, Close(p, "read") PROVE (queue \in Seq(Bytes))'
  <2>1. queue' = queue \/ queue' = <<>>
    BY <1>6 DEF Close
  <2>2. <<>> \in Seq(Bytes)
    OBVIOUS
  <2>. QED  BY Zenon, <2>1, <2>2 DEF PipeInv, Typed
<1>7. ASSUME NEW p \in Procs, Close(p, "write") PROVE (queue \in Seq(Bytes))'
  <2>1. queue' = queue \/ queue' = <<>>
    BY <1>7 DEF Close
  <2>2. <<>> \in Seq(Bytes)
    OBVIOUS
  <2>. QED  BY Zenon, <2>1, <2>2 DEF PipeInv, Typed
<1>8. ASSUME NEW p \in Procs, Kill(p) PROVE (queue \in Seq(Bytes))'
  BY <1>8 DEF Kill, Goto, PipeInv, Typed
<1>9. ASSUME NEW p \in Procs, Exit(p) PROVE (queue \in Seq(Bytes))'
  BY <1>9 DEF Exit, Goto, PipeInv, Typed
<1>10. ASSUME NEW p \in Procs, WriteLock(p) PROVE (queue \in Seq(Bytes))'
  BY <1>10 DEF WriteLock, Goto, PipeInv, Typed
<1>11. ASSUME NEW p \in Procs, WriteRefused(p) PROVE (queue \in Seq(Bytes))'
  BY <1>11 DEF WriteRefused, Returns, Goto, PipeInv, Typed
<1>12. ASSUME NEW p \in Procs, WriteFull(p) PROVE (queue \in Seq(Bytes))'
  BY <1>12 DEF WriteFull, WakeReaders, Wakeup, PipeInv, Typed
<1>13. ASSUME NEW p \in Procs, WriteSleep(p) PROVE (queue \in Seq(Bytes))'
  BY <1>13 DEF WriteSleep, Goto, PipeInv, Typed
<1>14. ASSUME NEW p \in Procs, WriteByte(p) PROVE (queue \in Seq(Bytes))'
  BY <1>14 DEF WriteByte, PipeInv, Typed
<1>15. ASSUME NEW p \in Procs, WriteDone(p) PROVE (queue \in Seq(Bytes))'
  BY <1>15 DEF WriteDone, Returns, WakeReaders, Wakeup, PipeInv, Typed
<1>16. ASSUME NEW p \in Procs, ReadEmpty(p) PROVE (queue \in Seq(Bytes))'
  BY <1>16 DEF ReadEmpty, Returns, Goto, PipeInv, Typed
<1>17. ASSUME NEW p \in Procs, ReadSleep(p) PROVE (queue \in Seq(Bytes))'
  BY <1>17 DEF ReadSleep, Goto, PipeInv, Typed
<1>18. ASSUME NEW p \in Procs, ReadBytes(p) PROVE (queue \in Seq(Bytes))'
  <2>1. PICK m \in 0 .. n[p] :
          /\ m <= (pi.nwrite - pi.nread) % WORD
          /\ queue' = SubSeq(queue, m + 1, Len(queue))
    BY Zenon, <1>18 DEF ReadBytes
  <2>2. m \in Nat /\ m <= Len(queue)
    BY <1>18, <2>1, Lengths DEF PipeInv, Typed
  <2>3. queue \in Seq(Bytes) /\ Len(queue) \in Nat
    BY DEF PipeInv, Typed
  <2>. QED  BY <2>1, <2>2, <2>3
<1>19. CASE UNCHANGED vars
  BY <1>19 DEF vars, PipeInv, Typed
<1>. QED
  BY ONLY Zenon, [Next]_vars, <1>1, <1>2, <1>3, <1>4, <1>5, <1>6, <1>7, <1>8, <1>9, <1>10, <1>11, <1>12, <1>13, <1>14, <1>15, <1>16, <1>17, <1>18, <1>19 DEF Next, Calls

\* The processes in a call have its end open.
LEMMA StepEndsInv ==
  ASSUME PipeAssumption, PipeInv, [Next]_vars
  PROVE  EndsInv'
<1>1. ASSUME NEW p \in Procs, PipeFails(p) PROVE EndsInv'
  BY <1>1 DEF PipeFails, PipeInv, Typed, EndsInv, Ends, Labels, WriteAt, ReadAt
<1>2. ASSUME NEW p \in Procs, Pipe(p) PROVE EndsInv'
  <2>1. ends["read"] = {} /\ ends["write"] = {}
    BY <1>2 DEF Pipe, PipeInv, OpenInv
  <2>2. pc' = pc /\ ends' = [e \in {"read", "write"} |-> {p}] /\ pc[p] = "idle"
    BY <1>2 DEF Pipe
  <2>. QED  BY <2>1, <2>2 DEF PipeInv, EndsInv, WriteAt, ReadAt
<1>3. ASSUME NEW p \in Procs, Write(p) PROVE EndsInv'
  BY <1>3 DEF Write, Goto, PipeInv, Typed, EndsInv, Ends, Labels, WriteAt, ReadAt
<1>4. ASSUME NEW p \in Procs, Read(p) PROVE EndsInv'
  BY <1>4 DEF Read, Goto, PipeInv, Typed, EndsInv, Ends, Labels, WriteAt, ReadAt
<1>5. ASSUME NEW p \in Procs, NEW q \in Procs, Fork(p, q) PROVE EndsInv'
  BY <1>5 DEF Fork, Goto, PipeInv, Typed, EndsInv, Ends, Labels, WriteAt, ReadAt
<1>6. ASSUME NEW p \in Procs, Close(p, "read") PROVE EndsInv'
  <2>1. ends' = [ends EXCEPT !["read"] = @ \ {p}] /\ pc[p] = "idle"
    BY <1>6 DEF Close
  <2>2. CASE pc' = pc
    BY <2>1, <2>2 DEF PipeInv, Typed, EndsInv, Ends, WriteAt, ReadAt
  <2>3. CASE WakeWriters(p, "idle")
    BY <2>1, <2>3 DEF WakeWriters, Wakeup, PipeInv, Typed, EndsInv, Ends, WriteAt, ReadAt
  <2>. QED  BY <1>6, <2>2, <2>3, CloseWakes
<1>7. ASSUME NEW p \in Procs, Close(p, "write") PROVE EndsInv'
  <2>1. ends' = [ends EXCEPT !["write"] = @ \ {p}] /\ pc[p] = "idle"
    BY <1>7 DEF Close
  <2>2. CASE pc' = pc
    BY <2>1, <2>2 DEF PipeInv, Typed, EndsInv, Ends, WriteAt, ReadAt
  <2>3. CASE WakeReaders(p, "idle")
    BY <2>1, <2>3 DEF WakeReaders, Wakeup, PipeInv, Typed, EndsInv, Ends, WriteAt, ReadAt
  <2>. QED  BY <1>7, <2>2, <2>3, CloseWakes
<1>8. ASSUME NEW p \in Procs, Kill(p) PROVE EndsInv'
  BY <1>8 DEF Kill, Goto, PipeInv, Typed, EndsInv, Ends, Labels, WriteAt, ReadAt
<1>9. ASSUME NEW p \in Procs, Exit(p) PROVE EndsInv'
  BY <1>9 DEF Exit, Goto, PipeInv, Typed, EndsInv, Ends, Labels, WriteAt, ReadAt
<1>10. ASSUME NEW p \in Procs, WriteLock(p) PROVE EndsInv'
  BY <1>10 DEF WriteLock, Goto, PipeInv, Typed, EndsInv, Ends, Labels, WriteAt, ReadAt
<1>11. ASSUME NEW p \in Procs, WriteRefused(p) PROVE EndsInv'
  BY <1>11 DEF WriteRefused, Returns, Goto, PipeInv, Typed, EndsInv, Ends, Labels, WriteAt, ReadAt
<1>12. ASSUME NEW p \in Procs, WriteFull(p) PROVE EndsInv'
  BY <1>12 DEF WriteFull, WakeReaders, Wakeup, PipeInv, Typed, EndsInv, Ends, Labels, WriteAt, ReadAt
<1>13. ASSUME NEW p \in Procs, WriteSleep(p) PROVE EndsInv'
  BY <1>13 DEF WriteSleep, Goto, PipeInv, Typed, EndsInv, Ends, Labels, WriteAt, ReadAt
<1>14. ASSUME NEW p \in Procs, WriteByte(p) PROVE EndsInv'
  BY <1>14 DEF WriteByte, PipeInv, Typed, EndsInv, Ends, Labels, WriteAt, ReadAt
<1>15. ASSUME NEW p \in Procs, WriteDone(p) PROVE EndsInv'
  BY <1>15 DEF WriteDone, Returns, WakeReaders, Wakeup, PipeInv, Typed, EndsInv, Ends, Labels, WriteAt, ReadAt
<1>16. ASSUME NEW p \in Procs, ReadEmpty(p) PROVE EndsInv'
  BY <1>16 DEF ReadEmpty, Returns, Goto, PipeInv, Typed, EndsInv, Ends, Labels, WriteAt, ReadAt
<1>17. ASSUME NEW p \in Procs, ReadSleep(p) PROVE EndsInv'
  BY <1>17 DEF ReadSleep, Goto, PipeInv, Typed, EndsInv, Ends, Labels, WriteAt, ReadAt
<1>18. ASSUME NEW p \in Procs, ReadBytes(p) PROVE EndsInv'
  BY <1>18 DEF ReadBytes, Returns, WakeWriters, Wakeup, PipeInv, Typed, EndsInv, Ends, Labels, WriteAt, ReadAt
<1>19. CASE UNCHANGED vars
  BY SMTT(20), <1>19 DEF vars, PipeInv, Typed, EndsInv, Ends, Labels, WriteAt, ReadAt
<1>. QED
  BY ONLY Zenon, [Next]_vars, <1>1, <1>2, <1>3, <1>4, <1>5, <1>6, <1>7, <1>8, <1>9, <1>10, <1>11, <1>12, <1>13, <1>14, <1>15, <1>16, <1>17, <1>18, <1>19 DEF Next, Calls

\* pi->lock is held where the code holds it.
LEMMA StepLock ==
  ASSUME PipeAssumption, PipeInv, [Next]_vars
  PROVE  LockInv'
<1>1. ASSUME NEW p \in Procs, PipeFails(p) PROVE LockInv'
  BY <1>1 DEF PipeFails, PipeInv, Typed, LockInv, Labels, WriteAt, ReadAt, LockAt, PipeAssumption
<1>2. ASSUME NEW p \in Procs, Pipe(p) PROVE LockInv'
  BY <1>2 DEF Pipe, PipeInv, Typed, LockInv, Labels, WriteAt, ReadAt, LockAt, PipeAssumption
<1>3. ASSUME NEW p \in Procs, Write(p) PROVE LockInv'
  BY <1>3 DEF Write, Goto, PipeInv, Typed, LockInv, Labels, WriteAt, ReadAt, LockAt, PipeAssumption
<1>4. ASSUME NEW p \in Procs, Read(p) PROVE LockInv'
  BY <1>4 DEF Read, Goto, PipeInv, Typed, LockInv, Labels, WriteAt, ReadAt, LockAt, PipeAssumption
<1>5. ASSUME NEW p \in Procs, NEW q \in Procs, Fork(p, q) PROVE LockInv'
  BY <1>5 DEF Fork, Goto, PipeInv, Typed, LockInv, Labels, WriteAt, ReadAt, LockAt, PipeAssumption
<1>6. ASSUME NEW p \in Procs, Close(p, "read") PROVE LockInv'
  <2>1. lock' = lock /\ pc[p] = "idle"
    BY <1>6 DEF Close
  <2>. QED  BY Zenon, <1>6, <2>1, CloseWakes DEF WakeWriters, Wakeup, PipeInv, Typed, LockInv, Labels, WriteAt, ReadAt, LockAt
<1>7. ASSUME NEW p \in Procs, Close(p, "write") PROVE LockInv'
  <2>1. lock' = lock /\ pc[p] = "idle"
    BY <1>7 DEF Close
  <2>. QED  BY Zenon, <1>7, <2>1, CloseWakes DEF WakeReaders, Wakeup, PipeInv, Typed, LockInv, Labels, WriteAt, ReadAt, LockAt
<1>8. ASSUME NEW p \in Procs, Kill(p) PROVE LockInv'
  BY <1>8 DEF Kill, Goto, PipeInv, Typed, LockInv, Labels, WriteAt, ReadAt, LockAt, PipeAssumption
<1>9. ASSUME NEW p \in Procs, Exit(p) PROVE LockInv'
  BY <1>9 DEF Exit, Goto, PipeInv, Typed, LockInv, Labels, WriteAt, ReadAt, LockAt, PipeAssumption
<1>10. ASSUME NEW p \in Procs, WriteLock(p) PROVE LockInv'
  BY <1>10 DEF WriteLock, Goto, PipeInv, Typed, LockInv, Labels, WriteAt, ReadAt, LockAt, PipeAssumption
<1>11. ASSUME NEW p \in Procs, WriteRefused(p) PROVE LockInv'
  BY <1>11 DEF WriteRefused, Returns, Goto, PipeInv, Typed, LockInv, Labels, WriteAt, ReadAt, LockAt, PipeAssumption
<1>12. ASSUME NEW p \in Procs, WriteFull(p) PROVE LockInv'
  BY <1>12 DEF WriteFull, WakeReaders, Wakeup, PipeInv, Typed, LockInv, Labels, WriteAt, ReadAt, LockAt, PipeAssumption
<1>13. ASSUME NEW p \in Procs, WriteSleep(p) PROVE LockInv'
  BY <1>13 DEF WriteSleep, Goto, PipeInv, Typed, LockInv, Labels, WriteAt, ReadAt, LockAt, PipeAssumption
<1>14. ASSUME NEW p \in Procs, WriteByte(p) PROVE LockInv'
  BY <1>14 DEF WriteByte, PipeInv, Typed, LockInv, Labels, WriteAt, ReadAt, LockAt, PipeAssumption
<1>15. ASSUME NEW p \in Procs, WriteDone(p) PROVE LockInv'
  BY <1>15 DEF WriteDone, Returns, WakeReaders, Wakeup, PipeInv, Typed, LockInv, Labels, WriteAt, ReadAt, LockAt, PipeAssumption
<1>16. ASSUME NEW p \in Procs, ReadEmpty(p) PROVE LockInv'
  BY <1>16 DEF ReadEmpty, Returns, Goto, PipeInv, Typed, LockInv, Labels, WriteAt, ReadAt, LockAt, PipeAssumption
<1>17. ASSUME NEW p \in Procs, ReadSleep(p) PROVE LockInv'
  BY <1>17 DEF ReadSleep, Goto, PipeInv, Typed, LockInv, Labels, WriteAt, ReadAt, LockAt, PipeAssumption
<1>18. ASSUME NEW p \in Procs, ReadBytes(p) PROVE LockInv'
  BY <1>18 DEF ReadBytes, Returns, WakeWriters, Wakeup, PipeInv, Typed, LockInv, Labels, WriteAt, ReadAt, LockAt, PipeAssumption
<1>19. CASE UNCHANGED vars
  BY <1>19 DEF vars, PipeInv, Typed, LockInv, Labels, WriteAt, ReadAt, LockAt, PipeAssumption
<1>. QED
  BY ONLY Zenon, [Next]_vars, <1>1, <1>2, <1>3, <1>4, <1>5, <1>6, <1>7, <1>8, <1>9, <1>10, <1>11, <1>12, <1>13, <1>14, <1>15, <1>16, <1>17, <1>18, <1>19 DEF Next, Calls

\* Before sys_pipe there is no open end, no call and no byte.
LEMMA NoPipeYet ==
  ASSUME PipeInv, ~pi.page
  PROVE  /\ ends["read"] = {} /\ ends["write"] = {} /\ queue = <<>> /\ pi.files = 0
         /\ \A p \in Procs : pc[p] \notin WriteAt \cup ReadAt
<1>1. ends["read"] = {} /\ ends["write"] = {} /\ queue = <<>>
  BY DEF PipeInv, OpenInv
<1>2. pi.files = 0
  BY SMTT(20), <1>1 DEF PipeInv, OpenInv, Held
<1>. QED  BY <1>1, <1>2 DEF PipeInv, EndsInv

\* struct pipe agrees with the open files.
LEMMA StepOpen ==
  ASSUME PipeAssumption, PipeInv, [Next]_vars
  PROVE  OpenInv'
<1>1. ASSUME NEW p \in Procs, PipeFails(p) PROVE OpenInv'
  <2>1. ~pi.page /\ ends' = ends /\ queue' = queue
    BY <1>1 DEF PipeFails
  <2>2. ends'["read"] = {} /\ ends'["write"] = {} /\ queue' = <<>>
    BY <2>1, NoPipeYet
  <2>3. Held("read")' + Held("write")' = 0
    BY <2>2 DEF Held
  <2>. QED  BY Zenon, <1>1, <2>2, <2>3, PipeFailsLeaves DEF OpenInv
<1>2. ASSUME NEW p \in Procs, Pipe(p) PROVE OpenInv'
  <2>1. pi' = Pipealloc(pi) /\ pi \in PipeRecord
    BY <1>2 DEF Pipe, PipeInv, Typed
  <2>2. ends'["read"] = {p} /\ ends'["write"] = {p}
    BY <1>2 DEF Pipe
  <2>3. ends'["read"] # {} /\ ends'["write"] # {}
    BY <2>2
  <2>4. Held("read")' + Held("write")' = 2
    BY <2>3 DEF Held
  <2>5. ~pi.panic
    BY DEF PipeInv, OpenInv
  <2>. QED  BY Zenon, <2>1, <2>3, <2>4, <2>5, Alloc DEF OpenInv
<1>3. ASSUME NEW p \in Procs, Write(p) PROVE OpenInv'
  BY <1>3 DEF Write, Goto, PipeInv, OpenInv, Held
<1>4. ASSUME NEW p \in Procs, Read(p) PROVE OpenInv'
  BY <1>4 DEF Read, Goto, PipeInv, OpenInv, Held
<1>5. ASSUME NEW p \in Procs, NEW q \in Procs, Fork(p, q) PROVE OpenInv'
  <2>1. \A e \in Ends : ends'[e] = IF p \in ends[e] THEN ends[e] \cup {q} ELSE ends[e]
    BY <1>5 DEF Fork, Ends
  <2>2. \A e \in Ends : ends'[e] # {} <=> ends[e] # {}
    BY Zenon, <2>1
  <2>3. (ends'["read"] # {} <=> ends["read"] # {}) /\ (ends'["write"] # {} <=> ends["write"] # {})
    BY <2>2 DEF Ends
  <2>4. pi' = pi /\ queue' = queue
    BY <1>5 DEF Fork
  <2>. QED  BY <2>3, <2>4 DEF PipeInv, OpenInv, Held
<1>6. ASSUME NEW p \in Procs, Close(p, "read") PROVE OpenInv'
  <2>1. /\ "read" \in Ends /\ "write" \in Ends /\ "read" # "write"
        /\ ends'["read"] = ends["read"] \ {p} /\ ends'["write"] = ends["write"] /\ p \in ends["read"]
        /\ queue' = IF pi'.page THEN queue ELSE <<>>
    BY <1>6 DEF Close, PipeInv, Typed, Ends
  <2>2. CASE ends["read"] = {p}
    <3>1. ends'["read"] = {} /\ ends["read"] # {}
      BY <2>1, <2>2
    <3>2. pi.files - 1 = Held("read")' + Held("write")'
      BY <2>1, <3>1 DEF PipeInv, OpenInv, Held
    <3>. QED  BY Zenon, <1>6, <2>1, <2>2, <3>1, <3>2, CloseLeaves DEF OpenInv
  <2>3. CASE ends["read"] # {p}
    <3>1. ends'["read"] # {} /\ ends["read"] # {}
      BY <2>1, <2>3
    <3>2. pi' = pi
      BY Zenon, <1>6, <2>3, PipeKept
    <3>3. pi.page
      BY Zenon, <3>1 DEF PipeInv, OpenInv
    <3>4. queue' = queue
      BY Zenon, <2>1, <3>2, <3>3
    <3>. QED  BY <2>1, <3>1, <3>2, <3>4 DEF PipeInv, OpenInv, Held
  <2>. QED  BY Zenon, <2>2, <2>3
<1>7. ASSUME NEW p \in Procs, Close(p, "write") PROVE OpenInv'
  <2>1. /\ "write" \in Ends /\ "read" \in Ends /\ "write" # "read"
        /\ ends'["write"] = ends["write"] \ {p} /\ ends'["read"] = ends["read"] /\ p \in ends["write"]
        /\ queue' = IF pi'.page THEN queue ELSE <<>>
    BY <1>7 DEF Close, PipeInv, Typed, Ends
  <2>2. CASE ends["write"] = {p}
    <3>1. ends'["write"] = {} /\ ends["write"] # {}
      BY <2>1, <2>2
    <3>2. pi.files - 1 = Held("read")' + Held("write")'
      BY <2>1, <3>1 DEF PipeInv, OpenInv, Held
    <3>. QED  BY Zenon, <1>7, <2>1, <2>2, <3>1, <3>2, CloseLeaves DEF OpenInv
  <2>3. CASE ends["write"] # {p}
    <3>1. ends'["write"] # {} /\ ends["write"] # {}
      BY <2>1, <2>3
    <3>2. pi' = pi
      BY Zenon, <1>7, <2>3, PipeKept
    <3>3. pi.page
      BY Zenon, <3>1 DEF PipeInv, OpenInv
    <3>4. queue' = queue
      BY Zenon, <2>1, <3>2, <3>3
    <3>. QED  BY <2>1, <3>1, <3>2, <3>4 DEF PipeInv, OpenInv, Held
  <2>. QED  BY Zenon, <2>2, <2>3
<1>8. ASSUME NEW p \in Procs, Kill(p) PROVE OpenInv'
  BY <1>8 DEF Kill, Goto, PipeInv, OpenInv, Held
<1>9. ASSUME NEW p \in Procs, Exit(p) PROVE OpenInv'
  BY <1>9 DEF Exit, Goto, PipeInv, OpenInv, Held
<1>10. ASSUME NEW p \in Procs, WriteLock(p) PROVE OpenInv'
  BY <1>10 DEF WriteLock, Goto, PipeInv, OpenInv, Held
<1>11. ASSUME NEW p \in Procs, WriteRefused(p) PROVE OpenInv'
  BY <1>11 DEF WriteRefused, Returns, Goto, PipeInv, OpenInv, Held
<1>12. ASSUME NEW p \in Procs, WriteFull(p) PROVE OpenInv'
  BY <1>12 DEF WriteFull, WakeReaders, Wakeup, PipeInv, OpenInv, Held
<1>13. ASSUME NEW p \in Procs, WriteSleep(p) PROVE OpenInv'
  BY <1>13 DEF WriteSleep, Goto, PipeInv, OpenInv, Held
<1>14. ASSUME NEW p \in Procs, WriteByte(p) PROVE OpenInv'
  <2>1. PICK b \in Bytes :
          pi' = [pi EXCEPT !.data[pi.nwrite % PIPESIZE] = b, !.nwrite = (@ + 1) % WORD]
    BY Zenon, <1>14 DEF WriteByte
  <2>2. pi'.readopen = pi.readopen /\ pi'.writeopen = pi.writeopen /\ pi'.page = pi.page
        /\ pi'.files = pi.files /\ pi'.panic = pi.panic
    BY Zenon, <2>1, BytesMove
  <2>3. ends' = ends /\ ends["write"] # {}
    BY <1>14 DEF WriteByte, PipeInv, EndsInv, WriteAt
  <2>4. Held("read")' = Held("read") /\ Held("write")' = Held("write")
    BY <2>3 DEF Held
  <2>. QED  BY ZenonT(30), <2>2, <2>3, <2>4 DEF PipeInv, OpenInv
<1>15. ASSUME NEW p \in Procs, WriteDone(p) PROVE OpenInv'
  BY <1>15 DEF WriteDone, Returns, WakeReaders, Wakeup, PipeInv, OpenInv, Held
<1>16. ASSUME NEW p \in Procs, ReadEmpty(p) PROVE OpenInv'
  BY <1>16 DEF ReadEmpty, Returns, Goto, PipeInv, OpenInv, Held
<1>17. ASSUME NEW p \in Procs, ReadSleep(p) PROVE OpenInv'
  BY <1>17 DEF ReadSleep, Goto, PipeInv, OpenInv, Held
<1>18. ASSUME NEW p \in Procs, ReadBytes(p) PROVE OpenInv'
  <2>1. PICK m \in 0 .. n[p] : pi' = [pi EXCEPT !.nread = (@ + m) % WORD]
    BY <1>18 DEF ReadBytes
  <2>2. m \in Nat
    BY <1>18 DEF PipeInv, Typed
  <2>3. pi'.readopen = pi.readopen /\ pi'.writeopen = pi.writeopen /\ pi'.page = pi.page
        /\ pi'.files = pi.files /\ pi'.panic = pi.panic
    BY Zenon, <2>1, <2>2, BytesMove
  <2>4. ends' = ends /\ ends["read"] # {}
    BY <1>18 DEF ReadBytes, PipeInv, EndsInv, ReadAt
  <2>5. Held("read")' = Held("read") /\ Held("write")' = Held("write")
    BY <2>4 DEF Held
  <2>. QED  BY Zenon, <2>3, <2>4, <2>5 DEF PipeInv, OpenInv
<1>19. CASE UNCHANGED vars
  BY <1>19 DEF vars, PipeInv, OpenInv, Held
<1>. QED
  BY ONLY Zenon, [Next]_vars, <1>1, <1>2, <1>3, <1>4, <1>5, <1>6, <1>7, <1>8, <1>9, <1>10, <1>11, <1>12, <1>13, <1>14, <1>15, <1>16, <1>17, <1>18, <1>19 DEF Next, Calls

\* A ring without bytes.
LEMMA EmptyRing ==
  ASSUME PipeAssumption, NEW r, r.nread = 0, r.nwrite = 0
  PROVE  /\ Len(<<>>) <= PIPESIZE
         /\ r.nwrite = (r.nread + Len(<<>>)) % WORD
         /\ \A k \in 1 .. Len(<<>>) : r.data[(r.nread + k - 1) % PIPESIZE] = <<>>[k]
<1>1. 0 % WORD = 0
  BY SMTT(20), RingSizes, ModSmall
<1>. QED  BY <1>1, RingSizes

\* The ring holds the bytes that were written and not read.
LEMMA StepRing ==
  ASSUME PipeAssumption, PipeInv, [Next]_vars
  PROVE  RingInv'
<1>1. ASSUME NEW p \in Procs, PipeFails(p) PROVE RingInv'
  <2>1. queue = <<>> /\ queue' = queue
    BY <1>1, NoPipeYet DEF PipeFails
  <2>2. CASE pi' = pi
    BY <2>1, <2>2 DEF PipeInv, RingInv
  <2>3. CASE pi'.nread = 0 /\ pi'.nwrite = 0
    BY <2>1, <2>3, EmptyRing DEF RingInv
  <2>. QED  BY Zenon, <1>1, <2>2, <2>3, PipeFailsLeaves
<1>2. ASSUME NEW p \in Procs, Pipe(p) PROVE RingInv'
  <2>1. pi' = Pipealloc(pi) /\ pi \in PipeRecord /\ queue' = <<>>
    BY <1>2 DEF Pipe, PipeInv, Typed
  <2>2. pi'.nread = 0 /\ pi'.nwrite = 0
    BY Zenon, <2>1, Alloc
  <2>. QED  BY <2>1, <2>2, EmptyRing DEF RingInv
<1>3. ASSUME NEW p \in Procs, Write(p) PROVE RingInv'
  BY <1>3 DEF Write, Goto, PipeInv, RingInv
<1>4. ASSUME NEW p \in Procs, Read(p) PROVE RingInv'
  BY <1>4 DEF Read, Goto, PipeInv, RingInv
<1>5. ASSUME NEW p \in Procs, NEW q \in Procs, Fork(p, q) PROVE RingInv'
  BY <1>5 DEF Fork, Goto, PipeInv, RingInv
<1>6. ASSUME NEW p \in Procs, Close(p, "read") PROVE RingInv'
  <2>1. /\ "read" \in Ends /\ "write" \in Ends /\ "read" # "write"
        /\ queue' = IF pi'.page THEN queue ELSE <<>>
    BY <1>6 DEF Close, Ends
  <2>2. CASE ends["read"] = {p} /\ ends["write"] # {}
    <3>1. queue' = queue
      BY Zenon, <1>6, <2>1, <2>2, CloseLeaves
    <3>2. pi'.nread = pi.nread /\ pi'.nwrite = pi.nwrite /\ pi'.data = pi.data
      BY Zenon, <1>6, <2>1, <2>2, CloseLeaves
    <3>. QED  BY <3>1, <3>2 DEF PipeInv, RingInv
  <2>3. CASE ends["read"] = {p} /\ ends["write"] = {}
    <3>1. queue' = <<>> /\ pi'.nread = 0 /\ pi'.nwrite = 0
      BY Zenon, <1>6, <2>1, <2>3, CloseLeaves
    <3>. QED  BY <3>1, EmptyRing DEF RingInv
  <2>4. CASE ends["read"] # {p}
    <3>1. pi' = pi
      BY Zenon, <1>6, <2>4, PipeKept
    <3>2. pi.page
      <4>1. ends["read"] # {}
        BY <1>6 DEF Close
      <4>. QED  BY Zenon, <4>1 DEF PipeInv, OpenInv
    <3>3. queue' = queue
      BY Zenon, <2>1, <3>1, <3>2
    <3>. QED  BY <3>1, <3>3 DEF PipeInv, RingInv
  <2>. QED  BY Zenon, <2>2, <2>3, <2>4
<1>7. ASSUME NEW p \in Procs, Close(p, "write") PROVE RingInv'
  <2>1. /\ "write" \in Ends /\ "read" \in Ends /\ "write" # "read"
        /\ queue' = IF pi'.page THEN queue ELSE <<>>
    BY <1>7 DEF Close, Ends
  <2>2. CASE ends["write"] = {p} /\ ends["read"] # {}
    <3>1. queue' = queue
      BY Zenon, <1>7, <2>1, <2>2, CloseLeaves
    <3>2. pi'.nread = pi.nread /\ pi'.nwrite = pi.nwrite /\ pi'.data = pi.data
      BY Zenon, <1>7, <2>1, <2>2, CloseLeaves
    <3>. QED  BY <3>1, <3>2 DEF PipeInv, RingInv
  <2>3. CASE ends["write"] = {p} /\ ends["read"] = {}
    <3>1. queue' = <<>> /\ pi'.nread = 0 /\ pi'.nwrite = 0
      BY Zenon, <1>7, <2>1, <2>3, CloseLeaves
    <3>. QED  BY <3>1, EmptyRing DEF RingInv
  <2>4. CASE ends["write"] # {p}
    <3>1. pi' = pi
      BY Zenon, <1>7, <2>4, PipeKept
    <3>2. pi.page
      <4>1. ends["write"] # {}
        BY <1>7 DEF Close
      <4>. QED  BY Zenon, <4>1 DEF PipeInv, OpenInv
    <3>3. queue' = queue
      BY Zenon, <2>1, <3>1, <3>2
    <3>. QED  BY <3>1, <3>3 DEF PipeInv, RingInv
  <2>. QED  BY Zenon, <2>2, <2>3, <2>4
<1>8. ASSUME NEW p \in Procs, Kill(p) PROVE RingInv'
  BY <1>8 DEF Kill, Goto, PipeInv, RingInv
<1>9. ASSUME NEW p \in Procs, Exit(p) PROVE RingInv'
  BY <1>9 DEF Exit, Goto, PipeInv, RingInv
<1>10. ASSUME NEW p \in Procs, WriteLock(p) PROVE RingInv'
  BY <1>10 DEF WriteLock, Goto, PipeInv, RingInv
<1>11. ASSUME NEW p \in Procs, WriteRefused(p) PROVE RingInv'
  BY <1>11 DEF WriteRefused, Returns, Goto, PipeInv, RingInv
<1>12. ASSUME NEW p \in Procs, WriteFull(p) PROVE RingInv'
  BY <1>12 DEF WriteFull, WakeReaders, Wakeup, PipeInv, RingInv
<1>13. ASSUME NEW p \in Procs, WriteSleep(p) PROVE RingInv'
  BY <1>13 DEF WriteSleep, Goto, PipeInv, RingInv
<1>14. ASSUME NEW p \in Procs, WriteByte(p) PROVE RingInv'
  <2>. DEFINE r == pi.nread
              w == pi.nwrite
              l == Len(queue)
              sum == r + l
  <2>1. PICK b \in Bytes :
          /\ pi' = [pi EXCEPT !.data[pi.nwrite % PIPESIZE] = b, !.nwrite = (@ + 1) % WORD]
          /\ queue' = Append(queue, b)
    BY Zenon, <1>14 DEF WriteByte
  <2>2. /\ pi'.data = [pi.data EXCEPT ![w % PIPESIZE] = b]
        /\ pi'.nwrite = (w + 1) % WORD /\ pi'.nread = r
    BY Zenon, <2>1, BytesMove
  <2>3. /\ r \in Nat /\ l \in Nat /\ w \in Nat /\ l < PIPESIZE /\ w = sum % WORD
        /\ pi.data \in Contents /\ queue \in Seq(Bytes)
    BY <1>14, Lengths DEF WriteByte, PipeInv, Typed
  <2>4. \A k \in 1 .. l : pi.data[(r + k - 1) % PIPESIZE] = queue[k]
    BY DEF PipeInv, RingInv
  <2>5. Len(queue') = l + 1 /\ queue'[l + 1] = b /\ \A k \in 1 .. l : queue'[k] = queue[k]
    BY <2>1, <2>3
  <2>. HIDE DEF r, w, l
  <2>6. sum \in Nat /\ sum + 1 = r + (l + 1)
    BY <2>3
  <2>. HIDE DEF sum
  <2>7. pi'.nwrite = (pi'.nread + Len(queue')) % WORD
    <3>1. ((sum % WORD) + 1) % WORD = (sum + 1) % WORD
      BY <2>6, RingSizes, ModAdd
    <3>. QED  BY Zenon, <2>2, <2>3, <2>5, <2>6, <3>1
  <2>8. w % PIPESIZE = sum % PIPESIZE
    <3>. DEFINE z == 0
    <3>1. z \in Int /\ sum \in Int
      BY <2>6
    <3>2. (sum % WORD) + z = sum % WORD /\ sum + z = sum
      BY <2>6, RingSizes
    <3>. HIDE DEF z
    <3>3. ((sum % WORD) + z) % PIPESIZE = (sum + z) % PIPESIZE
      BY Zenon, <3>1, RingSizes, RingAdd
    <3>. QED  BY <2>3, <3>2, <3>3
  <2>9. ASSUME NEW k \in 1 .. l + 1
        PROVE  pi'.data[(r + k - 1) % PIPESIZE] = queue'[k]
    <3>. DEFINE x == r + k - 1
    <3>1. x \in Int /\ x % PIPESIZE \in Ring
      BY <2>3, RingSizes
    <3>2. CASE k = l + 1
      <4>1. x = sum
        BY <2>3, <3>2 DEF sum
      <4>. HIDE DEF x
      <4>2. pi'.data[x % PIPESIZE] = b
        BY <2>2, <2>3, <2>8, <3>1, <4>1 DEF Contents
      <4>. QED  BY <2>5, <3>2, <4>2 DEF x
    <3>3. CASE k # l + 1
      <4>1. k \in 1 .. l
        BY <2>3, <3>3
      <4>2. x < sum /\ sum < x + PIPESIZE
        BY <2>3, <4>1, RingSizes DEF sum
      <4>3. queue'[k] = queue[k] /\ pi.data[x % PIPESIZE] = queue[k]
        BY <2>4, <2>5, <4>1
      <4>. HIDE DEF x
      <4>4. x % PIPESIZE # sum % PIPESIZE
        BY <2>6, <3>1, <4>2, RingSizes, ModApart
      <4>5. pi'.data[x % PIPESIZE] = pi.data[x % PIPESIZE]
        BY <2>2, <2>3, <2>8, <3>1, <4>4 DEF Contents
      <4>. QED  BY <4>3, <4>5 DEF x
    <3>. QED  BY <3>2, <3>3
  <2>10. l + 1 <= PIPESIZE
    BY <2>3, RingSizes
  <2>. QED  BY SMTT(20), <2>2, <2>5, <2>7, <2>9, <2>10 DEF RingInv
<1>15. ASSUME NEW p \in Procs, WriteDone(p) PROVE RingInv'
  BY <1>15 DEF WriteDone, Returns, WakeReaders, Wakeup, PipeInv, RingInv
<1>16. ASSUME NEW p \in Procs, ReadEmpty(p) PROVE RingInv'
  BY <1>16 DEF ReadEmpty, Returns, Goto, PipeInv, RingInv
<1>17. ASSUME NEW p \in Procs, ReadSleep(p) PROVE RingInv'
  BY <1>17 DEF ReadSleep, Goto, PipeInv, RingInv
<1>18. ASSUME NEW p \in Procs, ReadBytes(p) PROVE RingInv'
  <2>. DEFINE r == pi.nread
              l == Len(queue)
  <2>1. PICK m \in 0 .. n[p] :
          /\ m <= (pi.nwrite - pi.nread) % WORD
          /\ pi' = [pi EXCEPT !.nread = (@ + m) % WORD]
          /\ queue' = SubSeq(queue, m + 1, Len(queue))
    BY Zenon, <1>18 DEF ReadBytes
  <2>2. m \in Nat /\ m <= l /\ l \in Nat /\ l <= PIPESIZE /\ r \in Nat
    BY <1>18, <2>1, Lengths DEF PipeInv, Typed
  <2>3. pi'.data = pi.data /\ pi'.nwrite = pi.nwrite /\ pi'.nread = (r + m) % WORD
    BY Zenon, <2>1, <2>2, BytesMove
  <2>4. queue \in Seq(Bytes)
    BY DEF PipeInv, Typed
  <2>5. Len(queue') = l - m /\ \A k \in 1 .. l - m : queue'[k] = queue[k + m]
    BY <2>1, <2>2, <2>4
  <2>6. /\ pi.nwrite = (r + l) % WORD
        /\ \A k \in 1 .. l : pi.data[(r + k - 1) % PIPESIZE] = queue[k]
    BY DEF PipeInv, RingInv
  <2>. HIDE DEF r, l
  <2>7. pi'.nwrite = (pi'.nread + Len(queue')) % WORD
    <3>. DEFINE x == r + m
                y == l - m
    <3>1. x \in Int /\ y \in Int /\ x + y = r + l
      BY <2>2
    <3>. HIDE DEF x, y
    <3>2. ((x % WORD) + y) % WORD = (x + y) % WORD
      BY <3>1, RingSizes, ModAdd
    <3>. QED  BY <2>3, <2>5, <2>6, <3>1, <3>2 DEF x, y
  <2>8. ASSUME NEW k \in 1 .. l - m
        PROVE  pi'.data[(pi'.nread + k - 1) % PIPESIZE] = queue'[k]
    <3>. DEFINE x == r + m
                y == k - 1
                z == k + m
    <3>1. x \in Int /\ y \in Int /\ x + y = r + z - 1 /\ z \in 1 .. l
      BY <2>2
    <3>2. pi'.nread = x % WORD
      BY <2>3
    <3>3. x % WORD \in Int
      BY <3>1, RingSizes
    <3>4. pi'.nread + k - 1 = (x % WORD) + y
      BY <3>2, <3>3
    <3>5. queue'[k] = queue[z] /\ pi.data[(r + z - 1) % PIPESIZE] = queue[z]
      BY <2>5, <2>6, <3>1
    <3>. HIDE DEF x, y, z
    <3>6. ((x % WORD) + y) % PIPESIZE = (x + y) % PIPESIZE
      BY Zenon, <3>1, RingSizes, RingAdd
    <3>. QED  BY <2>3, <3>1, <3>4, <3>5, <3>6
  <2>9. l - m <= PIPESIZE
    BY <2>2, RingSizes
  <2>. QED  BY <2>5, <2>7, <2>8, <2>9 DEF RingInv
<1>19. CASE UNCHANGED vars
  BY SMTT(20), <1>19 DEF vars, PipeInv, RingInv
<1>. QED
  BY ONLY Zenon, [Next]_vars, <1>1, <1>2, <1>3, <1>4, <1>5, <1>6, <1>7, <1>8, <1>9, <1>10, <1>11, <1>12, <1>13, <1>14, <1>15, <1>16, <1>17, <1>18, <1>19 DEF Next, Calls

\* Whoever sleeps has to, or is about to be woken.
LEMMA StepSleep ==
  ASSUME PipeAssumption, PipeInv, [Next]_vars
  PROVE  SleepInv'
<1>1. ASSUME NEW p \in Procs, PipeFails(p) PROVE SleepInv'
  <2>1. \A q \in Procs : pc[q] \notin WriteAt \cup ReadAt
    BY <1>1, NoPipeYet DEF PipeFails
  <2>2. pc' = pc
    BY <1>1 DEF PipeFails
  <2>. QED  BY <2>1, <2>2 DEF SleepInv, WriteAt, ReadAt
<1>2. ASSUME NEW p \in Procs, Pipe(p) PROVE SleepInv'
  <2>1. \A q \in Procs : pc[q] \notin WriteAt \cup ReadAt
    BY <1>2, NoPipeYet DEF Pipe
  <2>2. pc' = pc
    BY <1>2 DEF Pipe
  <2>. QED  BY <2>1, <2>2 DEF SleepInv, WriteAt, ReadAt
<1>3. ASSUME NEW p \in Procs, Write(p) PROVE SleepInv'
  BY <1>3 DEF Write, Goto, PipeInv, Typed, SleepInv, WillWake, Full, Empty, WriteAt, ReadAt, Labels
<1>4. ASSUME NEW p \in Procs, Read(p) PROVE SleepInv'
  BY <1>4 DEF Read, Goto, PipeInv, Typed, SleepInv, WillWake, Full, Empty, WriteAt, ReadAt, Labels
<1>5. ASSUME NEW p \in Procs, NEW q \in Procs, Fork(p, q) PROVE SleepInv'
  BY <1>5 DEF Fork, Goto, PipeInv, Typed, SleepInv, WillWake, Full, Empty, WriteAt, ReadAt, Labels
<1>6. ASSUME NEW p \in Procs, Close(p, "read") PROVE SleepInv'
  <2>1. CASE ends["read"] = {p}
    <3>1. lock = None /\ WakeWriters(p, "idle") /\ pc[p] = "idle"
      BY <1>6, <2>1 DEF Close
    <3>2. \A q \in Procs : pc[q] \notin LockAt
      BY <3>1 DEF PipeInv, LockInv, PipeAssumption
    <3>3. \A q \in Procs : pc[q] \notin ReadAt
      BY <2>1, <3>1 DEF PipeInv, EndsInv, WriteAt, ReadAt
    <3>. QED  BY <3>1, <3>2, <3>3 DEF WakeWriters, Wakeup, PipeInv, Typed, SleepInv, LockAt, WriteAt, ReadAt
  <2>2. CASE ends["read"] # {p}
    BY <1>6, <2>2 DEF Close, PipeInv, SleepInv, WillWake, Full, Empty
  <2>. QED  BY <2>1, <2>2
<1>7. ASSUME NEW p \in Procs, Close(p, "write") PROVE SleepInv'
  <2>1. CASE ends["write"] = {p}
    <3>1. lock = None /\ WakeReaders(p, "idle") /\ pc[p] = "idle"
      BY <1>7, <2>1 DEF Close
    <3>2. \A q \in Procs : pc[q] \notin LockAt
      BY <3>1 DEF PipeInv, LockInv, PipeAssumption
    <3>3. \A q \in Procs : pc[q] \notin WriteAt
      BY <2>1, <3>1 DEF PipeInv, EndsInv, WriteAt, ReadAt
    <3>. QED  BY Zenon, <3>1, <3>2, <3>3 DEF WakeReaders, Wakeup, PipeInv, Typed, SleepInv, LockAt, WriteAt, ReadAt
  <2>2. CASE ends["write"] # {p}
    BY <1>7, <2>2 DEF Close, PipeInv, SleepInv, WillWake, Full, Empty
  <2>. QED  BY <2>1, <2>2
<1>8. ASSUME NEW p \in Procs, Kill(p) PROVE SleepInv'
  BY <1>8 DEF Kill, Goto, PipeInv, Typed, SleepInv, WillWake, Full, Empty, WriteAt, ReadAt, Labels
<1>9. ASSUME NEW p \in Procs, Exit(p) PROVE SleepInv'
  BY <1>9 DEF Exit, Goto, PipeInv, Typed, SleepInv, WillWake, Full, Empty, WriteAt, ReadAt, Labels
<1>10. ASSUME NEW p \in Procs, WriteLock(p) PROVE SleepInv'
  BY <1>10 DEF WriteLock, Goto, PipeInv, Typed, SleepInv, WillWake, Full, Empty, WriteAt, ReadAt, Labels
<1>11. ASSUME NEW p \in Procs, WriteRefused(p) PROVE SleepInv'
  <2>1. /\ pi' = pi /\ pc' = [pc EXCEPT ![p] = "idle"] /\ pc[p] = "writing"
        /\ cut' = (cut \/ (pi.readopen /\ i[p] > 0))
    BY <1>11 DEF WriteRefused, Goto
  <2>2. \A w \in Procs : pc[w] = "writing" => w = p
    BY <2>1 DEF PipeInv, LockInv, LockAt
  <2>3. ASSUME NEW q \in Procs, pc[q] = "rasleep"
        PROVE  pi.writeopen /\ (Empty \/ cut')
    <3>1. pi.readopen
      BY <2>3 DEF PipeInv, OpenInv, EndsInv, ReadAt
    <3>2. pi.writeopen /\ (Empty \/ cut \/ WillWake)
      BY <2>3 DEF PipeInv, SleepInv
    <3>3. WillWake => i[p] > 0
      BY <2>2 DEF WillWake
    <3>. QED  BY Zenon, <2>1, <3>1, <3>2, <3>3
  <2>. QED  BY <2>1, <2>3 DEF PipeInv, Typed, SleepInv, Full, Empty
<1>12. ASSUME NEW p \in Procs, WriteFull(p) PROVE SleepInv'
  BY Zenon, <1>12 DEF WriteFull, WakeReaders, Wakeup, PipeInv, Typed, SleepInv, WillWake, Full, Empty, WriteAt, ReadAt, Labels
<1>13. ASSUME NEW p \in Procs, WriteSleep(p) PROVE SleepInv'
  BY <1>13 DEF WriteSleep, Goto, PipeInv, Typed, SleepInv, WillWake, Full, Empty, WriteAt, ReadAt, Labels
<1>14. ASSUME NEW p \in Procs, WriteByte(p) PROVE SleepInv'
  <2>1. PICK b \in Bytes :
          pi' = [pi EXCEPT !.data[pi.nwrite % PIPESIZE] = b, !.nwrite = (@ + 1) % WORD]
    BY Zenon, <1>14 DEF WriteByte
  <2>2. pi'.writeopen = pi.writeopen
    BY Zenon, <2>1, BytesMove
  <2>3. pc' = pc /\ pc[p] = "writing" /\ ~Full /\ i' = [i EXCEPT ![p] = @ + 1]
    BY <1>14 DEF WriteByte
  <2>4. \A q \in Procs : pc[q] \notin {"wsleep", "wasleep", "rsleep"}
    BY <2>3 DEF PipeInv, SleepInv, LockInv, LockAt
  <2>5. i'[p] > 0
    BY <2>3 DEF PipeInv, Typed
  <2>6. WillWake'
    BY <2>3, <2>5 DEF WillWake
  <2>7. \A q \in Procs : pc[q] = "rasleep" => pi.writeopen
    BY DEF PipeInv, SleepInv
  <2>8. \A q \in Procs : pc'[q] = "rasleep" => pi'.writeopen
    BY Zenon, <2>2, <2>3, <2>7
  <2>. QED  BY <2>3, <2>4, <2>6, <2>8 DEF SleepInv
<1>15. ASSUME NEW p \in Procs, WriteDone(p) PROVE SleepInv'
  BY Zenon, <1>15 DEF WriteDone, Returns, WakeReaders, Wakeup, PipeInv, Typed, SleepInv, WillWake, Full, Empty, WriteAt, ReadAt, Labels
<1>16. ASSUME NEW p \in Procs, ReadEmpty(p) PROVE SleepInv'
  BY <1>16 DEF ReadEmpty, Returns, Goto, PipeInv, Typed, SleepInv, WillWake, Full, Empty, WriteAt, ReadAt, Labels
<1>17. ASSUME NEW p \in Procs, ReadSleep(p) PROVE SleepInv'
  BY <1>17 DEF ReadSleep, Goto, PipeInv, Typed, SleepInv, WillWake, Full, Empty, WriteAt, ReadAt, Labels
<1>18. ASSUME NEW p \in Procs, ReadBytes(p) PROVE SleepInv'
  <2>1. PICK m \in 0 .. n[p] : pi' = [pi EXCEPT !.nread = (@ + m) % WORD]
    BY <1>18 DEF ReadBytes
  <2>2. m \in Nat
    BY <1>18 DEF PipeInv, Typed
  <2>3. pi'.writeopen = pi.writeopen
    BY Zenon, <2>1, <2>2, BytesMove
  <2>4. /\ lock = None /\ ~(Empty /\ pi.writeopen) /\ cut' = cut
        /\ WakeWriters(p, "idle")
    BY <1>18 DEF ReadBytes
  <2>5. \A q \in Procs : pc[q] \notin LockAt
    BY <2>4 DEF PipeInv, LockInv, PipeAssumption
  <2>6. \A q \in Procs : pc[q] = "rasleep" => pi.writeopen /\ cut
    BY <2>4, <2>5 DEF PipeInv, SleepInv, WillWake, LockAt
  <2>7. \A q \in Procs : pc[q] = "rasleep" => pi'.writeopen /\ cut'
    BY Zenon, <2>3, <2>4, <2>6
  <2>8. \A q \in Procs : /\ pc'[q] \notin {"wsleep", "wasleep", "rsleep"}
                         /\ pc'[q] = "rasleep" => pc[q] = "rasleep"
    BY <2>4, <2>5 DEF WakeWriters, Wakeup, PipeInv, Typed, LockAt
  <2>. QED  BY <2>7, <2>8 DEF SleepInv
<1>19. CASE UNCHANGED vars
  BY <1>19 DEF vars, PipeInv, Typed, SleepInv, WillWake, Full, Empty, WriteAt, ReadAt, Labels
<1>. QED
  BY ONLY Zenon, [Next]_vars, <1>1, <1>2, <1>3, <1>4, <1>5, <1>6, <1>7, <1>8, <1>9, <1>10, <1>11, <1>12, <1>13, <1>14, <1>15, <1>16, <1>17, <1>18, <1>19 DEF Next, Calls

\* Nothing is open, written or asleep at the start.
LEMMA InitPipe ==
  ASSUME PipeAssumption, Init
  PROVE  PipeInv
<1>1. Typed
  <2>1. pi \in PipeRecord
    BY Zenon, RingSizes DEF Init
  <2>2. ends \in [Ends -> SUBSET Procs] /\ queue \in Seq(Bytes)
    BY DEF Init, Ends
  <2>3. pc \in [Procs -> Labels] /\ n \in [Procs -> Nat] /\ i \in [Procs -> Nat]
    BY DEF Init, Labels
  <2>. QED  BY <2>1, <2>2, <2>3 DEF Typed
<1>2. EndsInv
  BY DEF Init, EndsInv, WriteAt, ReadAt
<1>3. LockInv
  BY DEF Init, LockInv, LockAt, PipeAssumption
<1>4. OpenInv
  <2>1. pi = NoPipe /\ ends["read"] = {} /\ ends["write"] = {} /\ queue = <<>>
    BY DEF Init
  <2>2. Held("read") + Held("write") = 0
    BY <2>1 DEF Held
  <2>3. /\ NoPipe.panic = FALSE /\ NoPipe.readopen = FALSE /\ NoPipe.writeopen = FALSE
        /\ NoPipe.page = FALSE /\ NoPipe.files = 0
    BY DEF NoPipe
  <2>. QED  BY Zenon, <2>1, <2>2, <2>3 DEF OpenInv
<1>5. RingInv
  <2>1. pi.nread = 0 /\ pi.nwrite = 0 /\ queue = <<>>
    BY DEF Init, NoPipe
  <2>. QED  BY <2>1, EmptyRing DEF RingInv
<1>6. SleepInv
  BY DEF Init, SleepInv
<1>. QED  BY <1>1, <1>2, <1>3, <1>4, <1>5, <1>6 DEF PipeInv

\* PipeInv is inductive.
LEMMA PipeInductive ==
  ASSUME PipeAssumption
  PROVE  Spec => []PipeInv
<1>1. Init => PipeInv
  BY InitPipe
<1>2. PipeInv /\ [Next]_vars => PipeInv'
  <2>. SUFFICES ASSUME PipeInv, [Next]_vars PROVE PipeInv'
    OBVIOUS
  <2>1. Typed'
    <3>1. (pc \in [Procs -> Labels])' /\ (n \in [Procs -> Nat] /\ i \in [Procs -> Nat])'
      BY ONLY PipeAssumption, PipeInv, [Next]_vars, StepPc, StepLocals
    <3>2. (ends \in [Ends -> SUBSET Procs])' /\ (pi \in PipeRecord)' /\ (queue \in Seq(Bytes))'
      BY ONLY PipeAssumption, PipeInv, [Next]_vars, StepEnds, StepRecord, StepQueue
    <3>. QED  BY <3>1, <3>2 DEF Typed
  <2>2. EndsInv' /\ LockInv' /\ OpenInv'
    BY ONLY PipeAssumption, PipeInv, [Next]_vars, StepEndsInv, StepLock, StepOpen
  <2>3. RingInv' /\ SleepInv'
    BY ONLY PipeAssumption, PipeInv, [Next]_vars, StepRing, StepSleep
  <2>. QED  BY ONLY <2>1, <2>2, <2>3 DEF PipeInv
<1>. QED  BY <1>1, <1>2, PTL DEF Spec

\* The number of open ends is what fileclose counts.
LEMMA HeldCount ==
  Held("read") + Held("write") = Cardinality({e \in {"read", "write"} : ends[e] # {}})
<1>. DEFINE open == {e \in {"read", "write"} : ends[e] # {}}
<1>1. Cardinality({}) = 0 /\ Cardinality({"read"}) = 1 /\ Cardinality({"write"}) = 1
  BY SMTT(20), FS_EmptySet, FS_Singleton
<1>2. Cardinality({"read", "write"}) = 2
  <2>1. IsFiniteSet({"write"}) /\ "read" \notin {"write"} /\ {"write"} \cup {"read"} = {"read", "write"}
    BY Zenon, FS_Singleton
  <2>2. Cardinality({"write"} \cup {"read"}) = Cardinality({"write"}) + 1
    BY <2>1, FS_AddElement
  <2>. QED  BY <1>1, <2>1, <2>2
<1>3. CASE ends["read"] = {} /\ ends["write"] = {}
  <2>1. open = {}
    BY <1>3
  <2>. QED  BY <1>1, <1>3, <2>1 DEF Held
<1>4. CASE ends["read"] # {} /\ ends["write"] = {}
  <2>1. open = {"read"}
    BY <1>4
  <2>. QED  BY <1>1, <1>4, <2>1 DEF Held
<1>5. CASE ends["read"] = {} /\ ends["write"] # {}
  <2>1. open = {"write"}
    BY <1>5
  <2>. QED  BY <1>1, <1>5, <2>1 DEF Held
<1>6. CASE ends["read"] # {} /\ ends["write"] # {}
  <2>1. open = {"read", "write"}
    BY <1>6
  <2>. QED  BY <1>2, <1>6, <2>1 DEF Held
<1>. QED  BY <1>3, <1>4, <1>5, <1>6

---------------------------------------------------------------------------
(* The theorems.                                                           *)

\* The counters and the contents keep their types, and pi->lock is held exactly
\* by the process that pipewrite or piperead has between acquire and release.
THEOREM PipeTyped ==
  ASSUME PipeAssumption
  PROVE  Spec => []TypeOK
<1>1. PipeInv => TypeOK
  <2>. SUFFICES ASSUME PipeInv PROVE TypeOK
    OBVIOUS
  <2>1. /\ pi.nread \in 0 .. WORD - 1 /\ pi.nwrite \in 0 .. WORD - 1
        /\ pi.data \in [0 .. PIPESIZE - 1 -> Bytes \cup {0}]
    BY DEF PipeInv, Typed, PipeRecord, Counters, Contents, Ring
  <2>2. pi.files \in 0 .. 2
    BY DEF PipeInv, OpenInv, Held
  <2>. QED  BY <2>1, <2>2 DEF PipeInv, LockInv, LockAt, TypeOK
<1>. QED  BY <1>1, PipeInductive, PTL

\* The bytes that piperead takes are the bytes that pipewrite put, in order and
\* each once, however the calls interleave and also when nread and nwrite wrap
\* around at the end of the word.
THEOREM PipeIsQueue ==
  ASSUME PipeAssumption
  PROVE  Spec => []RingIsQueue
<1>1. PipeInv => RingIsQueue
  BY Lengths DEF PipeInv, RingInv, RingIsQueue
<1>. QED  BY <1>1, PipeInductive, PTL

\* No process sleeps in pipewrite or piperead when it could go on: every change
\* it waits for is followed by the wakeup, except the bytes of a writer that
\* was killed in pipewrite.
THEOREM PipeWakes ==
  ASSUME PipeAssumption
  PROVE  Spec => []SleepsOnlyBlocked
<1>1. PipeInv => SleepsOnlyBlocked
  <2>. SUFFICES ASSUME PipeInv, lock = None
                PROVE  \A p \in Procs : /\ pc[p] = "wasleep" => Full /\ pi.readopen
                                        /\ pc[p] = "rasleep" => pi.writeopen /\ (Empty \/ cut)
    BY DEF SleepsOnlyBlocked
  <2>1. ~WillWake
    BY DEF WillWake, PipeInv, LockInv, LockAt, PipeAssumption
  <2>. QED  BY <2>1 DEF PipeInv, SleepInv
<1>. QED  BY <1>1, PipeInductive, PTL

\* pipeclose frees the page with the last end, once, and never under a process
\* that is reading or writing; the file structures are given back with the ends.
THEOREM PipeFreedOnce ==
  ASSUME PipeAssumption
  PROVE  Spec => []FreedOnce
<1>1. PipeInv => FreedOnce
  <2>. SUFFICES ASSUME PipeInv PROVE FreedOnce
    OBVIOUS
  <2>1. /\ pi.readopen \in BOOLEAN /\ pi.writeopen \in BOOLEAN /\ pi.page \in BOOLEAN
    BY DEF PipeInv, Typed, PipeRecord
  <2>2. /\ ~pi.panic
        /\ pi.readopen <=> ends["read"] # {}
        /\ pi.writeopen <=> ends["write"] # {}
        /\ pi.page <=> ends["read"] # {} \/ ends["write"] # {}
        /\ pi.files = Held("read") + Held("write")
    BY DEF PipeInv, OpenInv
  <2>3. /\ pi.readopen = (ends["read"] # {})
        /\ pi.writeopen = (ends["write"] # {})
    BY Zenon, <2>1, <2>2
  <2>4. ends["read"] \cup ends["write"] # {} <=> ends["read"] # {} \/ ends["write"] # {}
    OBVIOUS
  <2>5. pi.page = (ends["read"] \cup ends["write"] # {})
    BY Zenon, <2>1, <2>2, <2>4
  <2>6. pi.files = Cardinality({e \in {"read", "write"} : ends[e] # {}})
    BY <2>2, HeldCount
  <2>7. \A p \in Procs : pc[p] \notin {"idle", "gone"} => pi.page
    <3>. SUFFICES ASSUME NEW p \in Procs, pc[p] \notin {"idle", "gone"} PROVE pi.page
      OBVIOUS
    <3>1. pc[p] \in WriteAt \/ pc[p] \in ReadAt
      BY DEF PipeInv, Typed, Labels
    <3>2. ends["read"] # {} \/ ends["write"] # {}
      BY <3>1 DEF PipeInv, EndsInv
    <3>. QED  BY Zenon, <2>2, <3>2
  <2>. QED  BY ONLY Zenon, <2>2, <2>3, <2>5, <2>6, <2>7 DEF FreedOnce
<1>. QED  BY <1>1, PipeInductive, PTL
=============================================================================
