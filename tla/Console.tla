------------------------------ MODULE Console ------------------------------
(***************************************************************************)
(* Input from the console (kernel/console.c): consoleintr puts the         *)
(* characters the user types into the ring cons.buf and lets the last,     *)
(* unfinished line be edited; consoleread gives finished lines to the      *)
(* processes that read.  The echo is module Uart's.                        *)
(*                                                                         *)
(* cons.lock is the variable lock; consoleread takes a step per character, *)
(* and one for the sleep between the test of killed and being asleep.  The *)
(* indices are uints: they wrap at WORD, a multiple of INPUT_BUF_SIZE.     *)
(***************************************************************************)
EXTENDS Integers, Sequences

CONSTANTS Procs, INPUT_BUF_SIZE, WORD,
          Sizes        \* the n of the reads

VARIABLES cons,        \* [buf, r, w, e]
          lock,        \* holder of cons.lock, or None
          pc, n, got,  \* per process: where it is, n and target - n of its read
          killed,
          line, edit   \* history: the finished lines not yet read, the text being edited

vars == <<cons, lock, pc, n, got, killed, line, edit>>

None == "none"
Chars == {"a", "nl", "cr", "nul", "^D", "^H", "^U", "^P"}

Init ==
  /\ cons = [buf |-> [k \in 0 .. INPUT_BUF_SIZE - 1 |-> "nul"], r |-> 0, w |-> 0, e |-> 0]
  /\ lock = None
  /\ pc = [p \in Procs |-> "user"] /\ n = [p \in Procs |-> 0] /\ got = [p \in Procs |-> 0]
  /\ killed = [p \in Procs |-> FALSE]
  /\ line = <<>> /\ edit = <<>>

Goto(p, l) == pc' = [pc EXCEPT ![p] = l]

At(k) == cons.buf[k % INPUT_BUF_SIZE]
Minus(i, j) == (i - j) % WORD

-----------------------------------------------------------------------------
(* consoleintr, for one character.                                         *)

\* The edit index after ^U has gone back to w or to a newline.
KilledTo ==
  LET back(k) == Minus(cons.e, k)
      stop(k) == back(k) = cons.w \/ At(back(k + 1)) = "nl"
  IN back(CHOOSE k \in 0 .. INPUT_BUF_SIZE : stop(k) /\ \A j \in 0 .. k - 1 : ~stop(j))

Erase(c) ==
  /\ c \in {"^U", "^H"}
  /\ cons' = [cons EXCEPT !.e = IF c = "^U" THEN KilledTo
                                ELSE IF cons.e # cons.w THEN Minus(cons.e, 1) ELSE cons.e]
  /\ edit' = IF c = "^U" \/ edit = <<>> THEN <<>> ELSE SubSeq(edit, 1, Len(edit) - 1)
  /\ UNCHANGED <<line, pc>>

\* procdump, or a character that is dropped: 0, or one the ring has no room for.
Ignore(c) ==
  /\ c \in {"^P", "nul"} \/ (c \notin {"^U", "^H"} /\ Minus(cons.e, cons.r) >= INPUT_BUF_SIZE)
  /\ UNCHANGED <<cons, line, edit, pc>>

Store(c) ==
  LET ch   == IF c = "cr" THEN "nl" ELSE c
      e    == (cons.e + 1) % WORD
      done == ch \in {"nl", "^D"} \/ Minus(e, cons.r) = INPUT_BUF_SIZE
  IN /\ c \notin {"^P", "nul", "^U", "^H"} /\ Minus(cons.e, cons.r) < INPUT_BUF_SIZE
     /\ cons' = [cons EXCEPT !.buf[cons.e % INPUT_BUF_SIZE] = ch, !.e = e,
                             !.w = IF done THEN e ELSE @]
     /\ IF done
        THEN /\ line' = line \o Append(edit, ch) /\ edit' = <<>>
             /\ pc' = [p \in Procs |-> IF pc[p] = "asleep" THEN "wait" ELSE pc[p]]
        ELSE /\ edit' = Append(edit, ch)
             /\ UNCHANGED <<line, pc>>

Consoleintr(c) ==
  /\ lock = None
  /\ Erase(c) \/ Ignore(c) \/ Store(c)
  /\ UNCHANGED <<lock, n, got, killed>>

-----------------------------------------------------------------------------
(* consoleread.                                                            *)

Read(p, k) ==
  /\ pc[p] = "user" /\ ~killed[p]
  /\ n' = [n EXCEPT ![p] = k] /\ got' = [got EXCEPT ![p] = 0]
  /\ Goto(p, "wait")
  /\ UNCHANGED <<cons, lock, killed, line, edit>>

Acquire(p) ==
  /\ pc[p] = "wait" /\ lock = None
  /\ lock' = p /\ Goto(p, "read")
  /\ UNCHANGED <<cons, n, got, killed, line, edit>>

Returns(p) == lock' = None /\ Goto(p, "user") /\ n' = [n EXCEPT ![p] = 0] /\ got' = [got EXCEPT ![p] = 0]

\* Nothing to read: give up if killed, else sleep(&cons.r, &cons.lock).
ReadEmpty(p) ==
  /\ pc[p] = "read" /\ n[p] > 0 /\ cons.r = cons.w
  /\ \/ killed[p] /\ Returns(p)
     \/ ~killed[p] /\ Goto(p, "sleep") /\ UNCHANGED <<lock, n, got>>
  /\ UNCHANGED <<cons, killed, line, edit>>

Sleep(p) ==
  /\ pc[p] = "sleep"
  /\ lock' = None /\ Goto(p, "asleep")
  /\ UNCHANGED <<cons, n, got, killed, line, edit>>

\* One character: ^D ends the read, and is kept when the read has something;
\* either_copyout may fail (ok); a newline ends the read.
ReadChar(p, ok) ==
  LET c    == At(cons.r)
      keep == c = "^D" /\ got[p] > 0
  IN /\ pc[p] = "read" /\ n[p] > 0 /\ cons.r # cons.w
     /\ cons' = IF keep THEN cons ELSE [cons EXCEPT !.r = (@ + 1) % WORD]
     /\ line' = IF Head(line) = "^D" /\ got[p] > 0 THEN line ELSE Tail(line)
     /\ IF c = "^D" \/ ~ok \/ c = "nl" THEN Returns(p)
        ELSE /\ n' = [n EXCEPT ![p] = @ - 1] /\ got' = [got EXCEPT ![p] = @ + 1]
             /\ UNCHANGED <<lock, pc>>
     /\ UNCHANGED <<killed, edit>>

ReadDone(p) ==
  /\ pc[p] = "read" /\ n[p] = 0
  /\ Returns(p)
  /\ UNCHANGED <<cons, killed, line, edit>>

\* kkill, at any time; it wakes a process that is asleep.
Kill(p) ==
  /\ ~killed[p]
  /\ killed' = [killed EXCEPT ![p] = TRUE]
  /\ pc' = [pc EXCEPT ![p] = IF @ = "asleep" THEN "wait" ELSE @]
  /\ UNCHANGED <<cons, lock, n, got, line, edit>>

Next ==
  \/ \E c \in Chars : Consoleintr(c)
  \/ \E p \in Procs :
       \/ \E k \in Sizes : Read(p, k)
       \/ Acquire(p) \/ ReadEmpty(p) \/ Sleep(p) \/ ReadDone(p) \/ Kill(p)
       \/ \E ok \in BOOLEAN : ReadChar(p, ok)

Spec == Init /\ [][Next]_vars

-----------------------------------------------------------------------------
\* The text in the ring from index i up to index j.
Text(i, j) == [k \in 1 .. Minus(j, i) |-> At(i + k - 1)]

\* From r to w the ring has the finished lines that were not read, in order,
\* from w to e the text that may still be edited, although the indices wrap,
\* erasing moves e back and an end-of-file is put back for the next read.
RingIsText == Text(cons.r, cons.w) = line /\ Text(cons.w, cons.e) = edit

\* A reader sleeps only while there is no finished line, and while there is
\* none the ring has room: a line can always be finished, so nobody types into
\* a console that drops everything while the readers sleep.
NeverWedged ==
  /\ \A p \in Procs : pc[p] = "asleep" => cons.r = cons.w
  /\ cons.r = cons.w => Minus(cons.e, cons.r) < INPUT_BUF_SIZE
=============================================================================
