-------------------------------- MODULE Uart --------------------------------
(***************************************************************************)
(* Output to the console: consolewrite (kernel/console.c), the UART driver *)
(* (kernel/uart.c) and the UART.                                           *)
(*                                                                         *)
(* Processes write through uartwrite and sleep for the transmit interrupt; *)
(* the kernel's printf and the echo of typed characters go through         *)
(* uartputc_sync, which polls the UART and takes no lock.  uartwrite up to *)
(* its next sleep is one step: it holds tx_lock, as the first half of      *)
(* uartintr does.  uartputc_sync looks and writes in two steps.            *)
(***************************************************************************)
EXTENDS Integers

CONSTANTS Procs, Sizes,
          BATCH,       \* sizeof(buf) in consolewrite
          FIFO,        \* bytes the UART can hold
          MaxInput     \* bound: characters typed

VARIABLES fifo,        \* bytes the UART has to send
          txirq,       \* the UART has a transmit interrupt pending
          input,       \* characters typed and not yet taken
          typed,
          tx_busy,
          pc, n, nn,   \* per process: where it is, bytes left of its write and of the batch
          intr,        \* where uartintr is
          echo,        \* characters the interrupt handler still has to echo
          sync         \* users of uartputc_sync that have seen an idle UART

vars == <<fifo, txirq, input, typed, tx_busy, pc, n, nn, intr, echo, sync>>

Idle == fifo = 0       \* LSR_TX_IDLE

Init ==
  /\ fifo = 0 /\ txirq = FALSE /\ input = 0 /\ typed = 0
  /\ tx_busy = FALSE
  /\ pc = [p \in Procs |-> "user"]
  /\ n = [p \in Procs |-> 0] /\ nn = [p \in Procs |-> 0]
  /\ intr = "none" /\ echo = 0 /\ sync = {}

\* WriteReg(THR, c): the byte joins the FIFO and the transmit interrupt goes.
WriteThr == fifo' = fifo + 1 /\ txirq' = FALSE

-----------------------------------------------------------------------------
(* consolewrite and uartwrite.                                             *)

Write(p, k) ==
  /\ pc[p] = "user"
  /\ n' = [n EXCEPT ![p] = k]
  /\ pc' = [pc EXCEPT ![p] = "batch"]
  /\ UNCHANGED <<fifo, txirq, input, typed, tx_busy, nn, intr, echo, sync>>

\* The next batch, unless all is written or either_copyin fails.
Consolewrite(p, ok) ==
  /\ pc[p] = "batch"
  /\ IF n[p] = 0 \/ ~ok
     THEN /\ pc' = [pc EXCEPT ![p] = "user"]
          /\ n' = [n EXCEPT ![p] = 0] /\ UNCHANGED nn
     ELSE /\ pc' = [pc EXCEPT ![p] = "write"]
          /\ nn' = [nn EXCEPT ![p] = IF BATCH > n[p] THEN n[p] ELSE BATCH]
          /\ n' = [n EXCEPT ![p] = @ - nn'[p]]
  /\ UNCHANGED <<fifo, txirq, input, typed, tx_busy, intr, echo, sync>>

\* One turn of uartwrite's loop: sleep(&tx_chan, &tx_lock), or send a byte.
UartwriteWait(p) ==
  /\ pc[p] = "write" /\ tx_busy
  /\ pc' = [pc EXCEPT ![p] = "asleep"]
  /\ UNCHANGED <<fifo, txirq, input, typed, tx_busy, n, nn, intr, echo, sync>>

UartwriteByte(p) ==
  /\ pc[p] = "write" /\ ~tx_busy
  /\ WriteThr
  /\ tx_busy' = TRUE
  /\ nn' = [nn EXCEPT ![p] = @ - 1]
  /\ pc' = [pc EXCEPT ![p] = IF nn[p] = 1 THEN "batch" ELSE "asleep"]
  /\ UNCHANGED <<input, typed, n, intr, echo, sync>>

\* kkill makes a sleeping process runnable; uartwrite looks again.
Kill(p) ==
  /\ pc[p] = "asleep"
  /\ pc' = [pc EXCEPT ![p] = "write"]
  /\ UNCHANGED <<fifo, txirq, input, typed, tx_busy, n, nn, intr, echo, sync>>

-----------------------------------------------------------------------------
(* uartputc_sync, used by printf (under pr.lock) and by the echo.          *)

SyncLook(u) ==
  /\ u \notin sync /\ Idle
  /\ u = "echo" => intr = "rx" /\ echo > 0
  /\ sync' = sync \cup {u}
  /\ UNCHANGED <<fifo, txirq, input, typed, tx_busy, pc, n, nn, intr, echo>>

SyncWrite(u) ==
  /\ u \in sync
  /\ WriteThr
  /\ sync' = sync \ {u}
  /\ echo' = IF u = "echo" THEN echo - 1 ELSE echo
  /\ UNCHANGED <<input, typed, tx_busy, pc, n, nn, intr>>

-----------------------------------------------------------------------------
(* The UART and uartintr.                                                  *)

Transmit ==
  /\ fifo > 0
  /\ fifo' = fifo - 1
  /\ txirq' = (fifo = 1)
  /\ UNCHANGED <<input, typed, tx_busy, pc, n, nn, intr, echo, sync>>

Type ==
  /\ typed < MaxInput
  /\ input' = input + 1 /\ typed' = typed + 1
  /\ UNCHANGED <<fifo, txirq, tx_busy, pc, n, nn, intr, echo, sync>>

\* The interrupt, claimed by one hart, and ReadReg(ISR).
IntrAck ==
  /\ intr = "none" /\ (txirq \/ input > 0)
  /\ txirq' = FALSE /\ intr' = "tx"
  /\ UNCHANGED <<fifo, input, typed, tx_busy, pc, n, nn, echo, sync>>

\* The part under tx_lock.
IntrTx ==
  /\ intr = "tx"
  /\ IF Idle
     THEN /\ tx_busy' = FALSE
          /\ pc' = [p \in Procs |-> IF pc[p] = "asleep" THEN "write" ELSE pc[p]]
     ELSE UNCHANGED <<tx_busy, pc>>
  /\ intr' = "rx"
  /\ UNCHANGED <<fifo, txirq, input, typed, n, nn, echo, sync>>

\* uartgetc and consoleintr: nothing, one character or one BACKSPACE is echoed.
IntrRx(k) ==
  /\ intr = "rx" /\ echo = 0 /\ input > 0
  /\ input' = input - 1 /\ echo' = k
  /\ UNCHANGED <<fifo, txirq, typed, tx_busy, pc, n, nn, intr, sync>>

IntrDone ==
  /\ intr = "rx" /\ echo = 0 /\ input = 0
  /\ intr' = "none"
  /\ UNCHANGED <<fifo, txirq, input, typed, tx_busy, pc, n, nn, echo, sync>>

Next ==
  \/ \E p \in Procs :
       \/ \E k \in Sizes : Write(p, k)
       \/ \E ok \in BOOLEAN : Consolewrite(p, ok)
       \/ UartwriteWait(p) \/ UartwriteByte(p) \/ Kill(p)
  \/ \E u \in {"printf", "echo"} : SyncLook(u) \/ SyncWrite(u)
  \/ Transmit \/ Type \/ IntrAck \/ IntrTx \/ IntrDone
  \/ \E k \in {0, 1, 3} : IntrRx(k)

Spec == Init /\ [][Next]_vars

-----------------------------------------------------------------------------
\* A busy UART is never left busy for good: while tx_busy is set, the UART has
\* something to send, a transmit interrupt is pending, or uartintr is about to
\* look.  The polling of printf and of the echo, which may take away the idle
\* state that uartintr looks for, does not lose the wakeup; and only a process
\* that waits for the UART sleeps.
SenderWillWake ==
  /\ tx_busy => fifo > 0 \/ txirq \/ intr = "tx"
  /\ \A p \in Procs : pc[p] = "asleep" => tx_busy

\* uartwrite and the two users of uartputc_sync each write after they have seen
\* room, but not under one lock: the bytes they add at once fit the UART.
FifoNeverOverrun == fifo <= FIFO

=============================================================================
