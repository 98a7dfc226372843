-------------------------------- MODULE Clock --------------------------------
(***************************************************************************)
(* The victim selection of clock_evict (kernel/kalloc.c).                  *)
(*                                                                         *)
(* The scan visits every frame twice, starting at the clock hand.  Frame i *)
(* is a candidate iff i \in cand: it has an owner that is not running on   *)
(* another CPU, and the owner's PTE is valid.  key[i] names that PTE, acc  *)
(* is the set of PTEs whose reference bit PTE_A is set, and level[i] is    *)
(* the queue level of the owner.                                           *)
(***************************************************************************)
EXTENDS Integers

CONSTANT MAX_FRAMES

ASSUME FramesAssumption == MAX_FRAMES \in Nat \ {0}

FrameIdx == 0..(MAX_FRAMES - 1)

\* Mutant: an earlier victim of the same level is replaced.
BetterLast(best, i, level) == best = -1 \/ level[best] <= level[i]

Better(best, i, level) == best = -1 \/ level[best] < level[i]

\* The state of the loop after visiting frame i.
Visit(s, i, cand, key, level) ==
  CASE i \notin cand -> s
    [] i \in cand /\ key[i] \in s.acc -> [s EXCEPT !.acc = @ \ {key[i]}]
    [] i \in cand /\ key[i] \notin s.acc -> [s EXCEPT !.best = IF Better(@, i, level) THEN i ELSE @]

\* best_idx after the loop, and the reference bits it leaves.
ClockScan(hand, cand, key, acc, level) ==
  LET loop[n \in 0..(2 * MAX_FRAMES)] ==
        IF n = 0 THEN [best |-> -1, acc |-> acc]
        ELSE Visit(loop[n - 1], (hand + n - 1) % MAX_FRAMES, cand, key, level)
  IN loop[2 * MAX_FRAMES]

\* The victim: best_idx, or else the first frame of owned, the frames whose
\* owner is not running on another CPU; -1 if there is none.
Victim(best, owned) ==
  IF best # -1 THEN best
  ELSE IF owned = {} THEN -1
  ELSE CHOOSE i \in owned : \A j \in owned : i <= j

\* Mutant: the hand does not wrap.
HandPastUnwrapped(i) == i + 1

\* The hand after frame i has been chosen.
HandPast(i) == (i + 1) % MAX_FRAMES
=============================================================================
