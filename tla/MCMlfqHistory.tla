--------------------------- MODULE MCMlfqHistory ----------------------------
(***************************************************************************)
(* Instances of MlfqHistory for TLC.                                       *)
(***************************************************************************)
EXTENDS MlfqHistory

MCTimeSlice == [l \in 0..MaxLevel |-> IF l = 0 THEN 2 ELSE 1]
MCOneTick == [l \in 0..MaxLevel |-> 1]
=============================================================================
