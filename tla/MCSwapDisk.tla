------------------------------ MODULE MCSwapDisk ------------------------------
(***************************************************************************)
(* Instances of SwapDisk for TLC: two blocks per page and two slots, so    *)
(* that a RAID_5 row holds blocks of both.                                 *)
(***************************************************************************)
EXTENDS SwapDisk, TLC

MCPages == [Index -> Bit] \ {Zeros}
ActorSymmetry == Permutations(Actors)
===============================================================================
