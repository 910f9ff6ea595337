---------------------------- MODULE MCFatPacking ----------------------------
(* Six packed entries, four to a window of six bytes; FAT_CLUSTER_LAST is   *)
(* stored unmasked, as FatAllocateClusters does.                            *)
EXTENDS FatPacking

BlankTable == {[o \in FatBytes |-> 0]}
=============================================================================
