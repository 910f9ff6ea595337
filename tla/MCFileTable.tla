---------------------------- MODULE MCFileTable ----------------------------
(* Five entries, two of them the console's, and a disk whose sector 0 is a  *)
(* FAT boot sector with a partition table in it: the disk and its one       *)
(* partition are two volumes.  They and two files cannot all be open, and   *)
(* files of both are read in turn.  The handles are alike.                  *)
EXTENDS FileTable, TLC

Symmetry == Permutations(Handles)
=============================================================================
