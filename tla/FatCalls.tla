------------------------------ MODULE FatCalls ------------------------------
(***************************************************************************)
(* What FatLookupFatEntry and FatSetFatEntry are called with and answer,   *)
(* whether the table is looked at as windows (FatEntries) or as bytes      *)
(* (FatPacking).                                                           *)
(***************************************************************************)
EXTENDS Integers

CONSTANTS
    FatSize   \* entries of the table

VARIABLES
    reply     \* what the last call returned

Entries == 0 .. (FatSize - 1)

Failed == [status |-> "failed"]
Done == [status |-> "done"]
Holds(i, v) == [status |-> "done", index |-> i, value |-> v]
=============================================================================
