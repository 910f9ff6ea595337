---------------------------- MODULE MCFatEntries ----------------------------
(* Five entries seen two at a time: three windows, the last one partial.    *)
EXTENDS FatEntries
=============================================================================
