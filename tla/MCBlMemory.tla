----------------------------- MODULE MCBlMemory -----------------------------
(* A small board: pages of 64 bytes, a heap of three of them - so the heap   *)
(* grows after a single split - and at most nine free pages.                 *)
EXTENDS BlMemory
=============================================================================
