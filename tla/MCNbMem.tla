------------------------------ MODULE MCNbMem ------------------------------
(***************************************************************************)
(* NbMem for TLC: a heap of a few blocks, requests of one, two and three   *)
(* blocks and one above the limit, and program data that reads as the free *)
(* tag, as a short allocation and as one that reaches beyond the heap.     *)
(***************************************************************************)
EXTENDS NbMem

MCRequests == {6, 7, 15, 23}
MCUserBytes == {1, 9}
=============================================================================
