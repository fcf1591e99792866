---------------------------- MODULE MC_SmallHeap ----------------------------
(* Model-checking instance of SmallHeap: a pool of five bytes at address *)
(* 1 and requests of 0, 1, 2 and 6 bytes.                                *)
EXTENDS SmallHeap

MCSizes == {0, 1, 2, 6}
=============================================================================
