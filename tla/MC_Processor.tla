---------------------------- MODULE MC_Processor ----------------------------
(* Model-checking instance of Processor: two tasks, a timer and one other  *)
(* waker holding every suspend entry, an up queue of two slots.           *)
EXTENDS Processor
=============================================================================
