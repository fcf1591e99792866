------------------------- MODULE MC_InterruptWait --------------------------
(* Model-checking instance of InterruptWait: two waiters (so that the      *)
(* first-waiter rule matters), two setters, values {0, 1}.                 *)
EXTENDS InterruptWait

MCValues == {0, 1}
=============================================================================
