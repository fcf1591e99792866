------------------------- MODULE MC_SignalLifetime -------------------------
(* Model-checking instance of SignalLifetime: values {0, 1}.              *)
EXTENDS SignalLifetime

MCValues == {0, 1}
=============================================================================
