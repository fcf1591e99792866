---------------------------- MODULE MC_QueuePool ----------------------------
(* Instantiation of QueuePool for TLC: two host threads asking queues of    *)
(* the same agent.                                                         *)
EXTENDS QueuePool

MCHints == {2, 3}   \* a power of two, and a size CreateQueue rejects

\* Both threads ask queues of agent a1.
MCSharedAgent == [t \in Threads |-> "a1"]
=============================================================================
