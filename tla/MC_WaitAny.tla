----------------------------- MODULE MC_WaitAny -----------------------------
(* Instantiation of WaitAny for TLC.  w1 and w2 watch s1 and s2 in         *)
(* opposite orders; w3 watches s3.  s1 and s2 name a CPU consumer, so     *)
(* CreateSignal makes InterruptSignals; s3 names only a GPU consumer (a    *)
(* DefaultSignal) or no consumers (an InterruptSignal).  The device makes  *)
(* two events: whichever InterruptSignal is created third gets an event   *)
(* freed by a deleted signal, or none.                                     *)
EXTENDS WaitAny

MCArgs(c) == [ipc |-> FALSE, gpuOnly |-> FALSE, consumers |-> c]

MCCreateArgs == [s \in Signals |->
                   CASE s = "s1" -> {MCArgs(<<"cpu">>)}
                     [] s = "s2" -> {MCArgs(<<"gpu", "cpu">>)}
                     [] s = "s3" -> {MCArgs(<<"gpu">>), MCArgs(<<>>)}]

\* One thread creates s1 and then s2; s3 is created at any point.
MCCreatedAfter == [s \in Signals |-> IF s = "s2" THEN {"s1"} ELSE {}]

MCWatch == [w \in Waiters |->
              CASE w = "w1" -> <<"s1", "s2">>
                [] w = "w2" -> <<"s2", "s1">>
                [] w = "w3" -> <<"s3">>]

\* Every waiter waits for a signal to drop from 1 to 0, through EQ 0, NE 1
\* or LT 1.
MCCond == [w \in Waiters |->
              CASE w = "w1" -> <<"EQ", "LT">>
                [] w = "w2" -> <<"NE", "LT">>
                [] w = "w3" -> <<"LT">>]

MCCmp == [w \in Waiters |->
              CASE w = "w1" -> <<0, 1>>
                [] w = "w2" -> <<1, 1>>
                [] w = "w3" -> <<1>>]

MCValues == {0, 1}
=============================================================================
