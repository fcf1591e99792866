------------------------------ MODULE AqlQueue ------------------------------
(***************************************************************************)
(* What a user-mode AQL queue promises its producers, independent of how  *)
(* the doorbell is rung: packet ids are reserved in order; a packet may be *)
(* written once its slot is within one queue of the processed count; the   *)
(* doorbell (the write pointer the packet processor is told about) only    *)
(* moves forward, never past what is reserved nor more than a queue ahead  *)
(* of what is processed; and the processor consumes packets one by one, in *)
(* id order, each only after it is both written and announced.             *)
(***************************************************************************)
EXTENDS Integers

CONSTANTS Size, MaxPackets

VARIABLES
  reserved,   \* ids 0..reserved-1 have been handed out
  doorbell,   \* the announced write pointer
  processed,  \* ids 0..processed-1 have been consumed
  written     \* packets written and not yet consumed

avars == <<reserved, doorbell, processed, written>>

Init ==
  /\ reserved = 0 /\ doorbell = 0 /\ processed = 0 /\ written = {}

Reserve ==
  /\ reserved < MaxPackets
  /\ reserved' = reserved + 1
  /\ UNCHANGED <<doorbell, processed, written>>

Write(i) ==
  /\ processed <= i /\ i < reserved /\ i < processed + Size
  /\ i \notin written
  /\ written' = written \cup {i}
  /\ UNCHANGED <<reserved, doorbell, processed>>

Ring(n) ==
  /\ doorbell < n /\ n <= reserved /\ n <= processed + Size
  /\ doorbell' = n
  /\ UNCHANGED <<reserved, processed, written>>

Process ==
  /\ processed < doorbell /\ processed \in written
  /\ processed' = processed + 1
  /\ written' = written \ {processed}
  /\ UNCHANGED <<reserved, doorbell>>

Next ==
  \/ Reserve \/ Process
  \/ \E i \in 0..MaxPackets - 1 : Write(i)
  \/ \E n \in 1..MaxPackets : Ring(n)

(* What every step of a queue may do: no fairness, because a packet       *)
(* processor need not keep running.                                        *)
SafeSpec == Init /\ [][Next]_avars

=============================================================================
