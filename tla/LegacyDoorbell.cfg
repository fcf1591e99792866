\* Legacy doorbell, three producers, ring of two packets, three packets: producers reserve past a full ring, and
\* after the pipe's one pass a producer reuses a slot and rings for a packet no pass consumes.
CONSTANTS
  Producers = {p1, p2, p3}
  Size = 2
  MaxPackets = 3

SPECIFICATION Spec

INVARIANT TypeOK
INVARIANT HardwareWindowBounded
INVARIANT DoorbellCoversRungPackets
PROPERTY DoorbellMonotonic
PROPERTY AqlQueueSpec

\* Pipe::Execute makes one pass and returns; producers then spin on a full
\* ring or have nothing left to reserve, so the system really stops.
CHECK_DEADLOCK FALSE
