--------------------------- MODULE LegacyDoorbell ---------------------------
(***************************************************************************)
(* A HardQueue ring with the software-emulated ("legacy") doorbell, small  *)
(* machine model, driven by several producer threads and drained by the    *)
(* packet processor.                                                       *)
(*                                                                         *)
(* Producers follow the AQL submission protocol: reserve an index with     *)
(* AddWriteIndex, wait until the slot is within a queue of the read index, *)
(* write the packet (header last) and ring the doorbell with               *)
(* HardQueue::StoreRelaxed.  The doorbell, under a spinlock, publishes     *)
(* min(write index, read index + size) into                                *)
(* max_legacy_doorbell_dispatch_id_plus_1 -- the word the hardware reads   *)
(* as its write pointer -- unless that is not newer than what is there.    *)
(*                                                                         *)
(* The consumer is Pipe::Execute, which StreamProcessor::Execute starts    *)
(* once per pipe and never again: it loads the hardware write pointer,     *)
(* consumes valid packets from its read index, resets each consumed header *)
(* to INVALID, stops at an INVALID header, stores the read index back and  *)
(* returns.  A packet announced after that one pass is never consumed.     *)
(***************************************************************************)
EXTENDS Integers

CONSTANTS
  Producers,    \* producer threads
  Size,         \* ring size in packets (co_queue_.size, a power of two)
  MaxPackets    \* bound: packets reserved over the whole run

ASSUME Size \in Nat \ {0}
ASSUME MaxPackets \in Nat \ {0}

Invalid == -1      \* a slot whose header type is PACKET_TYPE_INVALID
Packets == 0..MaxPackets - 1

VARIABLES
  write,      \* co_queue_.write_dispatch_id
  read,       \* co_queue_.read_dispatch_id
  maxLegacy,  \* co_queue_.max_legacy_doorbell_dispatch_id_plus_1
  mmio,       \* *legacy_hardware_doorbell_ptr (32-bit MMIO register)
  lock,       \* co_queue_.legacy_doorbell_lock
  slots,      \* slots[i]: index of the packet in slot i, or Invalid
  pc, idx, legacy,      \* producer program counter, reserved index, local id
  cpc, cread, cwptr,    \* consumer program counter, local read, loaded wptr
  rung        \* history: packets whose doorbell call has returned

vars == <<write, read, maxLegacy, mmio, lock, slots, pc, idx, legacy,
          cpc, cread, cwptr, rung>>

Slot(i) == i % Size
Min2(a, b) == IF a <= b THEN a ELSE b

TypeOK ==
  /\ write \in 0..MaxPackets /\ read \in 0..MaxPackets
  /\ maxLegacy \in 0..MaxPackets /\ mmio \in 0..MaxPackets
  /\ lock \in {0, 1}
  /\ slots \in [0..Size - 1 -> Packets \cup {Invalid}]
  /\ pc \in [Producers -> {"idle", "wait", "write", "db_lock", "db_loadw",
                           "db_clamp", "db_cmp", "db_store", "db_unlock"}]
  /\ idx \in [Producers -> 0..MaxPackets]
  /\ legacy \in [Producers -> 0..MaxPackets + Size]
  /\ cpc \in {"c_load", "c_pkt", "c_store", "c_done"}
  /\ cread \in 0..MaxPackets /\ cwptr \in 0..MaxPackets
  /\ rung \subseteq Packets

(* HardQueue constructor: every header INVALID, co_queue_ zeroed. *)
Init ==
  /\ write = 0 /\ read = 0 /\ maxLegacy = 0 /\ mmio = 0 /\ lock = 0
  /\ slots = [i \in 0..Size - 1 |-> Invalid]
  /\ pc = [p \in Producers |-> "idle"]
  /\ idx = [p \in Producers |-> 0]
  /\ legacy = [p \in Producers |-> 0]
  /\ cpc = "c_load" /\ cread = 0 /\ cwptr = 0
  /\ rung = {}

Goto(p, l) == pc' = [pc EXCEPT ![p] = l]

(***************************************************************************)
(* Producer protocol (the queue's client).                                 *)
(***************************************************************************)

(* AddWriteIndexRelaxed(1): the old value is this producer's index. *)
AddWriteIndex(p) ==
  /\ pc[p] = "idle" /\ write < MaxPackets
  /\ idx' = [idx EXCEPT ![p] = write]
  /\ write' = write + 1
  /\ Goto(p, "wait")
  /\ UNCHANGED <<read, maxLegacy, mmio, lock, slots, legacy, cpc, cread, cwptr, rung>>

\* Fault variant: the free-slot test admits a packet one queue ahead.
WaitForSlotOffByOne(p) ==
  /\ pc[p] = "wait" /\ idx[p] <= read + Size
  /\ Goto(p, "write")
  /\ UNCHANGED <<write, read, maxLegacy, mmio, lock, slots, idx, legacy, cpc, cread, cwptr, rung>>

(* Spin on LoadReadIndexAcquire until the slot is free. *)
WaitForSlot(p) ==
  /\ pc[p] = "wait" /\ idx[p] < read + Size
  /\ Goto(p, "write")
  /\ UNCHANGED <<write, read, maxLegacy, mmio, lock, slots, idx, legacy, cpc, cread, cwptr, rung>>

(* Fill the packet and publish its header (store-release). *)
WritePacket(p) ==
  /\ pc[p] = "write"
  /\ slots' = [slots EXCEPT ![Slot(idx[p])] = idx[p]]
  /\ Goto(p, "db_lock")
  /\ UNCHANGED <<write, read, maxLegacy, mmio, lock, idx, legacy, cpc, cread, cwptr, rung>>

(***************************************************************************)
(* Fault variants used by the mutation runs.                               *)
(***************************************************************************)
\* Spinlock acquire that does not wait for the lock word to be free.
AcquireNoWait(p) ==
  /\ pc[p] = "db_lock"
  /\ lock' = 1
  /\ Goto(p, "db_loadw")
  /\ UNCHANGED <<write, read, maxLegacy, mmio, slots, idx, legacy, cpc, cread, cwptr, rung>>

\* No clamp: the raw write index is published.
ClampNone(p) ==
  /\ pc[p] = "db_clamp"
  /\ Goto(p, "db_cmp")
  /\ UNCHANGED <<write, read, maxLegacy, mmio, lock, slots, idx, legacy, cpc, cread, cwptr, rung>>

\* Clamp one packet short of a full queue.
ClampShort(p) ==
  /\ pc[p] = "db_clamp"
  /\ legacy' = [legacy EXCEPT ![p] = Min2(@, read + Size - 1)]
  /\ Goto(p, "db_cmp")
  /\ UNCHANGED <<write, read, maxLegacy, mmio, lock, slots, idx, cpc, cread, cwptr, rung>>

\* Off by one: the write index is taken as the last packet's id and the
\* id past it is published.
LoadWriteIndexPlusOne(p) ==
  /\ pc[p] = "db_loadw"
  /\ legacy' = [legacy EXCEPT ![p] = write + 1]
  /\ Goto(p, "db_clamp")
  /\ UNCHANGED <<write, read, maxLegacy, mmio, lock, slots, idx, cpc, cread, cwptr, rung>>

(***************************************************************************)
(* HardQueue::StoreRelaxed on a legacy doorbell (doorbell_type_ == 1).     *)
(***************************************************************************)

(* while (Cas(&legacy_doorbell_lock, 1, 0) != 0) YieldThread(); *)
AcquireDoorbellLock(p) ==
  /\ pc[p] = "db_lock" /\ lock = 0
  /\ lock' = 1
  /\ Goto(p, "db_loadw")
  /\ UNCHANGED <<write, read, maxLegacy, mmio, slots, idx, legacy, cpc, cread, cwptr, rung>>

(* Small model: the doorbell value is ignored; the write index is used. *)
LoadWriteIndex(p) ==
  /\ pc[p] = "db_loadw"
  /\ legacy' = [legacy EXCEPT ![p] = write]
  /\ Goto(p, "db_clamp")
  /\ UNCHANGED <<write, read, maxLegacy, mmio, lock, slots, idx, cpc, cread, cwptr, rung>>

(* Clamp to at most a full queue beyond the read index. *)
ClampToQueue(p) ==
  /\ pc[p] = "db_clamp"
  /\ legacy' = [legacy EXCEPT ![p] = Min2(@, read + Size)]
  /\ Goto(p, "db_cmp")
  /\ UNCHANGED <<write, read, maxLegacy, mmio, lock, slots, idx, cpc, cread, cwptr, rung>>

(* Discard backwards and duplicate doorbells. *)
CompareLastDoorbell(p) ==
  /\ pc[p] = "db_cmp"
  /\ Goto(p, IF legacy[p] > maxLegacy THEN "db_store" ELSE "db_unlock")
  /\ UNCHANGED <<write, read, maxLegacy, mmio, lock, slots, idx, legacy, cpc, cread, cwptr, rung>>

(* Record the id as the hardware write index, then write the MMIO          *)
(* doorbell with the id cast to uint32_t (ids stay below 2^32 within       *)
(* MaxPackets, so the cast is the identity here).                          *)
PublishDoorbell(p) ==
  /\ pc[p] = "db_store"
  /\ maxLegacy' = legacy[p]
  /\ mmio' = legacy[p]
  /\ Goto(p, "db_unlock")
  /\ UNCHANGED <<write, read, lock, slots, idx, legacy, cpc, cread, cwptr, rung>>

(* Release the spinlock; the doorbell call returns and the producer's     *)
(* locals go out of scope.                                                 *)
ReleaseDoorbellLock(p) ==
  /\ pc[p] = "db_unlock"
  /\ lock' = 0
  /\ rung' = rung \cup {idx[p]}
  /\ idx' = [idx EXCEPT ![p] = 0]
  /\ legacy' = [legacy EXCEPT ![p] = 0]
  /\ Goto(p, "idle")
  /\ UNCHANGED <<write, read, maxLegacy, mmio, slots, cpc, cread, cwptr>>

(***************************************************************************)
(* Consumer: Pipe::Execute.                                                *)
(***************************************************************************)

(* Load the hardware write pointer (Queue_write_ptr_aql, which for the     *)
(* legacy doorbell is max_legacy_doorbell_dispatch_id_plus_1).             *)
LoadWritePtr ==
  /\ cpc = "c_load"
  /\ cwptr' = maxLegacy
  /\ cread' = read
  /\ cpc' = "c_pkt"
  /\ UNCHANGED <<write, read, maxLegacy, mmio, lock, slots, pc, idx, legacy, rung>>

(* One turn of while (read != write_dispatch_id): a valid packet is        *)
(* processed, read++ and its header reset to INVALID.                      *)
ConsumePacket ==
  /\ cpc = "c_pkt"
  /\ cread # cwptr /\ slots[Slot(cread)] # Invalid
  /\ slots' = [slots EXCEPT ![Slot(cread)] = Invalid]
  /\ cread' = cread + 1
  /\ UNCHANGED <<write, read, maxLegacy, mmio, lock, pc, idx, legacy, cpc, cwptr, rung>>

(* The loop ends at the write pointer or breaks on an INVALID header. *)
EndOfPass ==
  /\ cpc = "c_pkt"
  /\ cread = cwptr \/ slots[Slot(cread)] = Invalid
  /\ cpc' = "c_store"
  /\ UNCHANGED <<write, read, maxLegacy, mmio, lock, slots, pc, idx, legacy, cread, cwptr, rung>>

(* if (read != read_dispatch_id) store the read pointer back to the host; *)
(* then Execute returns and the pipe's thread ends.                        *)
StoreReadPtr ==
  /\ cpc = "c_store"
  /\ read' = cread
  /\ cpc' = "c_done"
  /\ UNCHANGED <<write, maxLegacy, mmio, lock, slots, pc, idx, legacy, cread, cwptr, rung>>

Producer(p) ==
  \/ AddWriteIndex(p) \/ WaitForSlot(p) \/ WritePacket(p)
  \/ AcquireDoorbellLock(p) \/ LoadWriteIndex(p) \/ ClampToQueue(p)
  \/ CompareLastDoorbell(p) \/ PublishDoorbell(p) \/ ReleaseDoorbellLock(p)

Consumer == LoadWritePtr \/ ConsumePacket \/ EndOfPass \/ StoreReadPtr

Next == Consumer \/ \E p \in Producers : Producer(p)

(* The pipe's thread runs its one pass to the end and every producer       *)
(* thread that has begun a submission keeps running; reserving more        *)
(* packets is optional.                                                    *)
Fairness ==
  /\ WF_vars(Consumer)
  /\ \A p \in Producers : WF_vars(Producer(p) /\ pc[p] # "idle")

Spec == Init /\ [][Next]_vars /\ Fairness

(***************************************************************************)
(* Properties.                                                             *)
(***************************************************************************)

(* The clamp keeps the hardware window within one queue: the write index   *)
(* the hardware sees is never more than Size packets past the read index,  *)
(* however far producers have reserved ahead.                              *)
HardwareWindowBounded ==
  maxLegacy <= read + Size

(* "A doorbell for the remaining packets is guaranteed to be sent at a     *)
(* later time": once a producer's doorbell call returns, the hardware      *)
(* write pointer covers that producer's packet, although clamping and      *)
(* duplicate-discarding may have dropped its own id.                       *)
DoorbellCoversRungPackets ==
  \A i \in rung : i < maxLegacy

(* Backwards and duplicate doorbells are discarded: the published          *)
(* hardware write index never moves backwards, with producers racing.      *)
DoorbellMonotonic ==
  [][maxLegacy' >= maxLegacy]_maxLegacy

(* The queue, with this doorbell and this consumer, implements the        *)
(* abstract AQL queue: reserved ids are the write index, the announced     *)
(* write pointer is max_legacy_doorbell_dispatch_id_plus_1, the processed  *)
(* count is the consumer's read position and the written packets are the   *)
(* valid headers in the ring.  It fails if a producer can overwrite a      *)
(* packet not yet consumed, if the consumer can take a packet twice, out   *)
(* of order, unwritten or unannounced, or if the doorbell can announce     *)
(* more than a queue or go backwards.  Only the safety part is claimed:    *)
(* the single pass of Pipe::Execute does not consume every announced       *)
(* packet.                                                                 *)
WrittenPackets == {slots[k] : k \in DOMAIN slots} \ {Invalid}

AQ == INSTANCE AqlQueue
        WITH reserved <- write, doorbell <- maxLegacy,
             processed <- cread, written <- WrittenPackets

AqlQueueSpec == AQ!SafeSpec

=============================================================================
