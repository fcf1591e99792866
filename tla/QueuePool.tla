----------------------------- MODULE QueuePool -----------------------------
(***************************************************************************)
(* StreamPool's pool of hardware queues (Stream.cpp): AcquireQueue hands   *)
(* out a pooled queue of the caller's agent whose ref_count is 0, or       *)
(* creates a queue and enters it in queue_pool_ with ref_count 1;          *)
(* ReleaseQueue decrements the ref_count and, at 0, destroys the queue and *)
(* erases its entry.  queue_pool_ (a std::map) is read and written with no *)
(* lock; each map operation (scan, emplace, find, erase) is one step here, *)
(* and the steps of different threads interleave.                          *)
(***************************************************************************)
EXTENDS Naturals, FiniteSets

CONSTANTS
  Threads,        \* host threads calling AcquireQueue / ReleaseQueue
  Agents,         \* the agents queues are created on
  AgentOf,        \* AgentOf[t]: the agent thread t asks a queue of
  Hints,          \* the queue_size_hint values callers pass
  QueueMaxSize,   \* the agent's HSA_AGENT_INFO_QUEUE_MAX_SIZE
  MaxAcquires     \* bound on AcquireQueue calls, so on queues created

Queues == 1..MaxAcquires   \* queue objects, in order of creation
NoQueue == 0

VARIABLES
  pool,       \* the keys of queue_pool_
  ref,        \* ref[q]: queue_pool_[q].ref_count
  owner,      \* owner[q]: queue_pool_[q].agent
  created,    \* queues allocated by CreateQueue
  destroyed,  \* queues destroyed by DestroyQueue
  acquires,   \* AcquireQueue calls made so far
  pc,         \* pc[t]: where thread t is
  q,          \* q[t]: the queue thread t holds or is working on
  failed      \* an assert in ReleaseQueue has fired (the process aborts)

vars == <<pool, ref, owner, created, destroyed, acquires, pc, q, failed>>

TypeOK ==
  /\ pool \subseteq created /\ created \subseteq Queues /\ destroyed \subseteq created
  /\ ref \in [Queues -> Nat] /\ owner \in [Queues -> Agents]
  /\ acquires \in 0..MaxAcquires
  /\ pc \in [Threads -> {"idle", "create", "emplace", "using", "destroy", "erase"}]
  /\ q \in [Threads -> Queues \cup {NoQueue}]
  /\ failed \in BOOLEAN

IsPowerOfTwo(n) == \E k \in 0..n : 2^k = n

Init ==
  /\ pool = {} /\ created = {} /\ destroyed = {}
  /\ ref = [x \in Queues |-> 0]
  /\ owner = [x \in Queues |-> CHOOSE a \in Agents : TRUE]
  /\ acquires = 0
  /\ pc = [t \in Threads |-> "idle"]
  /\ q = [t \in Threads |-> NoQueue]
  /\ failed = FALSE

Goto(t, l) == pc' = [pc EXCEPT ![t] = l]

(* Pooled entries AcquireQueue would hand to thread t. *)
Reusable(t) == {x \in pool : owner[x] = AgentOf[t] /\ ref[x] = 0}

(***************************************************************************)
(* AcquireQueue                                                            *)
(***************************************************************************)

(* The scan of queue_pool_ finds an entry of the caller's agent with       *)
(* ref_count 0 and returns it, leaving ref_count as it is.                 *)
AcquireReuse(t) ==
  /\ ~failed /\ pc[t] = "idle" /\ acquires < MaxAcquires
  /\ \E x \in Reusable(t) : q' = [q EXCEPT ![t] = x]
  /\ acquires' = acquires + 1
  /\ Goto(t, "using")
  /\ UNCHANGED <<pool, ref, owner, created, destroyed, failed>>

(* The scan finds nothing: go on to create a queue (q[t] names the object *)
(* CreateQueue will allocate).                                             *)
AcquireMiss(t) ==
  /\ ~failed /\ pc[t] = "idle" /\ acquires < MaxAcquires
  /\ Reusable(t) = {}
  /\ acquires' = acquires + 1
  /\ q' = [q EXCEPT ![t] = acquires + 1]
  /\ Goto(t, "create")
  /\ UNCHANGED <<pool, ref, owner, created, destroyed, failed>>

(* queue_size = min(max size, hint); CreateQueue accepts a nonzero power   *)
(* of two and allocates a new HardQueue.                                   *)
QueueSize(hint) == IF QueueMaxSize < hint THEN QueueMaxSize ELSE hint

CreateQueue(t) ==
  /\ ~failed /\ pc[t] = "create"
  /\ \E hint \in Hints : QueueSize(hint) # 0 /\ IsPowerOfTwo(QueueSize(hint))
  /\ created' = created \cup {q[t]}
  /\ owner' = [owner EXCEPT ![q[t]] = AgentOf[t]]
  /\ Goto(t, "emplace")
  /\ UNCHANGED <<pool, ref, destroyed, acquires, q, failed>>

(* CreateQueue returns ERROR_INVALID_ARGUMENT and so does AcquireQueue. *)
CreateQueueRejected(t) ==
  /\ ~failed /\ pc[t] = "create"
  /\ \E hint \in Hints : ~(QueueSize(hint) # 0 /\ IsPowerOfTwo(QueueSize(hint)))
  /\ q' = [q EXCEPT ![t] = NoQueue]
  /\ Goto(t, "idle")
  /\ UNCHANGED <<pool, ref, owner, created, destroyed, acquires, failed>>

(* queue_pool_.emplace({queue, QueueInfo()}) and ref_count = 1. *)
Emplace(t) ==
  /\ ~failed /\ pc[t] = "emplace"
  /\ pool' = pool \cup {q[t]}
  /\ ref' = [ref EXCEPT ![q[t]] = 1]
  /\ Goto(t, "using")
  /\ UNCHANGED <<owner, created, destroyed, acquires, q, failed>>

(***************************************************************************)
(* ReleaseQueue                                                            *)
(***************************************************************************)

(* find, the two asserts, ref_count--, and the early return while the      *)
(* count is not 0.                                                         *)
ReleaseQueue(t) ==
  /\ ~failed /\ pc[t] = "using"
  /\ q[t] \in pool /\ ref[q[t]] > 0
  /\ ref' = [ref EXCEPT ![q[t]] = @ - 1]
  /\ IF ref[q[t]] - 1 # 0 THEN Goto(t, "idle") /\ q' = [q EXCEPT ![t] = NoQueue]
                         ELSE Goto(t, "destroy") /\ UNCHANGED q
  /\ UNCHANGED <<pool, owner, created, destroyed, acquires, failed>>

(* assert(iter != queue_pool_.end()) or assert(ref_count > 0) fails. *)
ReleaseAssertFails(t) ==
  /\ ~failed /\ pc[t] = "using"
  /\ ~(q[t] \in pool /\ ref[q[t]] > 0)
  /\ failed' = TRUE
  /\ UNCHANGED <<pool, ref, owner, created, destroyed, acquires, pc, q>>

(* DestroyQueue(queue): queue->Destroy(). *)
DestroyQueue(t) ==
  /\ ~failed /\ pc[t] = "destroy"
  /\ destroyed' = destroyed \cup {q[t]}
  /\ Goto(t, "erase")
  /\ UNCHANGED <<pool, ref, owner, created, acquires, q, failed>>

(* queue_pool_.erase(iter). *)
Erase(t) ==
  /\ ~failed /\ pc[t] = "erase"
  /\ pool' = pool \ {q[t]}
  /\ q' = [q EXCEPT ![t] = NoQueue]
  /\ Goto(t, "idle")
  /\ UNCHANGED <<ref, owner, created, destroyed, acquires, failed>>

Next ==
  \E t \in Threads :
    \/ AcquireReuse(t) \/ AcquireMiss(t) \/ CreateQueue(t) \/ CreateQueueRejected(t)
    \/ Emplace(t) \/ ReleaseQueue(t) \/ ReleaseAssertFails(t)
    \/ DestroyQueue(t) \/ Erase(t)

Spec == Init /\ [][Next]_vars

(***************************************************************************)
(* Properties.                                                             *)
(***************************************************************************)

(* A queue AcquireQueue returned to a thread is never destroyed while that *)
(* thread still holds it (before its own ReleaseQueue).                    *)
NoUseOfDestroyedQueue ==
  \A t \in Threads : pc[t] = "using" => q[t] \notin destroyed

=============================================================================
