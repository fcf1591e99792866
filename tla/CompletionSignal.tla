------------------------- MODULE CompletionSignal --------------------------
(***************************************************************************)
(* A completion signal counted down by several agents while a host thread  *)
(* waits for it to reach zero.                                             *)
(*                                                                         *)
(* The signal starts at the number of decrements expected.  Each pipe      *)
(* thread (StreamProcessor starts one std::thread per active Pipe) that    *)
(* processes a barrier packet naming the signal decrements it in           *)
(* Pipe::Execute with a plain load of amd_signal.value followed by a plain *)
(* store of value - 1.  Host threads decrement it with                     *)
(* BusyWaitSignal::SubRelaxed (and its Acquire/Release/AcqRel twins), one  *)
(* atomic read-modify-write.  A host thread waits with                     *)
(* BusyWaitSignal::WaitRelaxed(CONDITION_EQ, 0, infinite).                 *)
(***************************************************************************)
EXTENDS Naturals, FiniteSets

CONSTANTS
  Pipes,    \* pipe threads, each processing one barrier packet on the signal
  Hosts     \* host threads, each calling SubRelaxed(1) once

Agents == Pipes \cup Hosts
Expected == Cardinality(Agents)   \* the signal's initial value

VARIABLES
  value,    \* co_signal_.value (amd_signal.value)
  loaded,   \* loaded[p]: the value pipe p loaded, still to be stored
  done,     \* agents whose decrement has completed
  waiter    \* the waiting host thread: "wait" or "returned"

vars == <<value, loaded, done, waiter>>

NotLoaded == Expected + 1   \* no load outstanding (above any signal value)

TypeOK ==
  /\ value \in 0..Expected
  /\ loaded \in [Pipes -> 0..Expected + 1]
  /\ done \subseteq Agents
  /\ waiter \in {"wait", "returned"}

(* The signal is created with the count of decrements it waits for, and    *)
(* the host is already waiting on it.                                      *)
Init ==
  /\ value = Expected
  /\ loaded = [p \in Pipes |-> NotLoaded]
  /\ done = {}
  /\ waiter = "wait"

(***************************************************************************)
(* Pipe::Execute on a barrier packet with a completion signal.             *)
(***************************************************************************)

(* uint64_t signal_value = sig->amd_signal.value - 1;  (the load) *)
PipeLoad(p) ==
  /\ p \notin done /\ loaded[p] = NotLoaded
  /\ loaded' = [loaded EXCEPT ![p] = value]
  /\ UNCHANGED <<value, done, waiter>>

(* sig->amd_signal.value = signal_value;  (the store) *)
PipeStore(p) ==
  /\ loaded[p] # NotLoaded
  /\ value' = loaded[p] - 1
  /\ loaded' = [loaded EXCEPT ![p] = NotLoaded]
  /\ done' = done \cup {p}
  /\ UNCHANGED waiter

(* BusyWaitSignal::SubRelaxed(1): atomic_::Sub on co_signal_.value. *)
SubRelaxed(h) ==
  /\ h \notin done
  /\ value' = value - 1
  /\ done' = done \cup {h}
  /\ UNCHANGED <<loaded, waiter>>

(* A turn of BusyWaitSignal::WaitRelaxed(CONDITION_EQ, 0) that returns:    *)
(* the relaxed load sees 0.                                                *)
WaitPoll ==
  /\ waiter = "wait"
  /\ value = 0
  /\ waiter' = "returned"
  /\ UNCHANGED <<value, loaded, done>>

Next ==
  \/ \E p \in Pipes : PipeLoad(p) \/ PipeStore(p)
  \/ \E h \in Hosts : SubRelaxed(h)
  \/ WaitPoll

(* Every agent runs its packet or call to the end, and the waiter keeps    *)
(* polling.                                                                *)
Fairness ==
  /\ \A p \in Pipes : WF_vars(PipeLoad(p)) /\ WF_vars(PipeStore(p))
  /\ \A h \in Hosts : WF_vars(SubRelaxed(h))
  /\ WF_vars(WaitPoll)

Spec == Init /\ [][Next]_vars /\ Fairness

(***************************************************************************)
(* Properties.                                                             *)
(***************************************************************************)

(* Once every pipe has run its barrier packet and every host its          *)
(* SubRelaxed, the waiter eventually sees zero and returns.               *)
WaiterReleased ==
  <>(waiter = "returned")

=============================================================================
