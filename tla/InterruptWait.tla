--------------------------- MODULE InterruptWait ---------------------------
(***************************************************************************)
(* The wake-up handshake of core::InterruptSignal.                         *)
(*                                                                         *)
(* A store (StoreRelaxed, StoreRelease and every read-modify-write op)     *)
(* writes co_signal_.value and then calls SetEvent(), which signals the    *)
(* device event only if InWaiting() (waiting_ != 0).  Between the two      *)
(* there is only std::atomic_signal_fence, which orders the compiler and   *)
(* not the processor.  A waiter increments waiting_ (the first waiter may  *)
(* sleep, later ones only spin), polls the value, and once polling has     *)
(* gone on long enough blocks in WaitOnEvent.                              *)
(*                                                                         *)
(* The store of each setter goes through a per-thread store buffer (of    *)
(* depth one here) that drains at some later step.  With StoreBuffering   *)
(* the setter's next load (of waiting_) may run before the drain, as on    *)
(* x86 and as the C++ model allows for a relaxed or release store followed *)
(* by a load of another location; without it the load waits for the      *)
(* drain, which is sequential consistency for this handshake.             *)
(*                                                                         *)
(* The device event is auto-reset (EventPool creates it with manual_reset  *)
(* false): SetEvent latches it, and one WaitOnEvent consumes it.  Time is  *)
(* abstracted: the end of a wait's timeout, and the end of WaitOnEvent's   *)
(* wait_ms, are steps that may happen but need not.                        *)
(***************************************************************************)
EXTENDS Naturals, FiniteSets, Sequences, Bitwise

CONSTANTS
  Waiters,         \* threads calling WaitRelaxed / WaitAcquire
  Setters,         \* threads storing to the signal
  Values,          \* signal values
  InitValue,       \* the value the signal is created with
  StoreBuffering,  \* stores pass through a store buffer
  MaxStores        \* bound: stores over the whole run

ASSUME InitValue \in Values
ASSUME StoreBuffering \in BOOLEAN
ASSUME MaxStores \in Nat

Conditions == {"EQ", "NE", "GTE", "LT"}
Args == [cond : Conditions, cmp : Values]

VARIABLES
  value,      \* co_signal_.value in memory
  buffer,     \* buffer[s]: stores of setter s not yet visible in memory
  waiting,    \* ISignal::waiting_
  eventSet,   \* the device event is signalled
  stores,     \* stores made so far
  wpc,        \* waiter program counter
  active,     \* active[w]: wait_hint forced to ACTIVE (not the first waiter)
  args,       \* args[w]: the condition and compare value of w's wait
  spc         \* setter program counter

vars == <<value, buffer, waiting, eventSet, stores, wpc, active, args, spc>>

NoArgs == [cond |-> "EQ", cmp |-> InitValue]

TypeOK ==
  /\ value \in Values
  /\ buffer \in [Setters -> {<<>>} \cup {<<v>> : v \in Values}]
  /\ waiting \in 0..Cardinality(Waiters)
  /\ eventSet \in BOOLEAN
  /\ stores \in 0..MaxStores
  /\ wpc \in [Waiters -> {"idle", "poll", "block", "sleep", "exit"}]
  /\ active \in [Waiters -> BOOLEAN]
  /\ args \in [Waiters -> Args]
  /\ spc \in [Setters -> {"idle", "check", "set"}]

(* The switch on signal_condition_t in the wait loop. *)
CondMet(v, a) ==
  CASE a.cond = "EQ"  -> v = a.cmp
    [] a.cond = "NE"  -> v # a.cmp
    [] a.cond = "GTE" -> v >= a.cmp
    [] a.cond = "LT"  -> v < a.cmp

(* InterruptSignal constructor: the value is the initial value, nobody     *)
(* waits, and a freshly allocated event is not signalled.                  *)
Init ==
  /\ value = InitValue
  /\ buffer = [s \in Setters |-> <<>>]
  /\ waiting = 0
  /\ eventSet = FALSE
  /\ stores = 0
  /\ wpc = [w \in Waiters |-> "idle"]
  /\ active = [w \in Waiters |-> FALSE]
  /\ args = [w \in Waiters |-> NoArgs]
  /\ spc = [s \in Setters |-> "idle"]

(***************************************************************************)
(* Fault variants used by the mutation runs.                               *)
(***************************************************************************)
\* Every waiter may sleep: the first-waiter rule is dropped.
BeginWaitAnySleeps(w) ==
  /\ wpc[w] = "idle"
  /\ \E a \in Args : args' = [args EXCEPT ![w] = a]
  /\ waiting' = waiting + 1
  /\ active' = [active EXCEPT ![w] = FALSE]
  /\ wpc' = [wpc EXCEPT ![w] = "poll"]
  /\ UNCHANGED <<value, buffer, eventSet, stores, spc>>

\* The waiting_-- scope guard is missing.
ExitWaitNoDecrement(w) ==
  /\ wpc[w] = "exit"
  /\ args' = [args EXCEPT ![w] = NoArgs]
  /\ active' = [active EXCEPT ![w] = FALSE]
  /\ wpc' = [wpc EXCEPT ![w] = "idle"]
  /\ UNCHANGED <<value, buffer, waiting, eventSet, stores, spc>>

(***************************************************************************)
(* Waiter: InterruptSignal::WaitRelaxed.                                   *)
(***************************************************************************)

(* Retain(); prior = waiting_++; if (prior != 0) wait_hint = ACTIVE. *)
BeginWait(w) ==
  /\ wpc[w] = "idle"
  /\ \E a \in Args : args' = [args EXCEPT ![w] = a]
  /\ waiting' = waiting + 1
  /\ active' = [active EXCEPT ![w] = (waiting # 0)]
  /\ wpc' = [wpc EXCEPT ![w] = "poll"]
  /\ UNCHANGED <<value, buffer, eventSet, stores, spc>>

(* A loop turn: the relaxed load of the value meets the condition and the  *)
(* wait returns it; or, for a waiter allowed to sleep, polling has lasted  *)
(* past kMaxElapsed and it goes on to WaitOnEvent.  A turn that spins      *)
(* (ACTIVE) or sleeps 20 ms changes nothing.                               *)
Poll(w) ==
  /\ wpc[w] = "poll"
  /\ \/ /\ CondMet(value, args[w])
        /\ wpc' = [wpc EXCEPT ![w] = "exit"]
     \/ /\ ~CondMet(value, args[w]) /\ ~active[w]
        /\ wpc' = [wpc EXCEPT ![w] = "block"]
  /\ UNCHANGED <<value, buffer, waiting, eventSet, stores, active, args, spc>>

(* time - start_time > fast_timeout: load the value and return it. *)
PollTimeout(w) ==
  /\ wpc[w] = "poll"
  /\ wpc' = [wpc EXCEPT ![w] = "exit"]
  /\ UNCHANGED <<value, buffer, waiting, eventSet, stores, active, args, spc>>

(* WaitOnEvent(event_, wait_ms): a signalled event is consumed and the     *)
(* loop goes on; otherwise the thread blocks.                              *)
WaitOnEvent(w) ==
  /\ wpc[w] = "block"
  /\ IF eventSet
       THEN eventSet' = FALSE /\ wpc' = [wpc EXCEPT ![w] = "poll"]
       ELSE UNCHANGED eventSet /\ wpc' = [wpc EXCEPT ![w] = "sleep"]
  /\ UNCHANGED <<value, buffer, waiting, stores, active, args, spc>>

(* A blocked thread is released by SetEvent, which resets the event. *)
WakeOnEvent(w) ==
  /\ wpc[w] = "sleep" /\ eventSet
  /\ eventSet' = FALSE
  /\ wpc' = [wpc EXCEPT ![w] = "poll"]
  /\ UNCHANGED <<value, buffer, waiting, stores, active, args, spc>>

(* wait_ms (at most 0xFFFFFFFE ms) elapses. *)
EventTimeout(w) ==
  /\ wpc[w] = "sleep"
  /\ wpc' = [wpc EXCEPT ![w] = "poll"]
  /\ UNCHANGED <<value, buffer, waiting, eventSet, stores, active, args, spc>>

(* Scope guards on return: waiting_-- (then Release()). *)
ExitWait(w) ==
  /\ wpc[w] = "exit"
  /\ waiting' = waiting - 1
  /\ args' = [args EXCEPT ![w] = NoArgs]
  /\ active' = [active EXCEPT ![w] = FALSE]
  /\ wpc' = [wpc EXCEPT ![w] = "idle"]
  /\ UNCHANGED <<value, buffer, eventSet, stores, spc>>

(***************************************************************************)
(* Setter: InterruptSignal::StoreRelaxed / StoreRelease.                   *)
(***************************************************************************)

(* atomic_::Store(&co_signal_.value, value): into the store buffer. *)
Store(s) ==
  /\ spc[s] = "idle" /\ stores < MaxStores /\ buffer[s] = <<>>
  /\ \E v \in Values : buffer' = [buffer EXCEPT ![s] = <<v>>]
  /\ stores' = stores + 1
  /\ spc' = [spc EXCEPT ![s] = "check"]
  /\ UNCHANGED <<value, waiting, eventSet, wpc, active, args>>

ArithOps == {"And", "Or", "Xor", "Add", "Sub"}

(* The value And/Or/Xor/Add/Sub leave, as atomic_:: does it on the int64   *)
(* value.                                                                  *)
ArithResult(op, v, x) ==
  CASE op = "And" -> v & x
    [] op = "Or"  -> v | x
    [] op = "Xor" -> v ^^ x
    [] op = "Add" -> v + x
    [] op = "Sub" -> v - x

(* A read-modify-write (And/Or/Xor/Add/Sub, Exch or Cas in any memory      *)
(* order) on the value, then SetEvent().  The operation is atomic and      *)
(* reads the latest value; it is not buffered (a locked instruction on     *)
(* x86 drains the store buffer).  Operations whose result leaves Values    *)
(* are not taken: Values bounds the signal's range.                        *)
Rmw(s) ==
  /\ spc[s] = "idle" /\ stores < MaxStores /\ buffer[s] = <<>>
  /\ \E x \in Values :
       \/ \E op \in ArithOps : value' = ArithResult(op, value, x)
       \/ value' = x                                   \* Exch
       \/ \E e \in Values : value' = IF value = e THEN x ELSE value   \* Cas
  /\ value' \in Values
  /\ stores' = stores + 1
  /\ spc' = [spc EXCEPT ![s] = "check"]
  /\ UNCHANGED <<buffer, waiting, eventSet, wpc, active, args>>

(* SetEvent(): atomic_signal_fence; if (InWaiting()) ... *)
CheckWaiting(s) ==
  /\ spc[s] = "check"
  /\ StoreBuffering \/ buffer[s] = <<>>
  /\ spc' = [spc EXCEPT ![s] = IF waiting # 0 THEN "set" ELSE "idle"]
  /\ UNCHANGED <<value, buffer, waiting, eventSet, stores, wpc, active, args>>

(* ... GetDevice()->SetEvent(event_). *)
SetEvent(s) ==
  /\ spc[s] = "set"
  /\ eventSet' = TRUE
  /\ spc' = [spc EXCEPT ![s] = "idle"]
  /\ UNCHANGED <<value, buffer, waiting, stores, wpc, active, args>>

(* The processor drains a store buffer to memory. *)
Drain(s) ==
  /\ buffer[s] # <<>>
  /\ value' = Head(buffer[s])
  /\ buffer' = [buffer EXCEPT ![s] = Tail(@)]
  /\ UNCHANGED <<waiting, eventSet, stores, wpc, active, args, spc>>

Waiter(w) ==
  \/ BeginWait(w) \/ Poll(w) \/ PollTimeout(w) \/ WaitOnEvent(w)
  \/ WakeOnEvent(w) \/ EventTimeout(w) \/ ExitWait(w)

Setter(s) == Store(s) \/ Rmw(s) \/ CheckWaiting(s) \/ SetEvent(s) \/ Drain(s)

Next == (\E w \in Waiters : Waiter(w)) \/ (\E s \in Setters : Setter(s))

(* Threads inside a call run, buffers drain, and a signalled event wakes   *)
(* its sleeper.  Starting a call and the expiry of a timeout are not       *)
(* assumed: an infinite wait has no timeout, and with GetTimeout's         *)
(* division by a zero frequency no finite one is reliable either.          *)
Fairness ==
  /\ \A w \in Waiters :
       /\ WF_vars(Poll(w)) /\ WF_vars(WaitOnEvent(w))
       /\ WF_vars(WakeOnEvent(w)) /\ WF_vars(ExitWait(w))
  /\ \A s \in Setters :
       WF_vars(CheckWaiting(s)) /\ WF_vars(SetEvent(s)) /\ WF_vars(Drain(s))

Spec == Init /\ [][Next]_vars /\ Fairness

(***************************************************************************)
(* Properties.                                                             *)
(***************************************************************************)

(* No lost wake-up: a thread inside WaitRelaxed whose condition is met by  *)
(* the signal's value does not stay in the wait while it stays met: the    *)
(* store that met it either is seen by the polling loop or its SetEvent    *)
(* reaches the sleeping thread.                                            *)
NoLostWakeup ==
  \A w \in Waiters :
    (wpc[w] \in {"poll", "block", "sleep"} /\ CondMet(value, args[w]))
      ~> (wpc[w] \notin {"poll", "block", "sleep"} \/ ~CondMet(value, args[w]))

(* "Allow only the first waiter to sleep": with the auto-reset event, at   *)
(* most one thread is ever blocked in WaitOnEvent on this signal, so one   *)
(* SetEvent always reaches every sleeper.                                  *)
AtMostOneSleeper ==
  Cardinality({w \in Waiters : wpc[w] \in {"block", "sleep"}}) <= 1

=============================================================================
