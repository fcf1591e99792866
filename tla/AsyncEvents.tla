---------------------------- MODULE AsyncEvents ----------------------------
(***************************************************************************)
(* EventPool's asynchronous signal handlers (EventPool.cpp).               *)
(*                                                                         *)
(* SetAsyncSignalHandler retains the signal, and under                     *)
(* async_events_control_.lock starts the events thread on first use (a     *)
(* "wake" signal, entered as async_events_[0], and the thread), stages the *)
(* registration in new_async_events_ and stores 1 to the wake signal.      *)
(* AsyncEventsLoop waits with WaitAnySignal on async_events_, resets the   *)
(* wake signal or runs the handler that fired (dropping its entry when the *)
(* handler returns false), sweeps out invalid signals, merges the staged   *)
(* registrations under the lock (a null signal is a plain function to     *)
(* call), calls those functions, and at exit releases what it still holds. *)
(* Shutdown sets exit, stores 1 to the wake signal and joins the thread.   *)
(*                                                                         *)
(* The line of SetAsyncSignalHandler that creates the thread is commented  *)
(* out in the source: EventsThread = FALSE is the code as it is built (the *)
(* thread is never created and every call fails), EventsThread = TRUE the  *)
(* code with that line in place.                                           *)
(***************************************************************************)
EXTENDS Naturals, Sequences, FiniteSets

CONSTANTS
  Signals,        \* user signals handlers are registered on
  EventsThread,   \* whether os::CreateThread starts AsyncEventsLoop
  MaxRegs,        \* bound on SetAsyncSignalHandler calls
  MaxStores       \* bound on stores to and destroys of user signals

Wake == "wake"          \* async_events_control_.wake
NoSignal == "none"      \* a null signal: a plain function
Entry == Signals \cup {Wake, NoSignal}

VARIABLES
  value,      \* value[s]: the user signal's value (a handler waits for NE 0)
  valid,      \* valid[s]: the user signal still has a handle
  retains,    \* retains[s]: Retain calls made by registrations, not yet released
  wakeVal,    \* the current wake signal's value
  wakes,      \* wake signals created
  thread,     \* async_events_thread_ != NULL
  exit,       \* async_events_control_.exit
  active,     \* async_events_.signal_, a sequence (position 1 is index 0)
  staged,     \* new_async_events_.signal_
  funcs,      \* plain functions taken out of staged, still to call
  lpc,        \* the events thread: where it is
  fired,      \* the position WaitAnySignal returned (0 for -1)
  regs,       \* SetAsyncSignalHandler calls made
  stores,     \* stores and destroys made
  spc,        \* Shutdown: "no", "signalled", "joined"
  nullRelease \* Release has been called on a null signal

vars == <<value, valid, retains, wakeVal, wakes, thread, exit, active, staged,
          funcs, lpc, fired, regs, stores, spc, nullRelease>>

TypeOK ==
  /\ value \in [Signals -> {0, 1}] /\ valid \in [Signals -> BOOLEAN]
  /\ retains \in [Signals -> 0..MaxRegs]
  /\ wakeVal \in {0, 1} /\ wakes \in 0..MaxRegs
  /\ thread \in BOOLEAN /\ exit \in BOOLEAN
  /\ active \in Seq(Entry) /\ staged \in Seq(Entry) /\ funcs \in 0..MaxRegs
  /\ lpc \in {"none", "wait", "dispatch", "sweep", "merge", "call", "exiting", "done"}
  /\ spc \in {"no", "signalled", "joined"}

Init ==
  /\ value = [s \in Signals |-> 0] /\ valid = [s \in Signals |-> TRUE]
  /\ retains = [s \in Signals |-> 0]
  /\ wakeVal = 0 /\ wakes = 0 /\ thread = FALSE /\ exit = FALSE
  /\ active = <<>> /\ staged = <<>> /\ funcs = 0
  /\ lpc = "none" /\ fired = 0 /\ regs = 0 /\ stores = 0
  /\ spc = "no" /\ nullRelease = FALSE

(* An entry is valid while its signal has a handle (the wake signal until  *)
(* Shutdown destroys it, after the thread has ended).                      *)
IsValid(e) == IF e = Wake THEN TRUE ELSE valid[e]

(* The condition entry e waits for: NE 0. *)
CondMet(e) == IF e = Wake THEN wakeVal # 0 ELSE value[e] # 0

(* AsyncEvents::CopyIndex(k, Size() - 1) followed by PopBack(). *)
CopyPop(seq, k) == SubSeq([seq EXCEPT ![k] = seq[Len(seq)]], 1, Len(seq) - 1)

(* The dead-signal sweep from index k on. *)
RECURSIVE SweepFrom(_, _)
SweepFrom(seq, k) ==
  IF k > Len(seq) THEN seq
  ELSE IF ~IsValid(seq[k]) THEN SweepFrom(CopyPop(seq, k), k)
  ELSE SweepFrom(seq, k + 1)

(* How many times signal s occurs in seq. *)
Occurrences(seq, s) == Cardinality({k \in 1..Len(seq) : seq[k] = s})

(***************************************************************************)
(* Fault variants used by the mutation runs.                               *)
(***************************************************************************)
\* The handler's entry is dropped without releasing its signal.
DispatchNoRelease ==
  /\ lpc = "dispatch"
  /\ IF fired = 1 THEN wakeVal' = 0 /\ UNCHANGED active
     ELSE IF fired > 1 THEN \E keep \in BOOLEAN :
            /\ active' = IF keep THEN active ELSE CopyPop(active, fired)
            /\ UNCHANGED wakeVal
     ELSE UNCHANGED <<wakeVal, active>>
  /\ lpc' = "sweep"
  /\ UNCHANGED <<value, valid, retains, wakes, thread, exit, staged, funcs,
                 fired, regs, stores, spc, nullRelease>>

\* A registration is staged without storing 1 to the wake signal.
SetAsyncSignalHandlerNoWake ==
  /\ regs < MaxRegs /\ spc = "no"
  /\ \E e \in Signals \cup {NoSignal} :
       /\ retains' = IF e # NoSignal THEN [retains EXCEPT ![e] = @ + 1] ELSE retains
       /\ IF thread THEN /\ staged' = Append(staged, e)
                         /\ UNCHANGED <<wakes, active, exit, thread>>
          ELSE /\ wakes' = wakes + 1
               /\ active' = Append(active, Wake)
               /\ exit' = FALSE
               /\ thread' = EventsThread
               /\ staged' = IF EventsThread THEN Append(staged, e) ELSE staged
  /\ lpc' = IF ~thread /\ EventsThread THEN "wait" ELSE lpc
  /\ regs' = regs + 1
  /\ UNCHANGED <<value, valid, wakeVal, funcs, fired, stores, spc, nullRelease>>

(***************************************************************************)
(* SetAsyncSignalHandler                                                   *)
(***************************************************************************)

(* Retain, then under the lock: the lazy start of the events thread (when  *)
(* the thread is not created, return ERROR_OUT_OF_RESOURCES there), the    *)
(* staging of the registration and StoreRelease(1) on the wake signal.     *)
SetAsyncSignalHandler ==
  /\ regs < MaxRegs /\ spc = "no"
  /\ \E e \in Signals \cup {NoSignal} :
       /\ retains' = IF e # NoSignal THEN [retains EXCEPT ![e] = @ + 1] ELSE retains
       /\ IF thread THEN /\ staged' = Append(staged, e)
                         /\ wakeVal' = 1
                         /\ UNCHANGED <<wakes, active, exit, thread>>
          ELSE /\ wakes' = wakes + 1
               /\ active' = Append(active, Wake)
               /\ exit' = FALSE
               /\ thread' = EventsThread
               /\ staged' = IF EventsThread THEN Append(staged, e) ELSE staged
               /\ wakeVal' = IF EventsThread THEN 1 ELSE wakeVal
  /\ lpc' = IF ~thread /\ EventsThread THEN "wait" ELSE lpc
  /\ regs' = regs + 1
  /\ UNCHANGED <<value, valid, funcs, fired, stores, spc, nullRelease>>

(***************************************************************************)
(* AsyncEventsLoop                                                         *)
(***************************************************************************)

(* WaitAnySignal(async_events_, infinite) returns the first index whose    *)
(* signal is invalid (as -1) or meets its condition; it blocks while none  *)
(* does.                                                                   *)
WaitAnySignal ==
  /\ lpc = "wait"
  /\ \E k \in 1..Len(active) :
       /\ ~IsValid(active[k]) \/ CondMet(active[k])
       /\ \A j \in 1..k - 1 : IsValid(active[j]) /\ ~CondMet(active[j])
       /\ fired' = IF IsValid(active[k]) THEN k ELSE 0
  /\ lpc' = "dispatch"
  /\ UNCHANGED <<value, valid, retains, wakeVal, wakes, thread, exit, active,
                 staged, funcs, regs, stores, spc, nullRelease>>

(* Index 0 resets the wake signal; another index runs its handler, which   *)
(* returns keep or not (an entry not kept is released and removed); -1     *)
(* does nothing.                                                           *)
Dispatch ==
  /\ lpc = "dispatch"
  /\ IF fired = 1 THEN wakeVal' = 0 /\ UNCHANGED <<active, retains>>
     ELSE IF fired > 1 THEN \E keep \in BOOLEAN :
            /\ active' = IF keep THEN active ELSE CopyPop(active, fired)
            /\ retains' = IF keep THEN retains
                          ELSE [retains EXCEPT ![active[fired]] = @ - 1]
            /\ UNCHANGED wakeVal
     ELSE UNCHANGED <<wakeVal, active, retains>>
  /\ lpc' = "sweep"
  /\ UNCHANGED <<value, valid, wakes, thread, exit, staged, funcs,
                 fired, regs, stores, spc, nullRelease>>

(* Check for dead signals: release and remove every invalid entry. *)
Sweep ==
  /\ lpc = "sweep"
  /\ active' = SweepFrom(active, 1)
  /\ retains' = [s \in Signals |->
                  IF valid[s] THEN retains[s] ELSE retains[s] - Occurrences(active, s)]
  /\ lpc' = "merge"
  /\ UNCHANGED <<value, valid, wakeVal, wakes, thread, exit, staged, funcs,
                 fired, regs, stores, spc, nullRelease>>

(* Under the lock: staged signals join async_events_, null ones become     *)
(* plain functions; new_async_events_ is cleared.                          *)
Merge ==
  /\ lpc = "merge"
  /\ active' = active \o SelectSeq(staged, LAMBDA e : e # NoSignal)
  /\ funcs' = funcs + Len(SelectSeq(staged, LAMBDA e : e = NoSignal))
  /\ staged' = <<>>
  /\ lpc' = "call"
  /\ UNCHANGED <<value, valid, retains, wakeVal, wakes, thread, exit, fired,
                 regs, stores, spc, nullRelease>>

(* Call the plain functions, then test exit at the top of the loop. *)
CallFunctions ==
  /\ lpc = "call"
  /\ funcs' = 0
  /\ lpc' = IF exit THEN "exiting" ELSE "wait"
  /\ UNCHANGED <<value, valid, retains, wakeVal, wakes, thread, exit, active,
                 staged, fired, regs, stores, spc, nullRelease>>

(* Release every entry from index 1 on, then every staged signal, null or  *)
(* not, and clear both lists.                                              *)
ExitLoop ==
  /\ lpc = "exiting"
  /\ retains' = [s \in Signals |->
                   retains[s] - Occurrences(SubSeq(active, 2, Len(active)), s)
                              - Occurrences(staged, s)]
  /\ nullRelease' = (nullRelease \/ \E k \in 1..Len(staged) : staged[k] = NoSignal)
  /\ active' = <<>> /\ staged' = <<>>
  /\ lpc' = "done"
  /\ UNCHANGED <<value, valid, wakeVal, wakes, thread, exit, funcs, fired,
                 regs, stores, spc>>

(***************************************************************************)
(* Shutdown and the other threads                                          *)
(***************************************************************************)

(* exit = true and wake->StoreRelaxed(1). *)
ShutdownSignal ==
  /\ spc = "no" /\ thread
  /\ exit' = TRUE /\ wakeVal' = 1
  /\ spc' = "signalled"
  /\ UNCHANGED <<value, valid, retains, wakes, thread, active, staged, funcs,
                 lpc, fired, regs, stores, nullRelease>>

(* WaitForThread, CloseThread, async_events_thread_ = NULL, and the wake   *)
(* signal destroyed.                                                       *)
ShutdownJoin ==
  /\ spc = "signalled" /\ lpc = "done"
  /\ thread' = FALSE
  /\ spc' = "joined"
  /\ UNCHANGED <<value, valid, retains, wakeVal, wakes, exit, active, staged,
                 funcs, lpc, fired, regs, stores, nullRelease>>

(* A user thread stores to a signal that still has a handle. *)
Store(s) ==
  /\ stores < MaxStores /\ valid[s]
  /\ value' = [value EXCEPT ![s] = 1 - @]
  /\ stores' = stores + 1
  /\ UNCHANGED <<valid, retains, wakeVal, wakes, thread, exit, active, staged,
                 funcs, lpc, fired, regs, spc, nullRelease>>

(* A user thread destroys the signal's last handle. *)
Destroy(s) ==
  /\ stores < MaxStores /\ valid[s]
  /\ valid' = [valid EXCEPT ![s] = FALSE]
  /\ stores' = stores + 1
  /\ UNCHANGED <<value, retains, wakeVal, wakes, thread, exit, active, staged,
                 funcs, lpc, fired, regs, spc, nullRelease>>

Next ==
  \/ SetAsyncSignalHandler
  \/ WaitAnySignal \/ Dispatch \/ Sweep \/ Merge \/ CallFunctions \/ ExitLoop
  \/ ShutdownSignal \/ ShutdownJoin
  \/ \E s \in Signals : Store(s) \/ Destroy(s)

(* The events thread runs whenever it can; Shutdown, once begun, joins. *)
Fairness ==
  /\ WF_vars(WaitAnySignal) /\ WF_vars(Dispatch) /\ WF_vars(Sweep)
  /\ WF_vars(Merge) /\ WF_vars(CallFunctions) /\ WF_vars(ExitLoop)
  /\ WF_vars(ShutdownJoin)

Spec == Init /\ [][Next]_vars /\ Fairness

(***************************************************************************)
(* Properties.                                                             *)
(***************************************************************************)

(* Every Retain a registration takes is owned by an entry: a user signal   *)
(* is retained exactly as many times as it appears in async_events_ and    *)
(* new_async_events_, so its last Release comes when its last entry goes.  *)
RetainsOwned ==
  \A s \in Signals : retains[s] = Occurrences(active, s) + Occurrences(staged, s)

(* A staged registration is eventually merged into the watch list (or its  *)
(* function called), unless the thread is shutting down.                   *)
RegistrationsMerged ==
  (staged # <<>> /\ spc = "no") ~> (staged = <<>> \/ spc # "no")

(* Shutdown never calls Release on the null signal of a plain function. *)
NoNullRelease == ~nullRelease

=============================================================================
