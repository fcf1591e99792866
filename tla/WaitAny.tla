------------------------------- MODULE WaitAny -------------------------------
(***************************************************************************)
(* StreamPool::WaitAnySignal (Stream.cpp) waiting on several signals at    *)
(* once, against threads that create the signals, store to them or        *)
(* destroy them.                                                           *)
(*                                                                         *)
(* StreamPool::CreateSignal makes a DefaultSignal (a BusyWaitSignal, whose *)
(* EopEvent() is NULL and whose stores set nothing) or an InterruptSignal, *)
(* whose constructor takes an event from EventPool::alloc: the last event  *)
(* of the free list, else a new device event, else (once CreateEvent has   *)
(* failed and latched allEventsAllocated) NULL.  Every store to an         *)
(* InterruptSignal, and the CasRelaxed(0, 0) DestroySignal does when the   *)
(* last handle goes, is followed by SetEvent, which sets the signal's      *)
(* auto-reset event if waiting_ is nonzero.  The object is deleted by the  *)
(* last Release (DestroySignal's own, or that of a WaitAnySignal that      *)
(* retained it), and ~InterruptSignal gives its event back to the pool.    *)
(* Stores are visible at once (the store-buffering case is InterruptWait's).*)
(***************************************************************************)
EXTENDS Naturals, Sequences, FiniteSets

LOCAL INSTANCE SequencesExt

CONSTANTS
  Waiters,          \* threads calling WaitAnySignal, once each
  Signals,          \* the signal objects the program creates
  Agents,           \* agents a signal may name as consumers
  CpuAgents,        \* Runtime::GetCpuAgents()
  CreateArgs,       \* CreateArgs[s]: the argument records s may be created with
  CreatedAfter,     \* CreatedAfter[s]: signals the program creates before s
  UseInterruptWait, \* Runtime::use_interrupt_wait_
  DeviceEvents,     \* the events the device can create before CreateEvent fails
  Watch,            \* Watch[w]: the signals array w passes, a sequence
  Cond,             \* Cond[w][i]: conds[i] of w, "EQ", "NE", "GTE" or "LT"
  Cmp,              \* Cmp[w][i]: values[i] of w
  Values,           \* values a store may write
  InitValue,        \* initial_value of every CreateSignal
  FiniteTimeout,    \* whether the waiters pass a finite timeout
  MaxStores         \* bound on stores and destroys, together

ASSUME CpuAgents \subseteq Agents /\ DeviceEvents \in Nat

\* attributes (SIGNAL_IPC, SIGNAL_GPU_ONLY) and the consumers array.
SignalArgs == [ipc : BOOLEAN, gpuOnly : BOOLEAN, consumers : Seq(Agents)]
ASSUME \A s \in Signals : CreateArgs[s] \subseteq SignalArgs
\* IPC signals (DefaultSignals entered in ipcMap_) are SignalLifetime's.
ASSUME \A s \in Signals : \A a \in CreateArgs[s] : ~a.ipc

Events == 1..DeviceEvents   \* device events, in the order CreateEvent makes them
NoEvent == 0                \* a null HsaEvent*

VARIABLES
  life,     \* life[s]: "unborn", "live" or "deleted"
  kind,     \* kind[s]: "default" or "interrupt", once created
  event,    \* event[s]: InterruptSignal::event_ (EopEvent())
  pool,     \* EventPool::events_, the free list (its back is the end)
  made,     \* events the device has created
  allEventsAllocated,  \* EventPool::allEventsAllocated
  value,    \* value[s]: co_signal_.value
  valid,    \* valid[s]: refcount_ != 0
  waiting,  \* waiting[s]: waiting_
  evSet,    \* evSet[e]: device event e is set
  notify,   \* signals stored to or destroyed, SetEvent still to run
  destroying, \* signals whose DestroySignal has still to Release
  stores,   \* stores and destroys made so far
  wpc,      \* wpc[w]: where waiter w is
  prior,    \* prior[w]: the largest waiting_ w saw while incrementing
  i,        \* i[w]: the array index w is incrementing or scanning
  active,   \* active[w]: wait_hint == ACTIVE
  evts      \* evts[w]: the events w may sleep on (evts[] after unique)

poolVars == <<life, kind, event, pool, made, allEventsAllocated>>
vars == <<life, kind, event, pool, made, allEventsAllocated, value, valid,
          waiting, evSet, notify, destroying, stores, wpc, prior, i, active, evts>>

Len_(w) == Len(Watch[w])

TypeOK ==
  /\ life \in [Signals -> {"unborn", "live", "deleted"}]
  /\ kind \in [Signals -> {"none", "default", "interrupt"}]
  /\ event \in [Signals -> Events \cup {NoEvent}]
  /\ pool \in Seq(Events) /\ made \in 0..DeviceEvents
  /\ allEventsAllocated \in BOOLEAN
  /\ value \in [Signals -> Values \cup {InitValue}]
  /\ valid \in [Signals -> BOOLEAN]
  /\ waiting \in [Signals -> 0..Cardinality(Waiters)]
  /\ evSet \in [Events -> BOOLEAN]
  /\ notify \subseteq Signals /\ destroying \subseteq Signals
  /\ wpc \in [Waiters -> {"start", "inc", "decide", "scan", "after", "sleep", "exit", "done"}]
  /\ \A w \in Waiters : i[w] \in 1..Len_(w) + 1
  /\ evts \in [Waiters -> SUBSET Events]

(* The condition switch of the scan (an unknown condition returns -1 and   *)
(* is not among the inputs).                                               *)
CondMet(c, v, x) ==
  CASE c = "EQ"  -> v = x
    [] c = "NE"  -> v # x
    [] c = "GTE" -> v >= x
    [] c = "LT"  -> v < x

(* EventPool(): an empty free list and the latch clear; no signal exists  *)
(* yet and no call has started.                                           *)
Init ==
  /\ life = [s \in Signals |-> "unborn"]
  /\ kind = [s \in Signals |-> "none"]
  /\ event = [s \in Signals |-> NoEvent]
  /\ pool = <<>> /\ made = 0 /\ allEventsAllocated = FALSE
  /\ value = [s \in Signals |-> InitValue]
  /\ valid = [s \in Signals |-> FALSE]
  /\ waiting = [s \in Signals |-> 0]
  /\ evSet = [e \in Events |-> FALSE]
  /\ notify = {} /\ destroying = {} /\ stores = 0
  /\ wpc = [w \in Waiters |-> "start"]
  /\ prior = [w \in Waiters |-> 0]
  /\ i = [w \in Waiters |-> 1]
  /\ active = [w \in Waiters |-> FALSE]
  /\ evts = [w \in Waiters |-> {}]

UpdateWpc(w, l) == wpc' = [wpc EXCEPT ![w] = l]
SetI(w, n) == i' = [i EXCEPT ![w] = n]

(* EopEvent(): event_ of an InterruptSignal; NULL for a DefaultSignal. *)
EopEvent(s) == IF kind[s] = "interrupt" THEN event[s] ELSE NoEvent

(* The calls that hold a Retain on s: from entry to the Release guard. *)
Holders(s) ==
  {w \in Waiters : wpc[w] \notin {"start", "done"} /\ s \in ToSet(Watch[w])}

(***************************************************************************)
(* StreamPool::CreateSignal and EventPool.                                 *)
(***************************************************************************)

(* use_default: IPC, GPU-only or no interrupt wait; otherwise, with a      *)
(* consumers array, no consumer is a CPU agent.                            *)
UseDefault(a) ==
  \/ a.ipc \/ a.gpuOnly \/ ~UseInterruptWait
  \/ Len(a.consumers) # 0 /\ ToSet(a.consumers) \cap CpuAgents = {}

(* The duplicate-consumer check returns ERROR_INVALID_ARGUMENT. *)
CreateRejected(a) ==
  /\ ~(a.ipc \/ a.gpuOnly \/ ~UseInterruptWait)
  /\ Len(a.consumers) # 0
  /\ Cardinality(ToSet(a.consumers)) # Len(a.consumers)

(* EventPool::CreateEvent(EVENTTYPE_SIGNAL, false): a new device event,   *)
(* or NULL once the device has made DeviceEvents events.                   *)
CreateEvent == IF made < DeviceEvents THEN made + 1 ELSE NoEvent

\* alloc handing out the back of the free list without popping it.
AllocNoPop ==
  CASE pool # <<>> ->
         [ev |-> Last(pool), pool |-> pool, made |-> made, latch |-> allEventsAllocated]
    [] ~allEventsAllocated ->
         [ev |-> CreateEvent, pool |-> pool, made |-> Max({made, CreateEvent}),
          latch |-> CreateEvent = NoEvent]
    [] OTHER ->
         [ev |-> NoEvent, pool |-> pool, made |-> made, latch |-> TRUE]

(* EventPool::alloc() under lock_: pop the back of events_; with the list *)
(* empty and the latch clear, CreateEvent, whose failure sets the latch;   *)
(* with the latch set, NULL.                                               *)
Alloc ==
  CASE pool # <<>> ->
         [ev |-> Last(pool), pool |-> Front(pool), made |-> made, latch |-> allEventsAllocated]
    [] ~allEventsAllocated ->
         [ev |-> CreateEvent, pool |-> pool, made |-> Max({made, CreateEvent}),
          latch |-> CreateEvent = NoEvent]
    [] OTHER ->
         [ev |-> NoEvent, pool |-> pool, made |-> made, latch |-> TRUE]

(* InterruptSignal(stream_pool, initial_value): no use_event is passed, so *)
(* event_ = alloc() and free_event_ = true.                                *)
NewInterruptSignal(s) ==
  LET r == Alloc IN
  /\ kind' = [kind EXCEPT ![s] = "interrupt"]
  /\ event' = [event EXCEPT ![s] = r.ev]
  /\ pool' = r.pool /\ made' = r.made /\ allEventsAllocated' = r.latch

(* EventPool::free(evt): a null event returns; else push_back under lock_. *)
FreeEvent(p, e) == IF e = NoEvent THEN p ELSE Append(p, e)

RECURSIVE FreeEvents(_, _)
(* ~InterruptSignal of each signal of seq, deleted in that order. *)
FreeEvents(p, seq) ==
  IF seq = <<>> THEN p ELSE FreeEvents(FreeEvent(p, EopEvent(Head(seq))), Tail(seq))

(* CreateSignal(InitValue, consumers, attributes): new DefaultSignal, or   *)
(* new InterruptSignal whose constructor calls alloc (refcount_ 1).        *)
CreateSignal(s) ==
  /\ life[s] = "unborn"
  /\ \A t \in CreatedAfter[s] : life[t] # "unborn"
  /\ \E a \in CreateArgs[s] :
       /\ ~CreateRejected(a)
       /\ IF UseDefault(a)
            THEN /\ kind' = [kind EXCEPT ![s] = "default"]
                 /\ UNCHANGED <<event, pool, made, allEventsAllocated>>
            ELSE NewInterruptSignal(s)
  /\ life' = [life EXCEPT ![s] = "live"]
  /\ valid' = [valid EXCEPT ![s] = TRUE]
  /\ UNCHANGED <<value, waiting, evSet, notify, destroying, stores, wpc, prior, i, active, evts>>

(***************************************************************************)
(* Fault variants used by the mutation runs.                               *)
(***************************************************************************)
\* prior is taken from the first signal only.
IncWaitingFirstOnly(w) ==
  /\ wpc[w] = "inc" /\ i[w] <= Len_(w)
  /\ LET s == Watch[w][i[w]] IN
       /\ waiting' = [waiting EXCEPT ![s] = @ + 1]
       /\ prior' = [prior EXCEPT ![w] = IF i[w] = 1 THEN waiting[s] ELSE @]
  /\ SetI(w, i[w] + 1)
  /\ UNCHANGED <<poolVars, value, valid, evSet, notify, destroying, stores, wpc, active, evts>>

\* The check that every signal has an event is left out (the null events
\* are dropped from evts).
DecideSleepAnyEvent(w) ==
  /\ wpc[w] = "decide"
  /\ active' = [active EXCEPT ![w] = prior[w] # 0]
  /\ evts' = [evts EXCEPT ![w] = IF prior[w] # 0 THEN {}
                ELSE {EopEvent(Watch[w][k]) : k \in 1..Len_(w)} \ {NoEvent}]
  /\ SetI(w, 1) /\ UpdateWpc(w, "scan")
  /\ UNCHANGED <<poolVars, value, valid, waiting, evSet, notify, destroying, stores, prior>>

\* DestroySignal's Release deletes the object even though calls retain it.
DestroyReleaseNoHolders(s) ==
  /\ s \in destroying /\ s \notin notify
  /\ destroying' = destroying \ {s}
  /\ life' = [life EXCEPT ![s] = "deleted"]
  /\ pool' = FreeEvent(pool, EopEvent(s))
  /\ UNCHANGED <<kind, event, made, allEventsAllocated, value, valid, waiting,
                 evSet, notify, stores, wpc, prior, i, active, evts>>

(***************************************************************************)
(* The waiter.                                                             *)
(***************************************************************************)

(* The caller passes handles it owns: every signal is valid on entry.     *)
(* Retain on every signal.                                                 *)
StartWait(w) ==
  /\ wpc[w] = "start"
  /\ \A k \in 1..Len_(w) : valid[Watch[w][k]]
  /\ UpdateWpc(w, "inc")
  /\ UNCHANGED <<poolVars, value, valid, waiting, evSet, notify, destroying, stores, prior, i, active, evts>>

(* prior = Max(prior, signals[i]->waiting_++), one signal at a time. *)
IncWaiting(w) ==
  /\ wpc[w] = "inc" /\ i[w] <= Len_(w)
  /\ LET s == Watch[w][i[w]] IN
       /\ waiting' = [waiting EXCEPT ![s] = @ + 1]
       /\ prior' = [prior EXCEPT ![w] = IF waiting[s] > @ THEN waiting[s] ELSE @]
  /\ SetI(w, i[w] + 1)
  /\ UNCHANGED <<poolVars, value, valid, evSet, notify, destroying, stores, wpc, active, evts>>

IncDone(w) ==
  /\ wpc[w] = "inc" /\ i[w] = Len_(w) + 1
  /\ UpdateWpc(w, "decide")
  /\ UNCHANGED <<poolVars, value, valid, waiting, evSet, notify, destroying, stores, prior, i, active, evts>>

(* Only the first waiter may sleep, and only if every signal has an event; *)
(* a sleeper collects the signals' events into evts[].                     *)
DecideSleep(w) ==
  /\ wpc[w] = "decide"
  /\ LET act == prior[w] # 0 \/ \E k \in 1..Len_(w) : EopEvent(Watch[w][k]) = NoEvent
     IN /\ active' = [active EXCEPT ![w] = act]
        /\ evts' = [evts EXCEPT ![w] =
                      IF act THEN {} ELSE {EopEvent(Watch[w][k]) : k \in 1..Len_(w)}]
  /\ SetI(w, 1) /\ UpdateWpc(w, "scan")
  /\ UNCHANGED <<poolVars, value, valid, waiting, evSet, notify, destroying, stores, prior>>

(* One turn of the scan on signals[i]: return (-1) if it is invalid,      *)
(* return (i) if its condition holds on a relaxed load, else go on.  The   *)
(* index returned is not kept: no property here is about it.  (The memory- *)
(* fault branch needs an EVENTTYPE_MEMORY event; EventPool only creates    *)
(* EVENTTYPE_SIGNAL events, so it is never taken.)                         *)
ScanSignal(w) ==
  /\ wpc[w] = "scan" /\ i[w] <= Len_(w)
  /\ LET s == Watch[w][i[w]] IN
       IF ~valid[s] \/ CondMet(Cond[w][i[w]], value[s], Cmp[w][i[w]])
       THEN UpdateWpc(w, "exit") /\ UNCHANGED i
       ELSE SetI(w, i[w] + 1) /\ UNCHANGED wpc
  /\ UNCHANGED <<poolVars, value, valid, waiting, evSet, notify, destroying, stores, prior, active, evts>>

ScanDone(w) ==
  /\ wpc[w] = "scan" /\ i[w] = Len_(w) + 1
  /\ UpdateWpc(w, "after")
  /\ UNCHANGED <<poolVars, value, valid, waiting, evSet, notify, destroying, stores, prior, i, active, evts>>

(* A finite timeout has run out: return -1. *)
Timeout(w) ==
  /\ FiniteTimeout /\ wpc[w] = "after"
  /\ UpdateWpc(w, "exit")
  /\ UNCHANGED <<poolVars, value, valid, waiting, evSet, notify, destroying, stores, prior, i, active, evts>>

(* ACTIVE, or still within kMaxElapsed: scan again. *)
Spin(w) ==
  /\ wpc[w] = "after"
  /\ SetI(w, 1) /\ UpdateWpc(w, "scan")
  /\ UNCHANGED <<poolVars, value, valid, waiting, evSet, notify, destroying, stores, prior, active, evts>>

(* WaitOnMultipleEvents(evts, unique_evts, false, wait_ms): return at once *)
(* consuming a set event, or block.                                        *)
WaitOnMultipleEvents(w) ==
  /\ wpc[w] = "after" /\ ~active[w]
  /\ IF \E e \in evts[w] : evSet[e]
     THEN \E e \in evts[w] :
            /\ evSet[e]
            /\ evSet' = [evSet EXCEPT ![e] = FALSE]
            /\ SetI(w, 1) /\ UpdateWpc(w, "scan")
     ELSE UpdateWpc(w, "sleep") /\ UNCHANGED <<evSet, i>>
  /\ UNCHANGED <<poolVars, value, valid, waiting, notify, destroying, stores, prior, active, evts>>

(* A blocked waiter is released by one of its events and consumes it. *)
WakeOnEvent(w) ==
  /\ wpc[w] = "sleep"
  /\ \E e \in evts[w] :
       /\ evSet[e]
       /\ evSet' = [evSet EXCEPT ![e] = FALSE]
  /\ SetI(w, 1) /\ UpdateWpc(w, "scan")
  /\ UNCHANGED <<poolVars, value, valid, waiting, notify, destroying, stores, prior, active, evts>>

(* wait_ms (at most 0xFFFFFFFE) runs out. *)
EventTimeout(w) ==
  /\ wpc[w] = "sleep"
  /\ SetI(w, 1) /\ UpdateWpc(w, "scan")
  /\ UNCHANGED <<poolVars, value, valid, waiting, evSet, notify, destroying, stores, prior, active, evts>>

(* The signals whose last Release is w's: destroyed, DestroySignal's own   *)
(* Release done, and no other call retaining them; in array order.         *)
LastReleases(w) ==
  SelectSeq(Watch[w], LAMBDA s : ~valid[s] /\ s \notin destroying /\ Holders(s) = {w})

(* The scope guards: waiting_-- on every signal, then Release on every     *)
(* signal, which deletes those it releases last (~InterruptSignal frees    *)
(* their events in that order).                                            *)
ExitWait(w) ==
  /\ wpc[w] = "exit"
  /\ waiting' = [s \in Signals |->
                  waiting[s] - Cardinality({k \in 1..Len_(w) : Watch[w][k] = s})]
  /\ life' = [s \in Signals |-> IF s \in ToSet(LastReleases(w)) THEN "deleted" ELSE life[s]]
  /\ pool' = FreeEvents(pool, LastReleases(w))
  /\ UpdateWpc(w, "done")
  \* the call's locals are gone
  /\ evts' = [evts EXCEPT ![w] = {}] /\ prior' = [prior EXCEPT ![w] = 0]
  /\ SetI(w, 1) /\ active' = [active EXCEPT ![w] = FALSE]
  /\ UNCHANGED <<kind, event, made, allEventsAllocated, value, valid, evSet,
                 notify, destroying, stores>>

(***************************************************************************)
(* Other threads.                                                          *)
(***************************************************************************)

(* StoreRelaxed on a valid signal; an InterruptSignal's SetEvent follows. *)
Store(s) ==
  /\ stores < MaxStores /\ valid[s] /\ s \notin notify
  /\ \E v \in Values : value' = [value EXCEPT ![s] = v]
  /\ notify' = IF kind[s] = "interrupt" THEN notify \cup {s} ELSE notify
  /\ stores' = stores + 1
  /\ UNCHANGED <<poolVars, valid, waiting, evSet, destroying, wpc, prior, i, active, evts>>

(* DestroySignal on the last handle: refcount_ reaches 0 and CasRelaxed(0, *)
(* 0) runs SetEvent so that retained sleepers wake; Release() follows.     *)
DestroySignal(s) ==
  /\ stores < MaxStores /\ valid[s] /\ s \notin notify
  /\ valid' = [valid EXCEPT ![s] = FALSE]
  /\ notify' = IF kind[s] = "interrupt" THEN notify \cup {s} ELSE notify
  /\ destroying' = destroying \cup {s}
  /\ stores' = stores + 1
  /\ UNCHANGED <<poolVars, value, waiting, evSet, wpc, prior, i, active, evts>>

(* SetEvent: if (InWaiting()) SetEvent(event_).  A null event_ (the pool  *)
(* was exhausted) sets nothing.                                            *)
SetEvent(s) ==
  /\ s \in notify
  /\ notify' = notify \ {s}
  /\ evSet' = IF waiting[s] > 0 /\ EopEvent(s) # NoEvent
                THEN [evSet EXCEPT ![EopEvent(s)] = TRUE] ELSE evSet
  /\ UNCHANGED <<poolVars, value, valid, waiting, destroying, stores, wpc, prior, i, active, evts>>

(* DestroySignal's Release(): the last one deletes the object, and         *)
(* ~InterruptSignal gives its event back (EventPool::free).                *)
DestroyRelease(s) ==
  /\ s \in destroying /\ s \notin notify
  /\ destroying' = destroying \ {s}
  /\ IF Holders(s) = {}
       THEN life' = [life EXCEPT ![s] = "deleted"] /\ pool' = FreeEvent(pool, EopEvent(s))
       ELSE UNCHANGED <<life, pool>>
  /\ UNCHANGED <<kind, event, made, allEventsAllocated, value, valid, waiting,
                 evSet, notify, stores, wpc, prior, i, active, evts>>

Next ==
  \/ \E w \in Waiters :
       \/ StartWait(w) \/ IncWaiting(w) \/ IncDone(w) \/ DecideSleep(w)
       \/ ScanSignal(w) \/ ScanDone(w) \/ Timeout(w) \/ Spin(w)
       \/ WaitOnMultipleEvents(w) \/ WakeOnEvent(w) \/ EventTimeout(w) \/ ExitWait(w)
  \/ \E s \in Signals :
       \/ CreateSignal(s) \/ Store(s) \/ DestroySignal(s) \/ SetEvent(s)
       \/ DestroyRelease(s)

(* The steps of a call that run without a timeout.  Each is enabled only  *)
(* at its own program counter (Spin and WaitOnMultipleEvents at "after"    *)
(* only for an ACTIVE and a sleeping call), so weak fairness of the whole  *)
(* is weak fairness of each.                                               *)
CallProgress(w) ==
  \/ IncWaiting(w) \/ IncDone(w) \/ DecideSleep(w) \/ ScanSignal(w) \/ ScanDone(w)
  \/ WaitOnMultipleEvents(w) \/ WakeOnEvent(w) \/ (active[w] /\ Spin(w)) \/ ExitWait(w)

(* Every thread keeps running its call; a waiter after a scan goes on to   *)
(* sleep unless it is ACTIVE (the spin window is finite).  Timeouts, and   *)
(* the start of a call or of a creation, are not assumed to happen.        *)
Fairness ==
  /\ \A w \in Waiters : WF_vars(CallProgress(w))
  /\ \A s \in Signals : WF_vars(SetEvent(s))

Spec == Init /\ [][Next]_vars /\ Fairness

(***************************************************************************)
(* Properties.                                                             *)
(***************************************************************************)

(* Some signal w watches meets w's condition on it, or has been destroyed. *)
Releasable(w) ==
  \E k \in 1..Len_(w) :
    ~valid[Watch[w][k]] \/ CondMet(Cond[w][k], value[Watch[w][k]], Cmp[w][k])

(* No two waiters are blocked on the same auto-reset event: the event of a *)
(* signal is never shared by two sleeping WaitAnySignal calls, so a single *)
(* SetEvent cannot be taken by the wrong one.                              *)
OneSleeperPerEvent ==
  \A e \in Events :
    Cardinality({w \in Waiters : wpc[w] = "sleep" /\ e \in evts[w]}) <= 1

(* A waiter blocked in WaitOnMultipleEvents while one of its signals meets *)
(* its condition, or is destroyed, does not stay blocked: a SetEvent on    *)
(* one of its events wakes it.  This covers signals created as             *)
(* DefaultSignals and InterruptSignals that got no event from the pool.    *)
NoLostWakeup ==
  \A w \in Waiters :
    (wpc[w] = "sleep" /\ Releasable(w)) ~> (wpc[w] # "sleep" \/ ~Releasable(w))

(* EventPool hands each device event to one signal at a time: every event  *)
(* the device has made is either once in the free list or the event of    *)
(* exactly one InterruptSignal not yet deleted, through alloc, free,      *)
(* CreateSignal and the last Release of DestroySignal or WaitAnySignal.   *)
EventOwnedOnce ==
  /\ ToSet(pool) \subseteq 1..made
  /\ \A e \in 1..made :
       Cardinality({k \in DOMAIN pool : pool[k] = e})
         + Cardinality({s \in Signals : life[s] = "live" /\ EopEvent(s) = e}) = 1

(* The Retain of WaitAnySignal keeps every event a call may sleep on the  *)
(* event of a signal in its array that has not been deleted: a destroy    *)
(* during the call cannot free the event and let a new signal take it     *)
(* while the call may still block on it.                                  *)
SleepEventsOwned ==
  \A w \in Waiters : \A e \in evts[w] :
    \E k \in 1..Len_(w) : life[Watch[w][k]] = "live" /\ EopEvent(Watch[w][k]) = e

=============================================================================
