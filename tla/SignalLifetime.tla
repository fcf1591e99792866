--------------------------- MODULE SignalLifetime ---------------------------
(***************************************************************************)
(* Lifetime of one signal object (core::ISignal) shared by several host    *)
(* threads.  The object keeps two counters:                                *)
(*   refcount_  -- number of live handles (DestroySignal drops one),       *)
(*   retained_  -- handles plus in-flight operations (Retain/Release),     *)
(* and is deleted by the Release that brings retained_ to zero.  An IPC    *)
(* signal is also entered in StreamPool's ipcMap_, and its last Release    *)
(* must first deregister it under ipcLock_; a concurrent duplicateIpc can  *)
(* revive it from the map.                                                 *)
(*                                                                         *)
(* Each counter update is one atomic instruction and each ipcLock_         *)
(* critical section is one step; between them other threads interleave.   *)
(* handles[t] is a history variable: the handles thread t owns.  A wait    *)
(* borrows a handle that is valid when the call is made (the caller's      *)
(* contract); the owner may destroy it while the wait is in flight, which  *)
(* is exactly what Retain() in WaitRelaxed guards against.                 *)
(*                                                                         *)
(* Whether the signal is created with SIGNAL_IPC is chosen in Init from    *)
(* IPCModes; the threads that use an IPC signal are IPCThreads.            *)
(***************************************************************************)
EXTENDS Naturals, FiniteSets, Bitwise

CONSTANTS
  Threads,     \* host threads using the signal
  Creator,     \* the thread that created it (owns the first handle)
  IPCModes,    \* the values of the SIGNAL_IPC attribute the model creates
  IPCThreads,  \* the threads that use an IPC signal
  Values,      \* signal values the model stores and compares against
  MaxHandles   \* bound: handles one thread may own at a time

ASSUME Creator \in Threads
ASSUME IPCModes \subseteq BOOLEAN /\ IPCThreads \subseteq Threads
ASSUME Creator \in IPCThreads
ASSUME MaxHandles \in Nat \ {0}

Conditions == {"EQ", "NE", "GTE", "LT"}

VARIABLES
  refcount,   \* ISignal::refcount_
  retained,   \* ISignal::retained_
  waiting,    \* ISignal::waiting_
  value,      \* co_signal_.value
  freed,      \* the object (and its SharedSignal page) has been deleted
  ipc,        \* the signal was created with SIGNAL_IPC
  ipcMap,     \* StreamPool::ipcMap_ holds this signal's handle
  handles,    \* handles[t]: handles owned by thread t (history)
  pc,         \* program counter of each thread
  wait        \* arguments of the wait each thread is in

vars == <<refcount, retained, waiting, value, freed, ipc, ipcMap, handles, pc, wait>>

Idle == "idle"

\* Program counters at which the next step dereferences the signal object.
TouchingPCs == {"release", "dereg", "delete", "w_enter", "w_poll", "w_exit",
                "dup_retain", "dup_read"}

WaitArgs == [cond : Conditions, cmp : Values, infinite : BOOLEAN]

\* The arguments of a thread that is not waiting (locals are gone).
NoWait == [cond |-> "EQ", cmp |-> CHOOSE v \in Values : TRUE, infinite |-> FALSE]

TypeOK ==
  /\ refcount \in Nat /\ retained \in Nat /\ waiting \in Nat
  /\ value \in Values
  /\ freed \in BOOLEAN /\ ipc \in BOOLEAN /\ ipcMap \in BOOLEAN
  /\ handles \in [Threads -> 0..MaxHandles]
  /\ pc \in [Threads -> {Idle, "dup_ipc"} \cup TouchingPCs]
  /\ wait \in [Threads -> WaitArgs]

(* The switch on signal_condition_t in every wait loop. *)
CondMet(v, cond, cmp) ==
  CASE cond = "EQ"  -> v = cmp
    [] cond = "NE"  -> v # cmp
    [] cond = "GTE" -> v >= cmp
    [] cond = "LT"  -> v < cmp

(* ISignal constructor: refcount_ = retained_ = 1, waiting_ = 0; an IPC    *)
(* signal registers its handle (RegisterIpc).                              *)
Init ==
  /\ refcount = 1
  /\ retained = 1
  /\ waiting = 0
  /\ value \in Values
  /\ freed = FALSE
  /\ ipc \in IPCModes
  /\ ipcMap = ipc
  /\ handles = [t \in Threads |-> IF t = Creator THEN 1 ELSE 0]
  /\ pc = [t \in Threads |-> Idle]
  /\ wait = [t \in Threads |-> NoWait]

Goto(t, l) == pc' = [pc EXCEPT ![t] = l]

(***************************************************************************)
(* Fault variants used by the mutation runs.                               *)
(***************************************************************************)
\* Release that reads the counter before the decrement (post-decrement).
ReleaseStale(t) ==
  /\ pc[t] = "release"
  /\ retained' = retained - 1
  /\ Goto(t, IF retained # 0 THEN Idle ELSE IF ipc THEN "dereg" ELSE "delete")
  /\ UNCHANGED <<refcount, waiting, value, freed, ipcMap, handles, wait>>

\* WaitRelaxed without the Retain() at its top.
WaitRelaxedNoRetain(t) ==
  /\ pc[t] = Idle
  /\ \E u \in Threads : handles[u] > 0
  /\ \E w \in WaitArgs : wait' = [wait EXCEPT ![t] = w]
  /\ Goto(t, "w_enter")
  /\ UNCHANGED <<refcount, retained, waiting, value, freed, ipcMap, handles>>

\* DestroySignal that drops the handle but never calls Release().
DestroySignalNoRelease(t) ==
  /\ pc[t] = Idle
  /\ handles[t] > 0
  /\ refcount' = refcount - 1
  /\ handles' = [handles EXCEPT ![t] = @ - 1]
  /\ UNCHANGED <<retained, waiting, value, freed, ipcMap, pc, wait>>

\* Wait loop without the IsValid() check.
WaitPollNoValidCheck(t) ==
  /\ pc[t] = "w_poll"
  /\ \/ CondMet(value, wait[t].cond, wait[t].cmp)
     \/ ~wait[t].infinite
  /\ Goto(t, "w_exit")
  /\ UNCHANGED <<refcount, retained, waiting, value, freed, ipcMap, handles, wait>>

\* ~ISignal dropping an IPC signal's handle count without the == 1 test.
DoDestroySignalNoCountCheck(t) ==
  /\ pc[t] = "delete"
  /\ freed' = TRUE
  /\ IF ipc
       THEN refcount' = refcount - 1 /\ ipcMap' = FALSE
       ELSE UNCHANGED <<refcount, ipcMap>>
  /\ Goto(t, Idle)
  /\ UNCHANGED <<retained, waiting, value, handles, wait>>

(***************************************************************************)
(* Operations.                                                             *)
(***************************************************************************)

(* DestroySignal(): --refcount_; at zero CasRelaxed(0, 0) wakes retained    *)
(* sleepers (no change to the value); then Release().                      *)
DestroySignal(t) ==
  /\ pc[t] = Idle
  /\ handles[t] > 0
  /\ refcount' = refcount - 1
  /\ handles' = [handles EXCEPT ![t] = @ - 1]
  /\ Goto(t, "release")
  /\ UNCHANGED <<retained, waiting, value, freed, ipcMap, wait>>

(* Release(): if (--retained_ != 0) return; a non-IPC signal is destroyed; *)
(* an IPC signal only if deregisterIpc() succeeds.                         *)
Release(t) ==
  /\ pc[t] = "release"
  /\ retained' = retained - 1
  /\ Goto(t, IF retained - 1 # 0 THEN Idle ELSE IF ipc THEN "dereg" ELSE "delete")
  /\ UNCHANGED <<refcount, waiting, value, freed, ipcMap, handles, wait>>

(* StreamPool::DeRegisterIpc, under ipcLock_: fails while refcount_ != 0,  *)
(* else erases the map entry and reports success.                          *)
DeRegisterIpc(t) ==
  /\ pc[t] = "dereg"
  /\ IF refcount # 0
       THEN Goto(t, Idle) /\ UNCHANGED ipcMap
       ELSE Goto(t, "delete") /\ ipcMap' = FALSE
  /\ UNCHANGED <<refcount, retained, waiting, value, freed, handles, wait>>

(* doDestroySignal(): delete this.  ~ISignal deregisters an IPC signal     *)
(* still holding one handle; the LocalSignal page is freed.                *)
DoDestroySignal(t) ==
  /\ pc[t] = "delete"
  /\ freed' = TRUE
  /\ IF refcount = 1 /\ ipc
       THEN refcount' = 0 /\ ipcMap' = FALSE
       ELSE UNCHANGED <<refcount, ipcMap>>
  /\ Goto(t, Idle)
  /\ UNCHANGED <<retained, waiting, value, handles, wait>>

(* BusyWaitSignal::WaitRelaxed entry: Retain() on a handle valid at the    *)
(* call; the arguments come from the caller.                               *)
WaitRelaxed(t) ==
  /\ pc[t] = Idle
  /\ \E u \in Threads : handles[u] > 0
  /\ \E w \in WaitArgs : wait' = [wait EXCEPT ![t] = w]
  /\ retained' = retained + 1
  /\ Goto(t, "w_enter")
  /\ UNCHANGED <<refcount, waiting, value, freed, ipcMap, handles>>

(* waiting_++ *)
WaitEnter(t) ==
  /\ pc[t] = "w_enter"
  /\ waiting' = waiting + 1
  /\ Goto(t, "w_poll")
  /\ UNCHANGED <<refcount, retained, value, freed, ipcMap, handles, wait>>

(* One turn of the polling loop that returns: the handle became invalid,   *)
(* the condition holds on the loaded value, or the timeout elapsed (time   *)
(* is abstracted: a finite wait may time out on any turn).  A turn that    *)
(* does none of these spins or sleeps and changes nothing.                 *)
WaitPoll(t) ==
  /\ pc[t] = "w_poll"
  /\ \/ refcount = 0
     \/ CondMet(value, wait[t].cond, wait[t].cmp)
     \/ ~wait[t].infinite
  /\ Goto(t, "w_exit")
  /\ UNCHANGED <<refcount, retained, waiting, value, freed, ipcMap, handles, wait>>

(* Scope guards on return: waiting_-- and then Release(). *)
WaitExit(t) ==
  /\ pc[t] = "w_exit"
  /\ waiting' = waiting - 1
  /\ wait' = [wait EXCEPT ![t] = NoWait]
  /\ Goto(t, "release")
  /\ UNCHANGED <<refcount, retained, value, freed, ipcMap, handles>>

(* StreamPool::DuplicateSignalHandle of a non-IPC signal by a handle       *)
(* owner: core_signal->refcount_++ ...                                     *)
DuplicateSignalHandle(t) ==
  /\ ~ipc
  /\ pc[t] = Idle
  /\ 0 < handles[t] /\ handles[t] < MaxHandles
  /\ refcount' = refcount + 1
  /\ Goto(t, "dup_retain")
  /\ UNCHANGED <<retained, waiting, value, freed, ipcMap, handles, wait>>

(* ... then core_signal->Retain(); the caller owns the new handle. *)
DupRetain(t) ==
  /\ pc[t] = "dup_retain"
  /\ retained' = retained + 1
  /\ handles' = [handles EXCEPT ![t] = @ + 1]
  /\ Goto(t, Idle)
  /\ UNCHANGED <<refcount, waiting, value, freed, ipcMap, wait>>

(* DuplicateSignalHandle of an IPC handle by any thread, with a handle     *)
(* that is live when the call is made.                                     *)
DuplicateIpcHandle(t) ==
  /\ ipc
  /\ pc[t] = Idle
  /\ ~freed
  /\ handles[t] < MaxHandles
  /\ Goto(t, "dup_read")
  /\ UNCHANGED <<refcount, retained, waiting, value, freed, ipcMap, handles, wait>>

(* SharedSignal::Object(signal)->IsIPC(): the shared block is read before  *)
(* ipcLock_ is taken; then duplicateIpc runs.                              *)
ReadSharedSignal(t) ==
  /\ pc[t] = "dup_read"
  /\ Goto(t, "dup_ipc")
  /\ UNCHANGED <<refcount, retained, waiting, value, freed, ipcMap, handles, wait>>

(* StreamPool::duplicateIpc, under ipcLock_: if the handle is in the map,  *)
(* refcount_++ and Retain(); otherwise nullptr.                            *)
DuplicateIpc(t) ==
  /\ pc[t] = "dup_ipc"
  /\ IF ipcMap
       THEN /\ refcount' = refcount + 1
            /\ retained' = retained + 1
            /\ handles' = [handles EXCEPT ![t] = @ + 1]
       ELSE UNCHANGED <<refcount, retained, handles>>
  /\ Goto(t, Idle)
  /\ UNCHANGED <<waiting, value, freed, ipcMap, wait>>

(* BusyWaitSignal::StoreRelaxed / StoreRelease by a handle owner. *)
StoreRelaxed(t) ==
  /\ pc[t] = Idle
  /\ handles[t] > 0
  /\ \E v \in Values : value' = v
  /\ UNCHANGED <<refcount, retained, waiting, freed, ipcMap, handles, pc, wait>>

(* The value each arithmetic read-modify-write leaves (atomic_::And, Or,  *)
(* Xor, Add, Sub on co_signal_.value).                                     *)
ArithResult(op, v, x) ==
  CASE op = "And" -> v & x
    [] op = "Or"  -> v | x
    [] op = "Xor" -> v ^^ x
    [] op = "Add" -> v + x
    [] op = "Sub" -> v - x

(* BusyWaitSignal's read-modify-write calls by a handle owner (And, Or,    *)
(* Xor, Add, Sub, Exch, Cas in every memory order): one atomic update of   *)
(* the value.  Results outside Values are not taken.                       *)
Rmw(t) ==
  /\ pc[t] = Idle
  /\ handles[t] > 0
  /\ \E x \in Values :
       \/ \E op \in {"And", "Or", "Xor", "Add", "Sub"} : value' = ArithResult(op, value, x)
       \/ value' = x
       \/ \E e \in Values : value' = IF value = e THEN x ELSE value
  /\ value' \in Values
  /\ UNCHANGED <<refcount, retained, waiting, freed, ipcMap, handles, pc, wait>>

(* Steps a thread takes once it has entered a call. *)
Continue(t) ==
  \/ Release(t) \/ DeRegisterIpc(t) \/ DoDestroySignal(t)
  \/ WaitEnter(t) \/ WaitPoll(t) \/ WaitExit(t)
  \/ DupRetain(t) \/ ReadSharedSignal(t) \/ DuplicateIpc(t)

(* Calls a thread may start. *)
Call(t) ==
  \/ DestroySignal(t) \/ WaitRelaxed(t) \/ StoreRelaxed(t) \/ Rmw(t)
  \/ DuplicateSignalHandle(t) \/ DuplicateIpcHandle(t)

(* The threads that use the signal. *)
Users == IF ipc THEN IPCThreads ELSE Threads

Next == \E t \in Users : (Call(t) \/ Continue(t)) /\ UNCHANGED ipc

(* A thread inside a call keeps running: the OS scheduler is fair to it. *)
Fairness == \A t \in Threads : WF_vars(Continue(t) /\ UNCHANGED ipc)

Spec == Init /\ [][Next]_vars /\ Fairness

(***************************************************************************)
(* Properties.                                                             *)
(***************************************************************************)

(* No use after free: once the object is deleted, no thread is about to    *)
(* dereference it (Release, deregisterIpc, delete, a wait, a Retain).      *)
(* This is the dual-refcount rule of ISignal: delete only after both the   *)
(* handles and the in-flight operations are gone.                          *)
NoUseAfterFree ==
  freed => \A t \in Threads : pc[t] \notin TouchingPCs

(* No use after free for a signal created without SIGNAL_IPC, whose        *)
(* handles are only duplicated by their owners.                            *)
NoUseAfterFreeLocal == ~ipc => NoUseAfterFree

(* No leak: when every handle has been destroyed and every call has        *)
(* returned, the signal has been deleted.                                  *)
NoLeak ==
  (\A t \in Threads : pc[t] = Idle /\ handles[t] = 0) => freed

(* A waiter returns once the last handle is destroyed: DestroySignal       *)
(* while another thread waits (even with an infinite timeout) does not     *)
(* leave that thread hanging.  For an IPC signal a handle count of zero is *)
(* not final: duplicateIpc may raise it again while the waiter's Retain    *)
(* keeps the signal registered, and the waiter then waits on.              *)
WaiterReturnsOnDestroy ==
  \A t \in Threads : (~ipc /\ pc[t] = "w_poll" /\ refcount = 0) ~> (pc[t] = Idle)

=============================================================================
