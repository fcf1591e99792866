# TLA+ models of the costream runtime

This directory holds TLA+ specifications of the concurrent core of costream.
costream is a GPU-style stream runtime with signals, user-mode AQL queues and
doorbells, an event pool and a simulated packet processor. The files are:

- the modules (`*.tla`);
- the TLC configurations that check them (`*.cfg`);
- `PROJECT.json`, which lists the components, the runs, the mutants, the map from
  each definition to the source lines it models, the findings and the hazards.

Run a check from this directory with
`tlc -workers 2 -config <cfg> <MC module>`.

## 1. Inventory of the system

| Part | Source | State | Operations | Interacts with |
|---|---|---|---|---|
| ISignal (base) | `include/core/ISignal.h`, `src/core/ISignal.cpp` | `refcount_` (handles), `retained_` (handles + in-flight calls), `waiting_`, the shared `co_signal_` block | ctor, `DestroySignal`, `Retain`, `Release`, `~ISignal`, `IsValid` | StreamPool IPC registry, every wait |
| BusyWaitSignal (DefaultSignal) | `src/core/DefaultSignal.cpp` | `co_signal_.value` | Load/Store, RMW ops (Add, And, Or, Xor, Exchange, Cas), `WaitRelaxed` poll loop | Runtime timeouts and sleeps |
| InterruptSignal | `src/core/InterruptSignal.cpp` | value, `event_` | Store → `SetEvent` if `InWaiting()`, `WaitRelaxed` with spin, then `WaitOnEvent` (first waiter only) | EventPool / device events |
| StreamPool IPC registry | `src/core/Stream.cpp` 325-376 | `ipcMap_`, `ipcLock_` | `RegisterIpc`, `DeRegisterIpc`, `lookupIpc`, `duplicateIpc`, `DuplicateSignalHandle` | ISignal lifetime |
| StreamPool queues and signals | `src/core/Stream.cpp` | `queue_pool_` (queue → ref_count) | `AcquireQueue`, `ReleaseQueue`, `CreateQueue`, `CreateSignal` policy, `WaitAnySignal` | HardQueue, signals |
| HardQueue | `include/HardQueue.h`, `src/core/HardQueue.cpp` | ring of AQL packets, `write_dispatch_id`, `read_dispatch_id`, `max_legacy_doorbell_dispatch_id_plus_1`, `legacy_doorbell_lock`, MMIO doorbell | index loads/stores/CAS/add, doorbell `StoreRelaxed` | producers (clients), the packet processor |
| SoftQueue | `src/core/SoftQueue.cpp`, `include/SoftQueue.h` | same index fields | index ops, doorbell as signal | clients |
| Pipe (packet processor) | `src/scheduler/Pipe.cpp` | per-queue cached read/write ids | `Execute`: drain packets, reset headers, store read pointer | HardQueue ring |
| EventPool | `src/core/EventPool.cpp` | free event list, async handler lists, wake signal | `alloc`/`free`, `SetAsyncSignalHandler`, `AsyncEventsLoop`, `Shutdown` | signals, WaitAnySignal |
| Runtime | `src/core/Runtime.cpp` | clock | `GetTimeout`, `GetTimeNow`, `Sleep` | every wait |
| Processor | `src/processor/Processor.cpp` | up queue (a HardQueue), `runnableQueue_`, `waitQueue_`, `runningTask_`, `nextTask_`, `notified_`, `waiting_`, `cv_` | `AddTask`, `Process`, `AddNewTasks`, `WaitCondition`, `NotifyCondition`, `Suspend*`, `Wakeup*` | the scheduler (Pipe) thread, timers and waking threads |
| StreamProcessor | `src/scheduler` | simulated registers, pipe threads, `scratch_pool_` | pipe start/stop, `CreateQueue`/`ReleaseQueue` (scratch memory) | queues, SmallHeap |
| SmallHeap | `include/util/small_heap.cpp` | `std::map` of nodes with guard nodes, doubly linked free list, `total_free`, `high` | `alloc`, `alloc_high`, `free` (with `insertafter`, `remove`, `merge`) | StreamProcessor |

The hard behaviours, which a unit test rarely reaches, are these:

- Threads interleave between the two counters of a signal.
- The IPC registry can revive a signal whose last `Release` has already run.
- A waiter may be left behind when the last handle is destroyed.
- Producers race on the legacy doorbell and reserve more than a queue ahead.
- The consumer meets reserved but unwritten packets.
- A wakeup can be lost between a relaxed store and `InWaiting`.
- The async handler loop has its own races.
- The Processor's sleep can miss the scheduler's unlocked notification, and a
  late Wakeup can race a task that already moved on.
- The scratch allocator's free list must survive any sequence of allocations
  and frees.

`PROJECT.json` "hazards" lists each of these at its source line.

## 2. Plan

Modules are built in order of importance. Status as of this revision:

1. **SignalLifetime** (done). It covers the signal object's lifetime across
   handles, waits, duplication and the IPC registry.
2. **LegacyDoorbell** (done). It covers HardQueue submission with the legacy
   doorbell, with Pipe::Execute as the consumer.
3. **InterruptWait** (done). It covers the InterruptSignal store/SetEvent
   handshake against the waiter, with store buffering as a constant, and the
   first-waiter-only sleep.
4. **CompletionSignal** (done). It covers Pipe's non-atomic barrier
   decrement racing the host's atomic `SubRelaxed`.
5. **QueuePool** (done). It covers AcquireQueue/ReleaseQueue on the unlocked
   `queue_pool_`.
6. **WaitAny** (done). It covers `StreamPool::WaitAnySignal`, the signals'
   creation by `CreateSignal` and their events from EventPool's `alloc`/`free`.
7. **AsyncEvents** (done). It covers SetAsyncSignalHandler, the
   AsyncEventsLoop and Shutdown.
8. **Processor** (done, partly). It covers the coroutine scheduler's loop,
   AddTask, the sleep/notify handshake, self-suspension and Wakeup.
9. **AqlQueue** (done). It is an abstract queue specification, and
   LegacyDoorbell is shown to implement it.
10. **SmallHeap** (done). It covers the scratch allocator behind
   StreamProcessor::CreateQueue/ReleaseQueue, and is shown to implement the
   abstract first-fit allocator `Allocator`.
11. **Next.** These remain to be built:
   - SoftQueue and HardQueue index operations, `Inactivate` and destruction;
   - the hardware-doorbell path;
   - the Processor's work stealing and its `AddTask(SList)` batch form.

## 3. Modules

### SignalLifetime

This module models one signal shared by the threads in `Threads`. Its
variables are:

- `ipc`, fixed in the initial state: whether the signal was created with
  `SIGNAL_IPC` (the constant `IPCModes` lists the choices);
- `refcount`, `retained`, `waiting` and `value`, the object's fields;
- `freed`, which says the object is deleted;
- `ipcMap`, which says the handle is in `StreamPool::ipcMap_`;
- `pc` and `wait`, each thread's position and arguments;
- `handles`, a history variable counting the handles each thread owns.

Each atomic counter update is one step, and so is each `ipcLock_` critical
section. The actions are:

- `DestroySignal`, which does `--refcount_` and then goes to the Release step.
- `Release`, which does `--retained_` and picks the branch.
- `DeRegisterIpc`.
- `DoDestroySignal`, which is `delete this` and the `~ISignal` IPC branch.
- The wait, in four steps:
  - `WaitRelaxed`, which is `Retain()`;
  - `WaitEnter`, which is `waiting_++`;
  - `WaitPoll`, one loop turn that returns;
  - `WaitExit`, the scope guards `waiting_--` then Release.
- `DuplicateSignalHandle` and `DupRetain`, for non-IPC duplication. These are
  two separate atomics.
- `DuplicateIpcHandle`, `ReadSharedSignal` and `DuplicateIpc`, for the IPC
  path. `ReadSharedSignal` is the read of `SharedSignal::Object(signal)` and
  `IsIPC()` (Stream.cpp:365-367), which happens before `ipcLock_` is taken.
  Any thread in `IPCThreads` may duplicate while the signal still exists,
  because the handle value is known to every process that shares it.
- `StoreRelaxed`.
- `Rmw`, which is the read-modify-write calls (`And`, `Or`, `Xor`, `Add`,
  `Sub`, `Exch`, `Cas` in every memory order). Each is a single atomic update
  of the value; `ArithResult` gives the result of the arithmetic ones.

With IPC, only the two threads in `IPCThreads` act. This keeps the run that
covers both modes within a few minutes.

Time is abstracted. A finite wait may time out on any turn, and an infinite
one returns only on its condition or on invalidity. This covers every outcome
of `GetTimeout`'s division by a zero frequency. Loop turns that do not return
are stutters.

A wait uses a handle that is valid when the call is made (the caller's
contract). A duplication or destroy uses a handle the thread owns.

Fairness is weak fairness on every step of a call already entered. The OS runs
a runnable thread eventually. Starting new calls is not forced.

### LegacyDoorbell

This module models the HardQueue ring for `Size` packets with the small-model
legacy doorbell (`LARGE_MODEL` is not defined anywhere in the build). Its
variables are:

- `write`, `read`, `maxLegacy`, `mmio`, `lock` and `slots`, the ring and
  `co_queue_`;
- the per-producer `pc`, `idx` and `legacy`;
- the consumer's `cpc`, `cread` and `cwptr`;
- `rung`, a history variable: the packets whose doorbell call returned.

The producers follow the AQL protocol, which is client code and not part of
this repository: `AddWriteIndex`, `WaitForSlot`, `WritePacket`, then the
doorbell. The doorbell `HardQueue::StoreRelaxed` is split at its shared
accesses:

- `AcquireDoorbellLock`, the CAS loop;
- `LoadWriteIndex`;
- `ClampToQueue`;
- `CompareLastDoorbell`;
- `PublishDoorbell`, which stores max_legacy and the MMIO register;
- `ReleaseDoorbellLock`.

The consumer is Pipe::Execute. `StreamProcessor::Execute` starts it once per
pipe on its own thread and never again, because `SetActive(true)` is never
undone (`StreamProcessor.cpp` 159-163). Execute makes one pass over the ring
and returns. It has four actions:

- `LoadWritePtr` reads the hardware write pointer. For a legacy doorbell that
  is `max_legacy_doorbell_dispatch_id_plus_1` (HardQueue.cpp:77).
- `ConsumePacket` is one loop turn.
- `EndOfPass` is the end of the loop or the break on an INVALID header.
- `StoreReadPtr` stores the read pointer; Execute then returns (`c_done`).

One pass consumes at most `Size` packets, because the write pointer it loads
is at most a queue past the read index. Packets announced after the pass are
never consumed (see Findings), so the module states no liveness of the
consumer. Once the pass is over, producers spin on a full ring or have
nothing left to reserve. The run therefore turns the deadlock check off.

#### Refinement of AqlQueue

`AqlQueue` is what a user-mode AQL queue promises, with no doorbell detail:

- `Reserve` hands out the next id;
- `Write(i)` writes a reserved packet whose slot lies within one queue of
  the processed count;
- `Ring(n)` moves the announced write pointer forward, never past what is
  reserved nor more than a queue ahead of what is processed;
- `Process` consumes the next packet once it is both written and announced.

`SafeSpec` is `Init /\ [][Next]_avars`, with no fairness. A processor that
polls forever would add weak fairness on `Process`; this one does not
poll.

LegacyDoorbell instantiates it with this mapping:

- `reserved <- write`;
- `doorbell <- maxLegacy`;
- `processed <- cread`;
- `written <- WrittenPackets`, the ids whose slot holds a valid header.

The run checks `AqlQueueSpec == AQ!SafeSpec` as a property. Each step of the
detailed module is therefore one abstract step or a stutter. In particular:

- each doorbell store is one forward `Ring` that stays within a queue of
  the consumer;
- each consumed packet was written and announced.

Fairness is weak fairness on the consumer's one pass and on each producer
that has begun a submission. No property of the run depends on it.

### InterruptWait

This module models the wake-up handshake of one InterruptSignal. Its
variables are:

- `value`, memory's copy of `co_signal_.value`;
- `buffer`, each setter's store buffer (used when `StoreBuffering`);
- `waiting`, which is `waiting_`;
- `eventSet`, the auto-reset device event;
- `wpc`, `active` and `args` for each waiter, and `spc` for each setter.

Every store enters the setter's store buffer and reaches memory at a later
`Drain`.

The waiter (`InterruptSignal::WaitRelaxed`) has these actions:

- `BeginWait`: `waiting_++`, with the first-waiter rule setting `active`;
- `Poll`: a returning loop turn, or the move to blocking;
- `PollTimeout`;
- `WaitOnEvent`;
- `WakeOnEvent` and `EventTimeout`: the device's wait ends;
- `ExitWait`.

The setter has these actions:

- `Store` (`StoreRelaxed`/`StoreRelease`);
- `Rmw`: And, Or, Xor, Add, Sub, Exch or Cas in any memory order. It is an
  atomic update of memory (a locked instruction is not buffered) followed by
  the same `SetEvent`. Results outside `Values` are not taken;
- `CheckWaiting`, the `InWaiting()` test;
- `SetEvent`;
- `Drain`, which empties a store buffer.

`StoreBuffering` is a constant. When it is FALSE (sequential consistency),
`CheckWaiting` waits until the setter's own buffer has drained, so the load
of `waiting_` follows the store. When it is TRUE, the load may pass the
buffered store. This is what x86 TSO does, and what the
C++ model allows, for a store followed by a load of another location with
only a compiler fence between them.

The event is auto-reset (EventPool creates it with `manual_reset` false). It
is device behaviour and not part of this repository.

Fairness is as follows:

- **Weak fairness:**
  - the waiter's steps within a call;
  - the setter's check and SetEvent;
  - buffer drains;
  - waking on a signalled event.
- **Not fair:** timeouts. A timeout is a step that may happen but is not
  assumed, because GetTimeout divides by a zero frequency and an infinite
  wait has none.

### CompletionSignal

This module models a barrier packet's completion signal being counted down.
Its variables are:

- `value`, the signal's `amd_signal.value`;
- `loaded`, the value each pipe thread has loaded and not yet stored;
- `done`, the agents whose decrement has completed;
- `waiter`, the host thread in `WaitRelaxed(CONDITION_EQ, 0)`.

Its actions are:

- `PipeLoad` and `PipeStore`: the two halves of `Pipe::Execute`'s
  `signal_value = value - 1; value = signal_value`
  (`src/scheduler/Pipe.cpp` 101-108). StreamProcessor runs each active pipe
  on its own `std::thread`, so these steps of different pipes interleave.
- `SubRelaxed`: the host's atomic subtract (`DefaultSignal.cpp` 171-185).
- `WaitPoll`: the waiter's loop turn that sees 0.

Every agent is weakly fair, because each runs its packet or call to the end.

### QueuePool

This module models StreamPool's queue pool (`Stream.cpp` 17-62, 101-141).
Its variables are:

- `pool`, `ref` and `owner`: the keys, `ref_count` and agent of the
  `queue_pool_` entries;
- `created` and `destroyed`: the queue objects so far;
- `acquires`: the calls made so far;
- `pc` and `q` for each thread;
- `failed`: an assert has fired.

Each map operation is one step, because `queue_pool_` is a `std::map` used
with no lock. The actions are:

- **AcquireQueue:**
  - `AcquireReuse`: the scan finds an entry of the caller's agent with
    `ref_count` 0 and returns it unchanged;
  - `AcquireMiss`: the scan finds none;
  - `CreateQueue` and `CreateQueueRejected`: the size is clamped, and
    `CreateQueue` rejects a size that is 0 or not a power of two;
  - `Emplace`: the new entry gets `ref_count` 1.
- **ReleaseQueue:**
  - `ReleaseQueue`: find, decrement, and the early return while the count is
    nonzero;
  - `ReleaseAssertFails`;
  - `DestroyQueue`;
  - `Erase`.

### WaitAny

This module models `StreamPool::WaitAnySignal` (`Stream.cpp` 191-323), the
signals it watches from their creation by `StreamPool::CreateSignal`
(`Stream.cpp` 157-189) to their deletion, and the device events they get
from EventPool (`EventPool.cpp` 9-49). Its variables are:

- `life` (unborn, live, deleted) and `kind` (default or interrupt) of each
  signal, and `event`, the event it owns or `NoEvent`;
- EventPool's state: the free list `pool` (a sequence; `alloc` pops its
  back), `made`, the events `CreateEvent` has made of the device's
  `DeviceEvents`, and the latch `allEventsAllocated`;
- `value`, `valid` and `waiting` for each signal;
- `evSet`, the auto-reset state of each device event;
- `notify`, a store whose `SetEvent` is still to run, and `destroying`, a
  DestroySignal whose Release is still to run;
- for each waiter: `wpc`, `prior`, the scan index `i`, `active` and `evts`,
  the events it collected before its loop.

`CreateSignal` takes one of the constant argument records `CreateArgs[s]`
(consumer lists over `Agents`). A duplicate consumer is rejected. The signal
is a DefaultSignal (no event) when it is GPU-only or `UseInterruptWait` is
off, or when it has consumers and none is in `CpuAgents`; otherwise it is an
InterruptSignal, whose constructor calls `Alloc`. `Alloc` pops the free list;
when it is empty and the latch is clear it calls `CreateEvent`, which fails
once the device's events are all made and then sets the latch; with the
latch set it returns NULL. IPC signals are created only in SignalLifetime.
`CreatedAfter` orders creations the way a program orders its calls; it
prunes orders that only permute names.

A call starts (`StartWait`, the Retain of each handle) only when every
watched signal is live. `ExitWait` is the scope guards: each Release that is
the last one deletes the signal, and the destructor gives its event back with
`FreeEvent`. `DestroyRelease` is the Release at the end of DestroySignal; it
deletes the signal only if no call holds it.

The waiter's actions follow the function in order:

- `IncWaiting`: `prior = Max(prior, waiting_++)`, one signal at a time;
- `IncDone`;
- `DecideSleep`: ACTIVE if `prior` is nonzero or a signal has no event,
  and `evts`, the signals' events without duplicates;
- `ScanSignal` and `ScanDone`;
- `Timeout`;
- `Spin`;
- `WaitOnMultipleEvents`;
- `WakeOnEvent` and `EventTimeout`;
- `ExitWait`: the scope guards.

The other threads' actions are `Store`, `DestroySignal` (the last handle's
`CasRelaxed(0, 0)`) and `SetEvent`.

Fairness is as follows:

- **Weak fairness:** `CallProgress(w)`, every step of a call other than a
  timeout (spinning included), and `SetEvent`. The spin window of a non-ACTIVE waiter is finite
  (`kMaxElapsed`), so it ends.
- **Not fair:** timeouts.

Stores are sequentially consistent here. InterruptWait covers store
buffering.

### AsyncEvents

This module models EventPool's asynchronous handlers
(`EventPool.cpp` 66-191). Its variables are:

- `active` and `staged`: `async_events_` and `new_async_events_`, as
  sequences, with position 1 being the wake signal;
- `retains`: the Retains taken by registrations and not yet released;
- `wakeVal` and `wakes`: the wake signal's value, and how many wake signals
  were created;
- `thread`, `exit`, the loop's `lpc`, `fired` and `funcs`;
- Shutdown's `spc`;
- `nullRelease`.

The actions are:

- `SetAsyncSignalHandler`: Retain, the lazy start, staging and the wake
  store.
- The loop's steps, in the code's order:
  - `WaitAnySignal`: the first index that is invalid or meets its
    condition;
  - `Dispatch`: the wake reset, or the handler with removal through
    `CopyIndex` and `PopBack`;
  - `Sweep`: a recursive sweep of dead signals;
  - `Merge`;
  - `CallFunctions`;
  - `ExitLoop`.
- `ShutdownSignal` and `ShutdownJoin`.
- User `Store` and `Destroy`.

The source has the `os::CreateThread` line commented out, and the constant
`EventsThread` chooses between two versions of the code:

- **FALSE:** the code as built, in which the thread is never created.
- **TRUE:** the code with the thread created.

The loop's steps and the join are weakly fair.

### Processor

This module models `co::Processor` (`src/processor/Processor.cpp`): one
processor thread running coroutine tasks, one scheduler thread calling
`AddTask`, and the threads in `Wakers` (a timer and a waking thread) that
call `Wakeup`. Its variables are:

- `ring`, `uwrite` and `uread`: the up queue's packets and its write and
  read dispatch ids;
- `notified`, `waiting` and `nqLock`: `notified_`, `waiting_` and the
  `newQueue_` lock;
- `runq` and `waitq`: `runnableQueue_` (a sequence) and `waitQueue_`;
- `running`, `nextTask`, `quota`: `runningTask_`, `nextTask_` and
  `addNewQuota_`;
- `state` and `sid`: each task's state and suspend id;
- `ppc`, the processor thread's position in `Process`;
- `spc`, the scheduler thread's position in `AddTask`;
- `pending`, the Wakeup calls in progress, each with its task, id, thread
  and position;
- `added`, `suspends` and `yields`, history and bound counters.

The actions are:

- **Scheduler:** `AddTask` writes the packet and advances the write index;
  `AddTaskNotify` is its unlocked tail, `if (waiting_) cv_.notify_all();
  else notified_ = true;`.
- **Processor loop:** `LoopFront`, `FetchBeforeWait`, `FrontAfterFetch`,
  `WaitConditionCheck` (lock, test and clear `notified_`),
  `WaitConditionSleep` (`waiting_ = true`, then `cv_.wait`),
  `WaitConditionWake` and `FetchAfterWait`. `AddNewTasks` drains at most
  the quota of packets from the up queue into `runnableQueue_` as part of
  the fetch steps.
- **The running task:** `TaskDone`, `TaskYield` and `SuspendBySelf`, which
  increments the suspend id, sets `nextTask_`, erases the task from the run
  queue and pushes it on the wait queue.
- **Dispatch on the state the task left in:** `AfterRunnable`, `AfterBlock`
  and `AfterDone`.
- **Wakers:** `Advance` and `Finish` move through the calls;
  `WakeupCheck` is the unlocked id test, `WakeupLocked` the locked recheck,
  erase and push, and `NotifyCondition` the locked notification when the run
  queue was empty.

`Process`'s locked steps on the two queues are single steps, as the code
holds the shared lock across each of them. The up queue has one writer and
one reader, so each side's update is one step.

Fairness is weak fairness on the processor thread, on the scheduler's
notification and on the wakers. Each is a thread that the OS eventually
runs. New `AddTask` calls and suspensions are not forced.

`Processor.h`, `Task` and `TSQueue` are not in the repository. Their
behaviour (the task states, `TaskRefSuspendId`, the shared queue lock) is
taken from the uses in `Processor.cpp`.

### SmallHeap

This module models the scratch allocator that StreamProcessor builds over
`[scratch_base_, scratch_base_ + scratch_size_)`. Its variables are:

- `memory`, the `std::map` from address to node (`len`, `next`, `prior`),
  with the guard at address 0 (which is also `nullptr`) and one at `Top`;
  `EndIt` stands for `memory.end()`;
- `total_free` and `high`, the heap's other fields;
- `held`, the block each client got (address, size, which call).

`insertafter`, `remove` and `merge` are operators on the map, written as the
pointer updates of the code in their order. `FirstFit`, `LastFit` and
`FreeBefore` are the three loops, as RECURSIVE operators. The actions are
`Alloc`, `AllocHigh` and `Free`, each a whole call, because StreamProcessor
calls `alloc` and `free` under `scratch_lock_`. `Fail` is a call that
returns `nullptr`, which the client keeps (CreateQueue's assert is compiled
out in a release build). A later `Free` of it takes `free`'s early return.

`Allocator` is the abstract specification of the heap. It has one
variable, `owned`, the range each client holds, and no free list. `alloc`
gives the lowest address at which the requested bytes are all unowned,
`alloc_high` the highest, and `nullptr` when there is no such address or the
request is 0 bytes. SmallHeap implements it under the mapping
`owned <- held` (`AllocatorSpec`). The concrete walks, splits, merges and the
`total_free` shortcut must therefore act together as a search of the whole
pool.

## 4. Runs

| Run | Config | Result | What it shows |
|---|---|---|---|
| signal_lifetime | `SignalLifetime.cfg` (3 threads, values {0,1}, 2 handles/thread; non-IPC, and IPC with 2 threads) | pass, ~498k states | `TypeOK`: the counters stay in range in both modes. `NoUseAfterFreeLocal`: no thread is inside a call on a deleted non-IPC signal. `NoLeak`: in both modes, once all handles are destroyed and all calls returned, the signal is deleted. `WaiterReturnsOnDestroy`: destroying the last handle of a non-IPC signal releases every waiter, including infinite waits. |
| signal_lifetime_ipc | `SignalLifetimeIPC.cfg` (2 threads, IPC) | **violation** of `NoUseAfterFree` | The stale read of the shared block in `DuplicateSignalHandle`, described below. |
| interrupt_wait_sc | `InterruptWaitSC.cfg` (2 waiters, 2 setters, 2 stores, stores drained before the `InWaiting` load) | pass | `NoLostWakeup`: a waiter never stays in the wait while its condition is met. `AtMostOneSleeper`: the first-waiter rule keeps a single thread on the auto-reset event. `TypeOK`. |
| interrupt_wait_lost | `InterruptWaitLost.cfg` (same, store buffering) | **violation** of `NoLostWakeup` | The lost wake-up below. |
| legacy_doorbell | `LegacyDoorbell.cfg` (3 producers, ring of 2, 3 packets) | pass, ~6k states | See the list after this table. |
| completion_signal_hang | `CompletionSignalHang.cfg` (3 pipes, 2 host threads) | **violation** of `WaiterReleased` | Two overlapping pipe decrements lose one, and the waiter for 0 never returns. |
| queue_pool_shared | `QueuePoolShared.cfg` (2 threads on one agent, 4 acquires, hints {2,3}, max size 4) | **violation** of `NoUseOfDestroyedQueue` | A thread is handed a queue that another thread's ReleaseQueue then destroys. |
| wait_any | `WaitAny.cfg` (3 waiters, 3 signals created in any allowed order through CreateSignal, 2 device events, 1 store or destroy) | pass, ~275k states | `OneSleeperPerEvent`: two calls over the same events, taken in opposite orders, never both block on one auto-reset event. `NoLostWakeup`: a blocked caller whose signal meets its condition, or is destroyed, is woken; a caller with a signal that has no event (a DefaultSignal, or an InterruptSignal made after the pool ran out) never blocks. `EventOwnedOnce`: no event is owned by two live signals, or is both owned and in the free list. `SleepEventsOwned`: an event a call sleeps on belongs to a live signal of that call, so no event is freed and reused under a sleeping call. |
| async_events | `AsyncEvents.cfg` (thread created, 2 signals, 3 registrations, 2 stores or destroys) | pass, ~32k states | `RetainsOwned`: every Retain taken by a registration is owned by exactly one list entry, through handler removal, the sweep, the merge and exit. `RegistrationsMerged`: a staged registration is merged before shutdown. |
| processor | `Processor.cfg` (2 tasks, timer and waker, up queue of 2, 1 suspension and 1 yield per task) | pass, ~160k states | See the list after this table. |
| small_heap | `SmallHeap.cfg` (pool of 5 bytes at 1, requests of 0, 1, 2 and 6 bytes, 3 clients) | pass, ~19k states | `HeapWellFormed`: the blocks tile the pool, and the free list is sorted, doubly linked, bracketed by the guards and fully merged. `TotalFreeExact`: `total_free` is the sum of the free blocks. `BlocksOwned`: held blocks are used nodes of their size, every used node is held, and `high` is exactly the live `alloc_high` blocks. `AllocatorSpec`: the heap refines the abstract first-fit allocator `Allocator`. `TypeOK`. |
| processor_lost | `ProcessorLost.cfg` (same) | **violation** of `AddedTaskStarts` | The Processor lost wake-up below. |

The legacy_doorbell run checks these properties:

- The hardware window never exceeds one queue: `HardwareWindowBounded`.
- Every rung packet is covered by the hardware write pointer:
  `DoorbellCoversRungPackets`. This is the code comment's promise that "a
  doorbell for the remaining packets is guaranteed to be sent at a later
  time".
- The published pointer never goes backwards: `DoorbellMonotonic`.
- Every step is a step of the abstract queue: `AqlQueueSpec`. This is the
  safety part only.

The processor run checks these properties:

- `TaskLinkedOnce`: a task is at most once in the run queue, never in both
  queues, and a finished task is in neither. This holds across suspensions,
  wakeups and the dispatch that picks `nextTask_`.
- `WakeupFindsWaitingTask`: a Wakeup that changes a task's suspend id takes
  the task out of the wait queue. A late timer and the waking thread race
  for one entry; the locked recheck of the id lets only one of them through.
- `RunnableTaskRuns`: a task in the run queue eventually runs. A waker that
  refills an empty run queue notifies the sleeping processor thread.

Why the bounds are enough:

- **SignalLifetime.** Three threads give the owner, a waiter and a duplicator
  at once. Two handles per thread allow a duplication followed by a destroy.
  The IPC race needs only two threads.
- **LegacyDoorbell.** Three producers on a two-slot ring with three packets
  make these cases happen:
  - producers reserve past a full queue, so the clamp takes effect;
  - one doorbell is discarded as a duplicate;
  - after the pass a producer writes packet 2 into slot 0 and rings, and
    that packet is never consumed;
  - the consumer meets a reserved but unwritten slot.
  The consumer's one pass takes at most `Size` packets, so more packets
  would only add producers that spin on a full ring.

- **CompletionSignal.** Two pipes suffice to lose a decrement. Three pipes
  and two host threads let a lost update overlap an atomic one.
- **QueuePool.** Two threads with four acquires between them allow a release
  of one thread to overlap the acquire of the other. A hint of 3 makes
  `CreateQueue` reject, and a hint above the maximum size is clamped.
- **WaitAny.** Two waiters take two shared signals in opposite orders, which
  is what the first-waiter rule must arbitrate. The third waiter watches a
  signal that, by its arguments, is a DefaultSignal or an InterruptSignal.
  The device has two events, so a third InterruptSignal gets none (the
  latch), and one created after a deletion gets a recycled event. One store or destroy is enough to need a wake-up;
  two stores with three waiters take several minutes.
- **Processor.** Two tasks and two wakers make these cases happen:
  - a timer and a waking thread hold the same suspend entry;
  - one task suspends while the other is in the up queue or the run queue;
  - the run queue empties and is refilled by a wakeup;
  - the up queue of two fills.
  One suspension and one yield per task bound the run.
- **SmallHeap.** Three clients on five bytes reach every shape of the free
  list with up to three used blocks: an exact fit, a split, a block freed
  between two free neighbours (both merges), and a request that fails for
  fragmentation although `total_free` would allow it. Sizes 0 and 6 take the
  two early returns.
- **AsyncEvents.** Three registrations over two signals and a plain function
  let a signal be registered twice, removed by its handler and swept after a
  destroy.

Each property has a mutant in `PROJECT.json`: a plausible bug in the mapped
code that TLC shows breaks it. Examples are a dropped `Retain`, a
`DestroySignal` without `Release`, a missing `IsValid` check, a missing clamp,
a clamp one short, a lock acquire that does not wait, and a producer that
writes a slot one queue ahead.

## 5. Findings

**IPC signal use after free (code bug).** `DuplicateSignalHandle` reads the
signal's shared block (`SharedSignal::Object(signal)->IsIPC()`,
`Stream.cpp` 365-367) before `duplicateIpc` takes `ipcLock_`. The comment at
line 374 says IPC signals may only be duplicated while holding that lock.
TLC's trace (6 states, `SignalLifetimeIPC.cfg`) is below. Steps 2 and 3 are
independent, and runs with several workers may print them in either order:

1. Thread t1 destroys its only handle: `refcount_` and then `retained_` drop
   to 0.
2. t1's `DeRegisterIpc` sees `refcount_ == 0` and erases the `ipcMap_` entry.
3. Thread t2, which knows the IPC handle value, enters
   `DuplicateSignalHandle`.
4. t1 deletes the signal and its shared block.
5. t2 reads `IsIPC()` from the freed block.

A second race lies in the same window. `ISignal::Release` decrements
`retained_` outside `ipcLock_` and only then calls `DeRegisterIpc`. Between
the two, `duplicateIpc` still finds the signal in `ipcMap_` and revives it
(`refcount_` 1, `retained_` 1). If that new handle is destroyed before the
first `DeRegisterIpc` runs, both threads go on to deregister and delete the
object. The same revival is why `WaiterReturnsOnDestroy` is stated for
non-IPC signals only: with IPC, a handle count of 0 is not final, and a waiter
may keep waiting on a signal that another process has duplicated again.

**InterruptSignal lost wake-up (code bug).** `SetEvent` separates the value
store from the `InWaiting()` load with `std::atomic_signal_fence`. That fence
constrains only the compiler. A failing interleaving that TLC finds
(`InterruptWaitLost.cfg`) is below. Runs with several workers may print
another trace of the same shape, with other threads and values:

1. Setter s1 stores 1. The store stays in s1's store buffer.
2. s1 reads `waiting_` = 0 and skips `SetEvent`.
3. Waiter w2 increments `waiting_`.
4. w2 loads the old value 0, which does not meet its condition, and blocks
   in `WaitOnEvent`.
5. The buffered 1 drains to memory. Now the condition is met, but nothing
   signals the event.

w2 sleeps until `wait_ms` (up to 0xFFFFFFFE ms) expires.

With stores visible at once the same code loses no wake-up
(interrupt_wait_sc). Dropping the first-waiter rule makes even that run fail,
since two sleepers then share one auto-reset event.

**Pipe barrier decrement loses updates (code bug).** `Pipe::Execute` computes
`signal_value = sig->amd_signal.value - 1` and stores it back with plain
accesses (`Pipe.cpp` 103-107). StreamProcessor runs each active pipe on its
own `std::thread`, and host code subtracts atomically. The signal starts at
5, with three pipes and two host threads to decrement it. A failing
interleaving that TLC finds (`CompletionSignalHang.cfg`) is below. Runs with
several workers may print another one, such as two pipes that both load 5:

1. Pipes p1 and then p2 each load and store, bringing the value to 3.
2. Pipe p3 loads 3.
3. Host threads h1 and h2 subtract atomically, bringing the value to 1.
4. p3 stores 2, undoing both host decrements. The signal stays at 2,
   never 0.

As written, `Pipe.cpp` does not compile. Line 99 lacks a semicolon, and
`SharedSignal` has no `amd_signal` member (line 105). The model takes the
code's evident meaning: a plain load of the signal's value, then a plain
store.

The waiter in `hsa_signal_wait`-style `WaitRelaxed(EQ, 0)` then waits for
ever (`CompletionSignalHang.cfg`).

**Unlocked queue pool hands out a queue being destroyed
(spec/code divergence).** The specification (section 5) says pool
bookkeeping is done under a kernel mutex. `AcquireQueue` and `ReleaseQueue`
take no lock. The failing interleaving is:

1. Thread t1's `ReleaseQueue` brings an entry's `ref_count` to 0.
2. Before t1 destroys and erases it, t2's `AcquireQueue` scan finds that
   entry, with the same agent and `ref_count` 0, and returns it without
   incrementing.
3. t1 destroys the queue t2 now holds.

Sequentially the reuse branch is dead code: an entry is erased as soon as it
reaches 0, and a reused entry's count is never raised.

**Processor loses the scheduler's wake-up (code bug).** `AddTask`
(`Processor.cpp` 61-64) tests `waiting_` and sets `notified_` without the
`newQueue_` lock that `WaitCondition` (226-240) holds. The failing
interleaving is:

1. The processor thread finds the run queue and the up queue empty.
2. It takes the lock in `WaitCondition` and sees `notified_` false.
3. The scheduler writes task t1 to the up queue, reads `waiting_` false and
   sets `notified_ = true`.
4. The processor sets `waiting_ = true` and sleeps on `cv_`.

Nothing notifies `cv_` again, and t1 is never started
(`ProcessorLost.cfg`). The check of `notified_` and the setting of
`waiting_` must be in one critical section with the scheduler's test.

**Other observations, not checked by a run.**

- Packets are consumed in one pass only (code bug). `Pipe::Execute` has no
  outer loop (`Pipe.cpp` 72-127; the `sleep(1)` of a polling loop is
  commented out at line 126). `StreamProcessor::Execute` starts it once per
  pipe and never again. A packet announced after that pass is never
  consumed. So is a packet the pass stops at because its header is still
  INVALID (line 88). LegacyDoorbell models this one pass. It therefore
  claims only the safety part of `AqlQueue`.

- `SetAsyncSignalHandler` always fails and leaks (code bug). The
  `os::CreateThread` call is commented out (`EventPool.cpp` 89-90). Every
  call retains the signal (line 74), creates a new wake signal and pushes it
  onto `async_events_`, and then fails at lines 91-94. The Retain is never
  released and no handler is ever registered. The AsyncEvents module keeps
  this build as `EventsThread = FALSE`.

- `AsyncEventsLoop`'s exit path (`EventPool.cpp` 173) calls `Release` on every
  staged entry, including a plain function's null signal. A function staged
  after the last merge therefore crashes shutdown. `AsyncEvents` models the
  release and states `NoNullRelease`. With the constants of `AsyncEvents.cfg`
  and `NoNullRelease` as the invariant, TLC finds it violated in ten states:
  a handler is merged, a plain function is staged after that merge, Shutdown
  signals, and the loop's exit releases the function's null signal. No run
  checks it, because the crash needs the events thread, and the build as it
  stands never creates one (`CreateThread` is commented out).
- The specification (section 4.3) states the reverse of `CreateSignal`'s
  rule (`Stream.cpp` 161-178). The code gives the InterruptSignal to a signal
  that has a CPU consumer. The specification gives it to a signal that only
  non-CPU agents consume.
- `~HardQueue` calls `Inactivate()`, which destroys the device queue, and
  then calls `GetDevice()->DestroyQueue(queue_id_)` again (`HardQueue.cpp`
  207). `IsValid()` still holds there, because `StreamPool::DestroyQueue`
  deletes the queue without dropping `refcount_`.

## 6. Not modelled

- **Not modelled yet:**
  - SoftQueue. Its index operations are single atomics on `co_queue_t`, the
    same steps the Processor's up queue and LegacyDoorbell's ring take; its
    constructor and `Inactivate` are sequential.
  - EventPool's `clear` and `DestroyEvent`. They run only when the pool is
    torn down, which no code does. `src/common/EventPool.cpp` is an older
    copy that is not built with `src/core`.

  Section 2 and PROJECT.json say how each is planned.
- **The hardware doorbell (`doorbell_type_ == 2`) path.** It stores through
  `co_signal_.hardware_doorbell_ptr`, which the constructor never sets (the
  memset leaves it null). The path is left out until a module covers doorbell
  types.
- **Parts of the Processor.** These are left out:
  - work stealing (`Steal`), which no code calls;
  - `AddTask(SList)` and garbage collection of done tasks;
  - the up queue's `StoreReadIndexRelaxed`, which is `assert(false)` on a
    HardQueue;
  - the byte-versus-packet mask of the up queue's write slot, and `AddTask`'s
    missing room check. With two tasks and an up queue of two slots, the
    ring never overflows in the model.
  No code in the repository constructs a Processor, and `Processor.h`,
  `Task` and `TSQueue` are missing.
- **StreamProcessor register plumbing, the shared signal and queue pools,
  OS wrappers, the coroutine library and the attic.** They hold no
  shared-state protocol beyond what the modules cover, or they are not built.
  `SharedSignalPool` and `SharedQueuePool` are never used (signals take their
  shared block from the page allocator). The attic, `stream_api.h` and the
  other API headers are declarations, with no behaviour to model.
- **SmallHeap's header.** `small_heap.h`, which holds the constructor and the
  node predicates (`isfree`, `islastfree`, `isfirstfree`, `setused`,
  `firstfree`, `lastfree`), is not in the repository. The module takes them
  as the `.cpp` uses them: a used node has `next == memory.begin()`, and the
  guards sit at address 0 and above the pool. The model puts the top guard
  one address above the pool, so a pool that reaches the top guard (the
  `assert(!islastfree(high))` in `merge`) cannot occur, as it cannot with a
  top guard at the highest address.
- **The 32-bit MMIO cast.** `uint32_t(legacy_dispatch_id)` is the identity
  within the model's bounds. TLC's integers cannot represent 2^32.
