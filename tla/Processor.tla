----------------------------- MODULE Processor -----------------------------
(***************************************************************************)
(* co::Processor: one processor thread running coroutine tasks, fed by a   *)
(* scheduler thread through an up queue and woken by other threads.        *)
(*                                                                         *)
(*  - Processor::AddTask(Task *tk) runs on the scheduler (Pipe) thread: it *)
(*    writes a task packet at the up queue's write index, advances the     *)
(*    index and, without the newQueue_ lock, either notifies cv_ (if       *)
(*    waiting_) or sets notified_.                                         *)
(*  - Processor::Process is the processor thread's loop: take the front of *)
(*    runnableQueue_, otherwise AddNewTasks (drain the up queue into       *)
(*    runnableQueue_), otherwise WaitCondition (sleep on cv_ under the     *)
(*    newQueue_ lock unless notified_); run the task and dispatch on the    *)
(*    state it left in (runnable: round robin; block; done).               *)
(*  - A task suspends itself with SuspendBySelf (into waitQueue_, with a   *)
(*    fresh suspend id) and hands the entry to the threads that may wake   *)
(*    it (a timer for Suspend(dur), and the thread it waits on); each of   *)
(*    them calls Wakeup(entry) -> WakeupBySelf, which moves the task back  *)
(*    to runnableQueue_ if the id still matches, and calls NotifyCondition *)
(*    when the queue was empty.                                            *)
(*                                                                         *)
(* runnableQueue_ and waitQueue_ share one lock; each locked operation is  *)
(* one step.  The up queue is written by one thread (the scheduler) and    *)
(* read by one (the processor), so each side's ring update is one step.   *)
(***************************************************************************)
EXTENDS Naturals, Sequences, SequencesExt

CONSTANTS
  Tasks,        \* coroutine tasks handed to AddTask (model values)
  NoTask,       \* nullptr, and an INVALID packet header
  Wakers,       \* threads that receive a suspend entry (timer, waker)
  UpSize,       \* slots of the up queue ring
  MaxSuspends,  \* bound: suspensions per task
  MaxYields     \* bound: yields per task

ASSUME NoTask \notin Tasks /\ UpSize \in Nat \ {0}

VARIABLES
  ring, uwrite, uread,  \* up queue: packets, write and read dispatch ids
  added,        \* tasks AddTask has been called for
  spc,          \* scheduler thread: "idle" or "notify" (inside AddTask)
  notified,     \* notified_
  waiting,      \* waiting_
  nqLock,       \* newQueue_ lock held by the processor thread
  runq,         \* runnableQueue_, in order
  waitq,        \* waitQueue_
  running,      \* runningTask_
  nextTask,     \* nextTask_
  quota,        \* addNewQuota_
  state,        \* Task::state_ ("init" before its first run)
  sid,          \* TaskRefSuspendId(tk)
  suspends, yields,  \* per-task counts, for the bounds
  ppc,          \* processor thread program counter
  pending       \* Wakeup calls in progress: [t, id, w, pc]

vars == <<ring, uwrite, uread, added, spc, notified, waiting, nqLock, runq,
          waitq, running, nextTask, quota, state, sid, suspends, yields,
          ppc, pending>>

States == {"init", "runnable", "block", "done"}
PPCs == {"top", "add1", "front2", "wc", "wc_wait", "sleep", "wake", "add2",
         "swap", "after"}
Entry == [t : Tasks, id : 0..2 * MaxSuspends, w : Wakers,
          pc : {"check", "locked", "notify"}]

TypeOK ==
  /\ ring \in [0..UpSize - 1 -> Tasks \cup {NoTask}]
  /\ uread \in Nat /\ uwrite \in Nat /\ uread <= uwrite
  /\ added \subseteq Tasks /\ spc \in {"idle", "notify"}
  /\ notified \in BOOLEAN /\ waiting \in BOOLEAN /\ nqLock \in BOOLEAN
  /\ runq \in Seq(Tasks) /\ waitq \subseteq Tasks
  /\ running \in Tasks \cup {NoTask} /\ nextTask \in Tasks \cup {NoTask}
  /\ quota \in 0..1
  /\ state \in [Tasks -> States]
  /\ sid \in [Tasks -> 0..2 * MaxSuspends]
  /\ suspends \in [Tasks -> 0..MaxSuspends]
  /\ yields \in [Tasks -> 0..MaxYields]
  /\ ppc \in PPCs
  /\ pending \subseteq Entry

Init ==
  /\ ring = [k \in 0..UpSize - 1 |-> NoTask]
  /\ uwrite = 0 /\ uread = 0 /\ added = {} /\ spc = "idle"
  /\ notified = FALSE /\ waiting = FALSE /\ nqLock = FALSE
  /\ runq = <<>> /\ waitq = {} /\ running = NoTask /\ nextTask = NoTask
  /\ quota = 0
  /\ state = [t \in Tasks |-> "init"]
  /\ sid = [t \in Tasks |-> 0]
  /\ suspends = [t \in Tasks |-> 0]
  /\ yields = [t \in Tasks |-> 0]
  /\ ppc = "top" /\ pending = {}

(***************************************************************************)
(* Queue operations.                                                       *)
(***************************************************************************)

\* runnableQueue_.front(tk): the head, or nullptr.
FrontOf(q) == IF q = <<>> THEN NoTask ELSE Head(q)

\* runnableQueue_.next(tk, out): the task linked after tk, or nullptr.
Successor(q, t) ==
  IF \E i \in 1..Len(q) - 1 : q[i] = t
  THEN q[SelectInSeq(q, LAMBDA x : x = t) + 1]
  ELSE NoTask

\* AddNewTasks scans from the read index to the write index and stops at
\* the first INVALID header: FetchCount is how many packets it takes.
Valid(i) == ring[i % UpSize] # NoTask

FetchCount ==
  CHOOSE n \in 0..uwrite - uread :
    /\ \A i \in uread..uread + n - 1 : Valid(i)
    /\ n = uwrite - uread \/ ~Valid(uread + n)

FetchedTasks == [j \in 1..FetchCount |-> ring[(uread + j - 1) % UpSize]]

(* Processor::AddNewTasks: push each task packet onto runnableQueue_,      *)
(* reset its header to INVALID and store the read index if it moved; the   *)
(* caller appends FetchedTasks to the run queue.                           *)
AddNewTasks ==
  /\ ring' = [k \in 0..UpSize - 1 |->
                IF \E i \in uread..uread + FetchCount - 1 : i % UpSize = k
                THEN NoTask ELSE ring[k]]
  /\ uread' = uread + FetchCount

(***************************************************************************)
(* Scheduler thread: Processor::AddTask(Task *tk).                         *)
(***************************************************************************)

(* Write the packet at write_index & mask and store write_index + 1; the   *)
(* ring is not checked for room.                                           *)
AddTask(t) ==
  /\ spc = "idle" /\ t \notin added
  /\ ring' = [ring EXCEPT ![uwrite % UpSize] = t]
  /\ uwrite' = uwrite + 1
  /\ added' = added \cup {t}
  /\ spc' = "notify"
  /\ UNCHANGED <<uread, notified, waiting, nqLock, runq, waitq, running,
                 nextTask, quota, state, sid, suspends, yields, ppc, pending>>

(* if (waiting_) cv_.notify_all(); else notified_ = true; -- unlocked. *)
AddTaskNotify ==
  /\ spc = "notify"
  /\ IF waiting
     THEN /\ ppc' = IF ppc = "sleep" THEN "wake" ELSE ppc
          /\ UNCHANGED notified
     ELSE /\ notified' = TRUE
          /\ UNCHANGED ppc
  /\ spc' = "idle"
  /\ UNCHANGED <<ring, uwrite, uread, added, waiting, nqLock, runq, waitq,
                 running, nextTask, quota, state, sid, suspends, yields,
                 pending>>

(***************************************************************************)
(* Processor thread: Processor::Process and WaitCondition.                 *)
(***************************************************************************)

\* Hands the loop to the task in runningTask_, or back to the top.
RunOrTop(t) == ppc' = IF t # NoTask THEN "swap" ELSE "top"

(* runnableQueue_.front(runningTask_); with a task, addNewQuota_ = 1. *)
LoopFront ==
  /\ ppc = "top"
  /\ running' = FrontOf(runq)
  /\ IF runq # <<>>
     THEN ppc' = "swap" /\ quota' = 1
     ELSE ppc' = "add1" /\ UNCHANGED quota
  /\ UNCHANGED <<ring, uwrite, uread, added, spc, notified, waiting, nqLock,
                 runq, waitq, nextTask, state, sid, suspends, yields, pending>>

(* if (AddNewTasks()) ... -- AddNewTasks always returns true. *)
FetchBeforeWait ==
  /\ ppc = "add1"
  /\ AddNewTasks
  /\ runq' = runq \o FetchedTasks
  /\ ppc' = "front2"
  /\ UNCHANGED <<uwrite, added, spc, notified, waiting, nqLock, waitq,
                 running, nextTask, quota, state, sid, suspends, yields,
                 pending>>

(* runnableQueue_.front(runningTask_) again; still none: WaitCondition. *)
FrontAfterFetch ==
  /\ ppc = "front2"
  /\ running' = FrontOf(runq)
  /\ IF runq # <<>>
     THEN ppc' = "swap" /\ quota' = 1
     ELSE ppc' = "wc" /\ UNCHANGED quota
  /\ UNCHANGED <<ring, uwrite, uread, added, spc, notified, waiting, nqLock,
                 runq, waitq, nextTask, state, sid, suspends, yields, pending>>

(* WaitCondition: take the newQueue_ lock; if notified_, clear it and      *)
(* return; otherwise keep the lock.                                        *)
WaitConditionCheck ==
  /\ ppc = "wc" /\ ~nqLock
  /\ IF notified
     THEN notified' = FALSE /\ ppc' = "add2" /\ UNCHANGED nqLock
     ELSE nqLock' = TRUE /\ ppc' = "wc_wait" /\ UNCHANGED notified
  /\ UNCHANGED <<ring, uwrite, uread, added, spc, waiting, runq, waitq,
                 running, nextTask, quota, state, sid, suspends, yields,
                 pending>>

(* waiting_ = true; cv_.wait(lock) releases the lock and sleeps. *)
WaitConditionSleep ==
  /\ ppc = "wc_wait"
  /\ waiting' = TRUE /\ nqLock' = FALSE
  /\ ppc' = "sleep"
  /\ UNCHANGED <<ring, uwrite, uread, added, spc, notified, runq, waitq,
                 running, nextTask, quota, state, sid, suspends, yields,
                 pending>>

(* Woken by notify_all: re-take the lock, waiting_ = false, return. *)
WaitConditionWake ==
  /\ ppc = "wake" /\ ~nqLock
  /\ waiting' = FALSE
  /\ ppc' = "add2"
  /\ UNCHANGED <<ring, uwrite, uread, added, spc, notified, nqLock, runq,
                 waitq, running, nextTask, quota, state, sid, suspends,
                 yields, pending>>

(* AddNewTasks(); continue; *)
FetchAfterWait ==
  /\ ppc = "add2"
  /\ AddNewTasks
  /\ runq' = runq \o FetchedTasks
  /\ ppc' = "top"
  /\ UNCHANGED <<uwrite, added, spc, notified, waiting, nqLock, waitq,
                 running, nextTask, quota, state, sid, suspends, yields,
                 pending>>

(***************************************************************************)
(* The running task: state_ = runnable, SwapIn, and what the coroutine     *)
(* does before it switches back.                                           *)
(***************************************************************************)

TaskDone ==
  /\ ppc = "swap"
  /\ state' = [state EXCEPT ![running] = "done"]
  /\ ppc' = "after"
  /\ UNCHANGED <<ring, uwrite, uread, added, spc, notified, waiting, nqLock,
                 runq, waitq, running, nextTask, quota, sid, suspends,
                 yields, pending>>

TaskYield ==
  /\ ppc = "swap" /\ yields[running] < MaxYields
  /\ state' = [state EXCEPT ![running] = "runnable"]
  /\ yields' = [yields EXCEPT ![running] = @ + 1]
  /\ ppc' = "after"
  /\ UNCHANGED <<ring, uwrite, uread, added, spc, notified, waiting, nqLock,
                 runq, waitq, running, nextTask, quota, sid, suspends,
                 pending>>

\* Fault variant: the task is pushed on waitQueue_ but not erased from
\* runnableQueue_.
SuspendNoErase ==
  /\ ppc = "swap" /\ suspends[running] < MaxSuspends
  /\ LET t == running
         id == sid[t] + 1
     IN /\ state' = [state EXCEPT ![t] = "block"]
        /\ sid' = [sid EXCEPT ![t] = id]
        /\ nextTask' = Successor(runq, t)
        /\ waitq' = waitq \cup {t}
        /\ pending' = pending \cup
                        {[t |-> t, id |-> id, w |-> w, pc |-> "check"] : w \in Wakers}
        /\ suspends' = [suspends EXCEPT ![t] = @ + 1]
  /\ ppc' = "after"
  /\ UNCHANGED <<ring, uwrite, uread, added, spc, notified, waiting, nqLock,
                 running, quota, yields, runq>>

(* Processor::Suspend -> SuspendBySelf: state_ = block, ++suspend id;      *)
(* under the lock nextTask_ = the task after it, erase it from             *)
(* runnableQueue_ and push it on waitQueue_.  The returned entry goes to   *)
(* each waker (the timer of Suspend(dur), and the thread it waits on).     *)
SuspendBySelf ==
  /\ ppc = "swap" /\ suspends[running] < MaxSuspends
  /\ LET t == running
         id == sid[t] + 1
     IN /\ state' = [state EXCEPT ![t] = "block"]
        /\ sid' = [sid EXCEPT ![t] = id]
        /\ nextTask' = Successor(runq, t)
        /\ runq' = RemoveFirst(runq, t)
        /\ waitq' = waitq \cup {t}
        /\ pending' = pending \cup
                        {[t |-> t, id |-> id, w |-> w, pc |-> "check"] : w \in Wakers}
        /\ suspends' = [suspends EXCEPT ![t] = @ + 1]
  /\ ppc' = "after"
  /\ UNCHANGED <<ring, uwrite, uread, added, spc, notified, waiting, nqLock,
                 running, quota, yields>>

(***************************************************************************)
(* Back on the processor: switch (runningTask_->state_).                   *)
(***************************************************************************)

(* runnable: move to the task after it; at the tail, newQueue_ is always   *)
(* empty (AddTask no longer fills it), so runningTask_ = nullptr.          *)
AfterRunnable ==
  /\ ppc = "after" /\ state[running] = "runnable"
  /\ running' = Successor(runq, running)
  /\ RunOrTop(Successor(runq, running))
  /\ UNCHANGED <<ring, uwrite, uread, added, spc, notified, waiting, nqLock,
                 runq, waitq, nextTask, quota, state, sid, suspends, yields,
                 pending>>

(* block: runningTask_ = nextTask_; nextTask_ = nullptr. *)
AfterBlock ==
  /\ ppc = "after" /\ state[running] = "block"
  /\ running' = nextTask
  /\ nextTask' = NoTask
  /\ RunOrTop(nextTask)
  /\ UNCHANGED <<ring, uwrite, uread, added, spc, notified, waiting, nqLock,
                 runq, waitq, quota, state, sid, suspends, yields, pending>>

\* Fault variant: --addNewQuota_ outside the if.
AfterDoneAlwaysDecrement ==
  /\ ppc = "after" /\ state[running] = "done"
  /\ LET fetch == Successor(runq, running) = NoTask /\ quota > 0
         q == IF fetch THEN runq \o FetchedTasks ELSE runq
         n == Successor(q, running)
     IN /\ IF fetch THEN AddNewTasks ELSE UNCHANGED <<ring, uread>>
        /\ quota' = quota - 1
        /\ runq' = RemoveFirst(q, running)
        /\ running' = n
        /\ RunOrTop(n)
  /\ nextTask' = NoTask
  /\ UNCHANGED <<uwrite, added, spc, notified, waiting, nqLock, waitq, state,
                 sid, suspends, yields, pending>>

(* done: nextTask_ = the task after it; at the tail and with quota left,   *)
(* AddNewTasks, take the task after it again and --addNewQuota_; erase it  *)
(* from runnableQueue_, queue it for GC; runningTask_ = nextTask_.         *)
AfterDone ==
  /\ ppc = "after" /\ state[running] = "done"
  /\ LET fetch == Successor(runq, running) = NoTask /\ quota > 0
         q == IF fetch THEN runq \o FetchedTasks ELSE runq
         n == Successor(q, running)
     IN /\ IF fetch
           THEN AddNewTasks /\ quota' = quota - 1
           ELSE UNCHANGED <<ring, uread, quota>>
        /\ runq' = RemoveFirst(q, running)
        /\ running' = n
        /\ RunOrTop(n)
  /\ nextTask' = NoTask
  /\ UNCHANGED <<uwrite, added, spc, notified, waiting, nqLock, waitq, state,
                 sid, suspends, yields, pending>>

(***************************************************************************)
(* Wakers: Processor::Wakeup(entry) -> WakeupBySelf(tk, id).               *)
(***************************************************************************)

Advance(e, l) == pending' = (pending \ {e}) \cup {[e EXCEPT !.pc = l]}
Finish(e) == pending' = pending \ {e}

(* if (id != TaskRefSuspendId(tk)) return false;  -- before the lock. *)
WakeupCheck(e) ==
  /\ e \in pending /\ e.pc = "check"
  /\ IF e.id # sid[e.t] THEN Finish(e) ELSE Advance(e, "locked")
  /\ UNCHANGED <<ring, uwrite, uread, added, spc, notified, waiting, nqLock,
                 runq, waitq, running, nextTask, quota, state, sid, suspends,
                 yields, ppc>>

\* Fault variant: the id is not checked again under the lock.
WakeupLockedNoRecheck(e) ==
  /\ e \in pending /\ e.pc = "locked"
  /\ sid' = [sid EXCEPT ![e.t] = @ + 1]
  /\ waitq' = waitq \ {e.t}
  /\ runq' = Append(runq, e.t)
  /\ IF Len(runq) = 0 THEN Advance(e, "notify") ELSE Finish(e)
  /\ UNCHANGED <<ring, uwrite, uread, added, spc, notified, waiting, nqLock,
                 running, nextTask, quota, state, suspends, yields, ppc>>

(* Under the lock: check the id again, ++id, erase from waitQueue_, push   *)
(* on runnableQueue_; if that made its size 1, go on to NotifyCondition.   *)
WakeupLocked(e) ==
  /\ e \in pending /\ e.pc = "locked"
  /\ IF e.id # sid[e.t]
     THEN Finish(e) /\ UNCHANGED <<sid, waitq, runq>>
     ELSE /\ sid' = [sid EXCEPT ![e.t] = @ + 1]
          /\ waitq' = waitq \ {e.t}
          /\ runq' = Append(runq, e.t)
          /\ IF Len(runq) = 0 THEN Advance(e, "notify") ELSE Finish(e)
  /\ UNCHANGED <<ring, uwrite, uread, added, spc, notified, waiting, nqLock,
                 running, nextTask, quota, state, suspends, yields, ppc>>

\* Fault variant: only the flag is set, the condition is never notified.
NotifyConditionFlagOnly(e) ==
  /\ e \in pending /\ e.pc = "notify" /\ ~nqLock
  /\ notified' = TRUE
  /\ Finish(e)
  /\ UNCHANGED <<ring, uwrite, uread, added, spc, waiting, nqLock, runq,
                 waitq, running, nextTask, quota, state, sid, suspends,
                 yields, ppc>>

(* NotifyCondition: under the newQueue_ lock, notify cv_ if waiting_,      *)
(* else set notified_.                                                     *)
NotifyCondition(e) ==
  /\ e \in pending /\ e.pc = "notify" /\ ~nqLock
  /\ IF waiting
     THEN /\ ppc' = IF ppc = "sleep" THEN "wake" ELSE ppc
          /\ UNCHANGED notified
     ELSE /\ notified' = TRUE
          /\ UNCHANGED ppc
  /\ Finish(e)
  /\ UNCHANGED <<ring, uwrite, uread, added, spc, waiting, nqLock, runq,
                 waitq, running, nextTask, quota, state, sid, suspends,
                 yields>>

(***************************************************************************)
(* The whole system.                                                       *)
(***************************************************************************)

ProcessorThread ==
  \/ LoopFront \/ FetchBeforeWait \/ FrontAfterFetch
  \/ WaitConditionCheck \/ WaitConditionSleep \/ WaitConditionWake
  \/ FetchAfterWait
  \/ TaskDone \/ TaskYield \/ SuspendBySelf
  \/ AfterRunnable \/ AfterBlock \/ AfterDone

Waker(e) == WakeupCheck(e) \/ WakeupLocked(e) \/ NotifyCondition(e)

Next ==
  \/ ProcessorThread
  \/ \E t \in Tasks : AddTask(t)
  \/ AddTaskNotify
  \/ \E e \in Entry : Waker(e)

(* Every thread that is running keeps running: the processor thread, the   *)
(* scheduler inside AddTask, and each Wakeup call (the timer fires).       *)
(* Calling AddTask at all is the scheduler's choice.                       *)
Fairness ==
  /\ WF_vars(ProcessorThread)
  /\ WF_vars(AddTaskNotify)
  /\ WF_vars(\E e \in Entry : Waker(e))

Spec == Init /\ [][Next]_vars /\ Fairness

(***************************************************************************)
(* Properties.                                                             *)
(***************************************************************************)

(* runnableQueue_ and waitQueue_ are intrusive lists linked through the    *)
(* task itself: a task is on at most one of them, at most once, and a      *)
(* finished task is on neither once the processor has moved past it.  Two  *)
(* Wakeup calls for one suspension (timer and waker), a stale entry from   *)
(* an earlier suspension, or a Wakeup that lands before the suspending     *)
(* task has switched out would each break this.                            *)
TaskLinkedOnce ==
  /\ IsInjective(runq)
  /\ \A t \in waitq : ~Contains(runq, t)
  /\ \A t \in Tasks :
       state[t] = "done" /\ t # running => t \notin waitq /\ ~Contains(runq, t)

(* WakeupBySelf asserts (assert(ret)) that eraseWithoutLock found the task *)
(* on waitQueue_: every step that takes a task off waitQueue_ and bumps    *)
(* its suspend id -- a Wakeup that won -- finds the task waiting.  With    *)
(* the timer and a waker holding the same entry, only the re-check of the  *)
(* id under the lock makes this hold.                                      *)
WakeupFindsWaitingTask ==
  [][\A t \in Tasks : sid'[t] # sid[t] /\ t \notin waitq' => t \in waitq]_vars

(* A task put on runnableQueue_ (by AddNewTasks or a Wakeup) is            *)
(* eventually run: the processor never stays asleep in WaitCondition while *)
(* a woken task is queued.                                                 *)
RunnableTaskRuns ==
  \A t \in Tasks : Contains(runq, t) ~> running = t

(* Every task handed to AddTask eventually starts running. *)
AddedTaskStarts ==
  \A t \in Tasks : t \in added ~> state[t] # "init"

=============================================================================
