\* Two tasks, each may yield once and suspend once; the timer and a waker
\* both hold every suspend entry.
CONSTANTS
  Tasks = {t1, t2}
  NoTask = NoTask
  Wakers = {timer, waker}
  UpSize = 2
  MaxSuspends = 1
  MaxYields = 1

SPECIFICATION Spec

INVARIANT TypeOK
INVARIANT TaskLinkedOnce
PROPERTY WakeupFindsWaitingTask
PROPERTY RunnableTaskRuns
\* With no task left the processor thread sleeps in cv_.wait for good.
CHECK_DEADLOCK FALSE
