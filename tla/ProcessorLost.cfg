\* AddTask's unlocked notify races WaitCondition.
CONSTANTS
  Tasks = {t1, t2}
  NoTask = NoTask
  Wakers = {timer, waker}
  UpSize = 2
  MaxSuspends = 1
  MaxYields = 1

SPECIFICATION Spec

PROPERTY AddedTaskStarts
CHECK_DEADLOCK FALSE
