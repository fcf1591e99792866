\* A signal created with or without SIGNAL_IPC: handles, waits and
\* duplications by three threads, two of which use an IPC signal.
CONSTANTS
  Threads = {t1, t2, t3}
  Creator = t1
  IPCModes = {FALSE, TRUE}
  IPCThreads = {t1, t2}
  Values <- MCValues
  MaxHandles = 2

SPECIFICATION Spec

INVARIANT TypeOK
INVARIANT NoUseAfterFreeLocal
INVARIANT NoLeak
PROPERTY WaiterReturnsOnDestroy

\* Once every handle is destroyed and the object deleted, no call can start.
CHECK_DEADLOCK FALSE
