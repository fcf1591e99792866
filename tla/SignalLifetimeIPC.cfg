\* IPC signal: the last Release races a duplicateIpc through the registry,
\* and a duplication reads the shared block before taking ipcLock_.
CONSTANTS
  Threads = {t1, t2}
  Creator = t1
  IPCModes = {TRUE}
  IPCThreads = {t1, t2}
  Values <- MCValues
  MaxHandles = 2

SPECIFICATION Spec

INVARIANT NoUseAfterFree

CHECK_DEADLOCK FALSE
