\* Three WaitAnySignal callers: two watch the same two InterruptSignals in
\* opposite orders, the third a signal created as a DefaultSignal or as an
\* InterruptSignal; signals are created in any order from a device with two
\* events; one store or destroy.
CONSTANTS
  Waiters = {"w1", "w2", "w3"}
  Signals = {"s1", "s2", "s3"}
  Agents = {"cpu", "gpu"}
  CpuAgents = {"cpu"}
  CreateArgs <- MCCreateArgs
  CreatedAfter <- MCCreatedAfter
  UseInterruptWait = TRUE
  DeviceEvents = 2
  Watch <- MCWatch
  Cond <- MCCond
  Cmp <- MCCmp
  Values <- MCValues
  InitValue = 1
  FiniteTimeout = TRUE
  MaxStores = 1
SPECIFICATION Spec
INVARIANT OneSleeperPerEvent
INVARIANT EventOwnedOnce
INVARIANT SleepEventsOwned
PROPERTY NoLostWakeup
CHECK_DEADLOCK FALSE
