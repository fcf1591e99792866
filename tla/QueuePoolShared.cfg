\* Two threads on the same agent: a queue one thread is releasing can be handed to the other.
CONSTANTS
  Threads = {"t1", "t2"}
  Agents = {"a1", "a2"}
  AgentOf <- MCSharedAgent
  Hints <- MCHints
  QueueMaxSize = 4
  MaxAcquires = 4
SPECIFICATION Spec
INVARIANT NoUseOfDestroyedQueue
CHECK_DEADLOCK FALSE
