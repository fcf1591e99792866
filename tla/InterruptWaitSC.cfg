\* A store drains before its setter loads waiting_ (sequential consistency):
\* no wake-up is lost, and only the first waiter sleeps.
CONSTANTS
  Waiters = {w1, w2}
  Setters = {s1, s2}
  Values <- MCValues
  InitValue = 0
  StoreBuffering = FALSE
  MaxStores = 2

SPECIFICATION Spec
INVARIANT TypeOK
INVARIANT AtMostOneSleeper
PROPERTY NoLostWakeup
