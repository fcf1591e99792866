\* Store buffering: a store and a new waiter miss each other and the waiter sleeps with its condition met.
CONSTANTS
  Waiters = {w1, w2}
  Setters = {s1, s2}
  Values <- MCValues
  InitValue = 0
  StoreBuffering = TRUE
  MaxStores = 2

SPECIFICATION Spec
PROPERTY NoLostWakeup
