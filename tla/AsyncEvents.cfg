\* Handlers on two user signals with the events thread running, and its shutdown.
CONSTANTS
  Signals = {"s1", "s2"}
  EventsThread = TRUE
  MaxRegs = 3
  MaxStores = 2
SPECIFICATION Spec
INVARIANT RetainsOwned
PROPERTY RegistrationsMerged
CHECK_DEADLOCK FALSE
