CONSTANTS
  Base = 1
  Length = 5
  Sizes <- MCSizes
  Clients = {c1, c2, c3}
  None = None
SPECIFICATION Spec
INVARIANT TypeOK
INVARIANT HeapWellFormed
INVARIANT TotalFreeExact
INVARIANT BlocksOwned
PROPERTY AllocatorSpec
