SPECIFICATION Spec
CONSTANTS
  Calls = {c1, c2}
  n1 = n1
  n2 = n2
  Names = {n1, n2}
  None = None
  Requests <- IdentityRequests
  MaxEntries = 3
  MaxSessions = 3
  MaxSweeps = 0
  MaxRestarts = 1
  Closers = {"run", "app"}
SYMMETRY Symmetry
INVARIANTS
  Isolation
  OpenSessionsOwned
  NoEntryAfterClose
