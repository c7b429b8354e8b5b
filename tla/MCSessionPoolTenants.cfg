SPECIFICATION Spec
CONSTANTS
  Calls = {c1, c2}
  n1 = n1
  n2 = n2
  Names = {n1, n2}
  None = None
  Requests <- TenantRequests
  MaxEntries = 3
  MaxSessions = 3
  MaxSweeps = 1
  MaxRestarts = 1
  Closers = {"run"}
SYMMETRY Symmetry
INVARIANTS
  AtMostOnce
  RetryElsewhere
  HandedOutOpen
  HoldersTalk
PROPERTIES
  KeepsPromise
