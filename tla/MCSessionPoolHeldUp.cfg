SPECIFICATION FairSpec
CONSTANTS
  Calls = {c1, c2}
  n1 = n1
  n2 = n2
  Names = {n1, n2}
  None = None
  Requests <- TwoTenants
  MaxEntries = 4
  MaxSessions = 4
  MaxSweeps = 1
  MaxRestarts = 0
  Closers = {}
PROPERTIES
  LookupNotHeldUp
