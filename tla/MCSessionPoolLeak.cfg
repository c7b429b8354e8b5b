SPECIFICATION Spec
CONSTANTS
  Calls = {c1, c2}
  n1 = n1
  n2 = n2
  Names = {n1, n2}
  None = None
  Requests <- ReadRequests
  MaxEntries = 4
  MaxSessions = 4
  MaxSweeps = 1
  MaxRestarts = 0
  Closers = {}
SYMMETRY Symmetry
INVARIANTS
  NoLeakedSession
