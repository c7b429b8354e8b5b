SPECIFICATION AFairSpec
CONSTANTS
  Calls = {c1, c2}
  n1 = n1
  c1 = c1
  c2 = c2
  Names = {n1}
  None = None
  Requests <- TwoCalls
  MaxEntries = 2
  MaxSessions = 1
  MaxSweeps = 1
  MaxRestarts = 0
  Closers = {"run", "app"}
INVARIANTS
  ATypeOK
PROPERTIES
  ExitComes
  CallsReturn
