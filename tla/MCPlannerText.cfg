SPECIFICATION Spec
CONSTANTS
  Asks = {a1}
  Served = {read}
  Withheld = {broadcast}
  Nobody = Nobody
  MaxIterations = 2
  MaxToolCalls = 2
  MaxFanout = 2
INVARIANTS
  TextFirst
