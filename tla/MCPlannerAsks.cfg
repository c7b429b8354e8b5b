SPECIFICATION FairSpec
CONSTANTS
  Asks = {a1, a2}
  Served = {read}
  Withheld = {broadcast}
  Nobody = Nobody
  MaxIterations = 3
  MaxToolCalls = 2
  MaxFanout = 2
INVARIANTS
  TypeOK
  Boundary
  AnswersInOrder
  OvershootBounded
  Audited
PROPERTIES
  LoadedOnce
  AsksGetOn
  AsksEnd
