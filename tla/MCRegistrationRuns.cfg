SPECIFICATION Spec
CONSTANTS
  Runs = {r1, r2}
  Endpoints = {e1, e2}
  Cards = {k1, k2}
  Advertises <- OwnURL
  e1 = e1
  e2 = e2
  k1 = k1
  k2 = k2
  Texts = {t1, t2}
  None = None
  MaxForeign = 1
  MaxDeploys = 1
SYMMETRY Symmetry
INVARIANTS
  TypeOK
  PriceKept
  PointsToItself
  OneAgent
PROPERTIES
  EffectIsWanted
  PatientLeavesPrice
