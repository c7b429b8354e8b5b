SPECIFICATION Spec
CONSTANTS
  i1 = i1
  i2 = i2
  i3 = i3
  Images = {i1, i2, i3}
  Ref <- RefOf
  Confs = {f1, f2}
  Gens = {g1, g2}
  None = None
  MaxInstalls = 3
SYMMETRY Symmetry
INVARIANTS
  TypeOK
  DoneRunsWanted
  FundedKeyKept
  ConfigNamesWholeKey
