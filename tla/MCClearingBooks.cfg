SPECIFICATION Spec
CONSTANTS
  Malformed = Malformed
  Books <- SmallBooks
  Sizes = {0, 1, 3, 5, Malformed}
  Steps = 2
  MaxLevels = 3
  LevelPrices = {0, 1, 2, 5, Malformed}
  LevelSizes = {0, 1, 3, Malformed}
INVARIANTS
  TypeOK
  BestFill
  ThinBookTold
  WorstIsMarginal
  SlippageCosts
