CONSTANTS
  NaN = NaN
  None = None
  Unit = 12
  Timeframe = 2
  AtrPeriod = 2
  Episodes = {}
  Contexts = {}
  Tolerance = 4
  BounceTiers <- MCTiers
  Scale = 2
  Specs <- MCWeekSpecs
  Shapes <- MCShapes
  Starts = {3}
  Reach = 1
  MinBars = 7
  MaxBars = 8
SPECIFICATION Spec
INVARIANTS LiveAsFull
CHECK_DEADLOCK FALSE
