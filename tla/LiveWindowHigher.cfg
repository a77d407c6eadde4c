CONSTANTS
  NaN = NaN
  None = None
  Unit = 12
  Timeframe = 2
  AtrPeriod = 2
  Episodes = {}
  Contexts = {}
  Tolerance = 4
  BounceTiers <- MCTiers
  Scale = 2
  Specs <- MCRsiSpecs
  Shapes <- MCShapes
  Starts = {2}
  Reach = 1
  MinBars = 9
  MaxBars = 9
SPECIFICATION Spec
INVARIANTS LookbackBacked
CHECK_DEADLOCK FALSE
