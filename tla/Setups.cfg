CONSTANTS
  None = None
  Bars <- MCBars
  MaxBounces = 2
  TouchLookback = 2
  StartConfirm = 2
  BreakConfirm = 2
  Lookback = 2
  ActiveBars = 2
  WidthLookback = 2
  MinCurrent = 2
  MinRecent = 3
  MaxBars = 7
SPECIFICATION Spec
INVARIANTS TypeOK BounceBudget SetupsAsDefined
CHECK_DEADLOCK FALSE
