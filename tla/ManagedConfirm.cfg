CONSTANTS
  None = None
  Entry = 10
  Configs <- ConfirmedPhaseExit
  Bars <- MCBars
  Stops = {None}
  MaxBars = 2
SPECIFICATION Spec
INVARIANTS ArmedAsProjected
CHECK_DEADLOCK FALSE
