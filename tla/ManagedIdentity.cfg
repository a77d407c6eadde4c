CONSTANTS
  None = None
  Entry = 10
  Configs <- SharedIdentity
  Bars <- MCBars
  Stops = {None}
  MaxBars = 2
SPECIFICATION Spec
INVARIANTS PhaseAsProjected
CHECK_DEADLOCK FALSE
