CONSTANTS
    None = None
    Sides = {"long", "short"}
    FirstBars <- MCFirstBars
    Bars <- MCBars
    Window = 1
    BreakBars = 1
    CensorBefore = 1
    MaxBars = 6
SPECIFICATION Spec
INVARIANTS FirstWaveTie
CHECK_DEADLOCK FALSE
