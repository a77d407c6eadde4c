CONSTANTS
    None = None
    Sides = {"long", "short"}
    FirstBars <- MCFirstBars
    Bars <- MCBars
    Window = 1
    BreakBars = 1
    CensorBefore = 2
    MaxBars = 8
SPECIFICATION Spec
INVARIANTS TypeOK RangesAsTraded EpisodesAsDefined
PROPERTIES PastUnchanged
CHECK_DEADLOCK FALSE
