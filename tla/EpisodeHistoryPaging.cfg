CONSTANTS
    None = None
    Clients = {a, b}
    Keys = {k1}
    Slots = {1, 2, 3}
    MaxEntries = 1
    Revalidate = 0
    Limit = 1
    InitialTimes <- Long
    Horizon = 4
    MaxRepairs = 1
    MaxClock = 1
    MaxRequests = 2
    Finished <- MCFinished
SPECIFICATION Spec
SYMMETRY Symmetry
INVARIANTS TypeOK SessionExact SingleFlight
PROPERTIES MonotonicReads NoSpuriousConflict
CHECK_DEADLOCK FALSE
