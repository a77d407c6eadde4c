CONSTANTS
    None = None
    Clients = {a, b}
    Keys = {k1, k2}
    Slots = {1, 2, 3}
    MaxEntries = 1
    Revalidate = 0
    Limit = 1
    InitialTimes <- Early
    Horizon = 2
    MaxRepairs = 1
    MaxClock = 0
    MaxRequests = 2
    Finished <- MCFinished
SPECIFICATION FairSpec
PROPERTIES MonotonicReads
CHECK_DEADLOCK FALSE
