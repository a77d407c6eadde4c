CONSTANTS
    None = None
    Clients = {a, b}
    Keys = {k1, k2}
    Slots = {1, 2, 3}
    MaxEntries = 1
    Revalidate = 0
    Limit = 1
    InitialTimes <- Early
    Horizon = 3
    MaxRepairs = 0
    MaxClock = 1
    MaxRequests = 2
    Finished <- MCFinished
SPECIFICATION FairSpec
INVARIANTS LruSound LockedByRefresher PagesOwnVersion
PROPERTIES EveryRequestEnds
CHECK_DEADLOCK FALSE
