CONSTANTS
    None = None
    Clients = {a}
    Keys = {k1}
    Slots = {1, 2}
    MaxEntries = 1
    Revalidate = 1
    Limit = 1
    InitialTimes <- Early
    Horizon = 2
    MaxRepairs = 1
    MaxClock = 3
    MaxRequests = 2
    Finished <- MCFinished
SPECIFICATION FairSpec
PROPERTIES RepairSeenInTime
CHECK_DEADLOCK FALSE
