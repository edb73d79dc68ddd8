\* Readings, events and a status, with repeats, old signatures and two faults.
CONSTANTS
    d1 = d1
    d2 = d2
    Devices = {d1, d2}
    Messages <- Mixed
    Keys = {d1, d2}
    MaxSkew = 1
    OnlineTTL = 1
    MaxEvents = 2
    MaxClock = 4
    MaxRepeats = 1
    MaxFaults = 2
SPECIFICATION FairSpec
CHECK_DEADLOCK FALSE
INVARIANTS
    RedisFollowsMemory
    ReadingsReachInflux
    OnlineIsRecent
    EventListMatchesTable
PROPERTIES
    Resubscribes
