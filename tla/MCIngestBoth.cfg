\* Events without identifiers, with no fault.
CONSTANTS
    d1 = d1
    d2 = d2
    Devices = {d1, d2}
    Messages <- Events
    Keys = {}
    MaxSkew = 1
    OnlineTTL = 1
    MaxEvents = 2
    MaxClock = 1
    MaxRepeats = 0
    MaxFaults = 0
SPECIFICATION Spec
CHECK_DEADLOCK FALSE
INVARIANTS
    EventsReachBoth
