CONSTANTS
    b1 = b1
    l1 = l1
    Batteries = {b1}
    Loads = {l1}
    Full = 1
    Nets <- NetsFew
    Policies <- NormalOrReserve
    Configured <- Normal
    Deadband = 10
    Cooldown = 2
    MaxFaults = 1
SPECIFICATION FairSpec
INVARIANTS
    TypeOK
    ShedWasNonCritical
    NoShedAfterDispatch
    CooldownIsEarned
PROPERTIES
    SurplusIsCharged
    RateLimit
