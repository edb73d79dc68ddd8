CONSTANTS
    l1 = l1
    LoadSeq <- OneLoad
    LoadPower <- Power
    PVPowers <- Curve
    BatteryPower = 15
    HardMin = 1
    Low = 2
    Recover = 3
    HardMax = 4
    Start = 3
    Deadband = 10
    Sheddable = {l1}
    Policy <- Limits
    Cooldown = 1
    MaxInbox = 1
    MaxOrders = 1
    MaxFaults = 1
SPECIFICATION Spec
INVARIANTS
    LastEventIsTrue
PROPERTIES
    SiteIsServed
    Settles
    DischargeEnds
