CONSTANTS
    c1 = c1
    c2 = c2
    l1 = l1
    d1 = d1
    d2 = d2
    Commands = {c1}
    LocalCommands = {}
    NoId = NoId
    Devices = {d1, d2}
    NoDevice = NoDevice
    Target <- TargetTwo
    MaxRecords = 2
    AuthEnabled = FALSE
    MaxFaults = 0
SPECIFICATION Spec
CHECK_DEADLOCK FALSE
INVARIANTS
    AckUpdatesMemoryToo
