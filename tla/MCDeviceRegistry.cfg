CONSTANTS
    d1 = d1
    d2 = d2
    d3 = d3
    r1 = r1
    r2 = r2
    r3 = r3
    Devices = {d1, d2, d3}
    SeedList <- TwoSeeds
    Requests = {r1, r2, r3}
    MaxFaults = 2
SPECIFICATION Spec
CHECK_DEADLOCK FALSE
SYMMETRY RequestSymmetry
INVARIANTS
    TypeOK
    MemoryWasSaved
    AcknowledgedIsKept
    AuditTellsTruth
