CONSTANTS
    c1 = c1
    c2 = c2
    l1 = l1
    d1 = d1
    d2 = d2
    Commands = {c1, c2}
    LocalCommands = {l1}
    NoId = NoId
    Devices = {d1, d2}
    NoDevice = NoDevice
    Target <- TargetD
    MaxRecords = 2
    AuthEnabled = TRUE
    MaxFaults = 1
SPECIFICATION FairSpec
CHECK_DEADLOCK FALSE
INVARIANTS
    TypeOK
    PgTruthful
    MemoryListsOnce
    DoneIsAudited
    OutcomeOnlyInMemoryIsLogged
PROPERTIES
    OutcomeIsFinal
    ImplementsAudit
    OutcomeReachesPostgres
