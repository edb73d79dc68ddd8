\* The instance of MCDispatch.
CONSTANTS
    d1 = d1
    d2 = d2
    Configs <- SomeConfigs
    Summaries <- SomeSummaries
    Nows <- SomeNows
    Shapes <- SomeShapes
    Devices = {d1, d2}
    Requests <- SomeRequests
    Registries <- SomeRegistries
    MaxChanges = 1
SPECIFICATION DSpec
INVARIANT
    DeviationIsWithinRequest
