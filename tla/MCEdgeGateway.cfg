CONSTANTS
    MaxMessages = 4
    Batch = 2
    Retention = 1
    MaxFaults = 3
SPECIFICATION FairSpec
CHECK_DEADLOCK FALSE
INVARIANTS
    TypeOK
    NoCachedMessageLost
    RepeatsComeFromFaults
PROPERTIES
    ForwardsEverything
    ForwardsInOrder
