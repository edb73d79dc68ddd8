CONSTANTS
    MaxMessages = 1
    Batch = 1
    Retention = 1
    MaxFaults = 1
SPECIFICATION FairSpec
CHECK_DEADLOCK FALSE
PROPERTIES
    ConnectedGetsSubscribed
