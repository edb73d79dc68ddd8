\* Every command in every mode, the clock wrapping several times, two faults.
SPECIFICATION FairSpec
CONSTANTS
    Wrap = 5
    Interval = 3
    MaxRound = 2
    MaxInbox = 2
    MaxFaults = 2
INVARIANTS
    TypeOK
    DoesWhatItAcknowledged
PROPERTIES
    TelemetryKeepsComing
    TimerNeverEarly
