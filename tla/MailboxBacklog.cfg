CONSTANTS
    Mail <- ThreeMails
    BatchLimit = 1
    ReplayBound = 99
    PageLimit = 2
    TicksPerSecond = 1
    Slack = 1
    Retention = 9
    MaxRetention = 9
    CheckTicks = 1
    MaxClock = 0
    MaxFaults = 1
    Events <- Labels
SPECIFICATION Spec
INVARIANTS
    NoneSkipped
    DeletedStaysDeleted
