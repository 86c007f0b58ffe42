CONSTANTS
    Mail <- ThreeMails
    BatchLimit = 1
    ReplayBound = 99
    PageLimit = 2
    TicksPerSecond = 1
    Slack = 1
    Retention = 9
    MaxRetention = 9
    CheckTicks = 1
    MaxClock = 2
    MaxFaults = 0
    Events <- Expire
SPECIFICATION Spec
INVARIANTS
    NoneSkipped
