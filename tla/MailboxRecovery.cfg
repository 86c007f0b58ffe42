CONSTANTS
    Mail <- TwoMails
    BatchLimit = 9
    ReplayBound = 1
    PageLimit = 1
    TicksPerSecond = 2
    Slack = 1
    Retention = 2
    MaxRetention = 2
    CheckTicks = 1
    MaxClock = 4
    MaxFaults = 1
    Events <- Expire
SPECIFICATION Spec
INVARIANTS
    TypeOK
    NoneSkipped
    DeletionInv
