CONSTANTS
    Mail <- TwoMails
    BatchLimit = 1
    ReplayBound = 99
    PageLimit = 1
    TicksPerSecond = 1
    Slack = 9
    Retention = 9
    MaxRetention = 9
    CheckTicks = 1
    MaxClock = 0
    MaxFaults = 1
    Events <- AllEvents
SPECIFICATION Spec
PROPERTIES
    EventuallyCaptured
