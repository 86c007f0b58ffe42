CONSTANTS
    Job <- TwoJobs
    MaxJobs = 2
    Modes <- AnyMode
    Origins <- Interactive
    Entitlements <- Licensed
    Manifests <- Same
    Events <- RemoveOrForget
    MaxFaults = 2
SPECIFICATION Safety
INVARIANTS
    TypeOK
    TerminalIsTruthful
PROPERTIES
    NoBlindPost
    LaneSpec
CHECK_DEADLOCK FALSE
