CONSTANTS
    Job <- TwoJobs
    MaxJobs = 2
    Modes <- AnyMode
    Origins <- Interactive
    Entitlements <- Licensed
    Manifests <- AnyManifest
    Events <- Forget
    MaxFaults = 0
SPECIFICATION Safety
INVARIANTS
    TerminalIsTruthful
CHECK_DEADLOCK FALSE
