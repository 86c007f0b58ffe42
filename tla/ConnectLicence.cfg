CONSTANTS
    Job <- TwoJobs
    MaxJobs = 1
    Modes <- PumpAndJoin
    Origins <- AnyOrigin
    Entitlements <- AnyLicence
    Manifests <- AnyManifest
    Events <- Forget
    MaxFaults = 1
SPECIFICATION Safety
INVARIANTS
    LaneExclusive
PROPERTIES
    NoBlindPost
    ProgressIsKept
CHECK_DEADLOCK FALSE
