CONSTANTS
    Job <- TwoJobs
    MaxJobs = 2
    Modes <- PumpOnly
    Origins <- Interactive
    Entitlements <- Licensed
    Manifests <- Same
    Events <- Remove
    MaxFaults = 1
SPECIFICATION Spec
PROPERTIES
    EventuallySettled
CHECK_DEADLOCK FALSE
