CONSTANTS
    Message <- TwoMessages
    BodyLimits <- OneLimit
    Batch = 1
    MaxRequests = 0
    MaxFaults = 0
    MaxFailures = 1
SPECIFICATION Spec
PROPERTIES
    EventuallySettled
INVARIANTS
    IInv
