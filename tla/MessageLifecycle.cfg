CONSTANTS
    Message <- OneMessage
    BodyLimits <- TwoLimits
    Batch = 1
    MaxRequests = 3
    MaxFaults = 1
    MaxFailures = 2
SPECIFICATION Spec
INVARIANTS
    TypeOK
    InFlightPinned
    SameRequestSameContent
    AckedIsOver
    NoticesBounded
    IInv
PROPERTIES
    NoNoticeOfRemoved
    EventuallySettled
