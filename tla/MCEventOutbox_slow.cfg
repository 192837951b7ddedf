CONSTANTS
    Events = {e1}
    Pollers = {p1, p2}
    Publishers = {g1}
    RetryLimits = {1, 3}
    PublishRetries = 2
    BatchLimit = 2
    Minute = 1
    SlowDispatch = TRUE
    AgeCap = 4
    MaxRequests = 1
    MaxFaults = 1
SPECIFICATION FairSpec
INVARIANTS
    OpenRowsCanBeClaimed
    PublishedWasDelivered
    DeadAfterMaxRetries
PROPERTIES
    EventuallySettled
CHECK_DEADLOCK FALSE
