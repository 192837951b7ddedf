CONSTANTS
    Events = {e1, e2}
    Pollers = {p1, p2}
    Publishers = {}
    RetryLimits = {2}
    PublishRetries = 2
    BatchLimit = 1
    Minute = 2
    SlowDispatch = FALSE
    AgeCap = 2
    MaxRequests = 2
    MaxFaults = 1
SPECIFICATION Spec
INVARIANTS
    OnePublisher
    ReplayIsServed
PROPERTIES
    ImplementsDelivery
CHECK_DEADLOCK FALSE
