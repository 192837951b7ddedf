CONSTANTS
    Events = {e1}
    Pollers = {p1, p2}
    Publishers = {}
    RetryLimits = {2}
    PublishRetries = 2
    BatchLimit = 1
    Minute = 1
    SlowDispatch = TRUE
    AgeCap = 1
    MaxRequests = 1
    MaxFaults = 0
SPECIFICATION Spec
PROPERTIES
    SettledIsFinal
CHECK_DEADLOCK FALSE
