CONSTANTS
    Keys = {k1}
    Workers = {w1, w2}
    Senders = {s1, s2}
    MaxDeliveries = 2
    MaxRetries = 1
    MaxJobs = 1
    MaxFaults = 1
SPECIFICATION Spec
INVARIANTS
    ReportedAsSent
CHECK_DEADLOCK FALSE
