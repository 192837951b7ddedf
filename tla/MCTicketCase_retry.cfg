SPECIFICATION Spec
CONSTANTS
    Engineers = {e1}
    Managers = {m}
    Agents = {}
    NoUser = nobody
    Scopes <- BoundScopes
    Keys = {k1}
    NoReceipt = noReceipt
    LateInvite = FALSE
    Holds = {}
    MaxCalls = 1
    MaxRevision = 6
INVARIANTS RetryReturnsReceipt
CHECK_DEADLOCK FALSE
