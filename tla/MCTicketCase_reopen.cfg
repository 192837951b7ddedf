SPECIFICATION Spec
CONSTANTS
    Engineers = {e1}
    Managers = {m}
    Agents = {}
    NoUser = nobody
    Scopes <- CommandScopes
    Keys = {}
    NoReceipt = noReceipt
    LateInvite = FALSE
    Holds = {}
    MaxCalls = 0
    MaxRevision = 8
INVARIANTS OfferedReopenSucceeds
CHECK_DEADLOCK FALSE
