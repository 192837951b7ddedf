SPECIFICATION Spec
CONSTANTS
    Engineers = {e1}
    Managers = {m}
    Agents = {}
    NoUser = nobody
    Scopes <- BoundScopes
    Keys = {}
    NoReceipt = noReceipt
    LateInvite = FALSE
    Holds = {}
    MaxCalls = 0
    MaxRevision = 8
INVARIANTS ResolvedLeavesDispatch
CHECK_DEADLOCK FALSE
