SPECIFICATION Spec
CONSTANTS
    Engineers = {e1, e2}
    Managers = {m}
    Agents = {}
    NoUser = nobody
    Scopes <- UnboundScopes
    Keys = {}
    NoReceipt = noReceipt
    LateInvite = FALSE
    Holds = {}
    MaxCalls = 0
    MaxRevision = 8
INVARIANTS OfferedCancelSucceeds
CHECK_DEADLOCK FALSE
