SPECIFICATION Spec
CONSTANTS
    Engineers = {e1}
    Managers = {m}
    Agents = {}
    NoUser = nobody
    Scopes <- BoundScopes
    Keys = {}
    NoReceipt = noReceipt
    LateInvite = TRUE
    Holds = {}
    MaxCalls = 0
    MaxRevision = 4
PROPERTIES TerminalStatusIsFinal
CHECK_DEADLOCK FALSE
