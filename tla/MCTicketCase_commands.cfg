SPECIFICATION Spec
CONSTANTS
    Engineers = {e1}
    Managers = {m}
    Agents = {}
    NoUser = nobody
    Scopes <- StrictCommandScopes
    Keys = {k1, k2}
    NoReceipt = noReceipt
    LateInvite = FALSE
    Holds = {}
    MaxCalls = 2
    MaxRevision = 4
INVARIANTS ConflictIsFinal RetryNeverConflicts
PROPERTIES StaleNeverApplied
CHECK_DEADLOCK FALSE
