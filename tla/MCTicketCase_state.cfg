SPECIFICATION Spec
CONSTANTS
    Engineers = {e1}
    Managers = {m}
    Agents = {}
    NoUser = nobody
    Scopes <- StateScopes
    Keys = {}
    NoReceipt = noReceipt
    LateInvite = FALSE
    Holds = {"meeting", "child"}
    MaxCalls = 0
    MaxRevision = 5
INVARIANTS TypeOK ResolutionRecorded ResumeOnlyWhileWaiting OfferedStepsSucceed CaseCanAdvance
PROPERTIES TerminalStatusIsFinal
CONSTRAINT OneHold
CHECK_DEADLOCK FALSE
