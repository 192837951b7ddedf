CONSTANTS
    Participants = {guest, engineer}
    Registered = {engineer}
    Handlers = {h1, h2}
    Reorder = FALSE
    Sweeps = TRUE
    MaxAttempts = 2
    MaxClaims = 2
    MaxEvents = 3
    MaxClock = 3
    MaxFaults = 1
SPECIFICATION Spec
INVARIANTS
    PresenceFollowsRoom
    ProcessedWasApplied
    StartedBeforeJoins
PROPERTIES
    EndedIsFinal
CONSTRAINT OverlapBound
SYMMETRY HandlerSymmetry
CHECK_DEADLOCK FALSE
