CONSTANTS
    Participants = {guest}
    Registered = {}
    Handlers = {h1}
    Reorder = TRUE
    Sweeps = FALSE
    MaxAttempts = 2
    MaxClaims = 2
    MaxEvents = 3
    MaxClock = 3
    MaxFaults = 0
SPECIFICATION Spec
INVARIANTS
    PresenceFollowsRoom
CHECK_DEADLOCK FALSE
