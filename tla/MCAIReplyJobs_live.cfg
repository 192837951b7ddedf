CONSTANTS
    Conversations = {c1}
    Workers = {w1, w2}
    BatchLimit = 2
    MaxRetries = 2
    RunPrefixes = {"ai_reply"}
    DeskMoves = {}
    MaxJobs = 2
    MaxRounds = 1
    MaxFaults = 1
SPECIFICATION FairSpec
PROPERTIES
    EventuallySettled
CHECK_DEADLOCK FALSE
