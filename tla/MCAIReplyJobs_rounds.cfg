CONSTANTS
    Conversations = {c1}
    Workers = {w1, w2}
    BatchLimit = 2
    MaxRetries = 2
    RunPrefixes = {"ai_reply"}
    DeskMoves = {}
    MaxJobs = 2
    MaxRounds = 3
    MaxFaults = 0
SPECIFICATION Spec
INVARIANTS
    RoundsCountReplies
CHECK_DEADLOCK FALSE
