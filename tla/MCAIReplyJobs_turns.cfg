CONSTANTS
    Conversations = {c1}
    Workers = {w1, w2}
    BatchLimit = 2
    MaxRetries = 2
    RunPrefixes = {"ai_reply"}
    DeskMoves = {"handoff", "human", "closed"}
    MaxJobs = 2
    MaxRounds = 1
    MaxFaults = 1
SPECIFICATION Spec
INVARIANTS
    TypeOK
    TurnsInOrder
    FailedAfterMaxRetries
    SettledTurnWasAnswered
PROPERTIES
    SettledIsFinal
SYMMETRY WorkerSymmetry
CHECK_DEADLOCK FALSE
