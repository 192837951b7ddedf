CONSTANTS
    Keys = {k1, k2}
    Executors = {e1, e2}
    Results = {t1, t2, t3}
    Tickets = {t1, t2, t3}
    TicketKeys = {k1}
    PromptKeys = {k1}
    MaxAttempt = 4
    MaxFaults = 3
SPECIFICATION Spec
INVARIANTS
    ResultsAgree
    AnnouncedIffSucceeded
    NoConcurrentExecution
PROPERTIES
    SucceededIsFinal
SYMMETRY EffectSymmetry
CHECK_DEADLOCK FALSE
