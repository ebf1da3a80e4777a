SPECIFICATION FairSpecCalls
CONSTANTS
    Callers = {c1, c2}
    Requests = {r1, r2}
    None = None
    BatchLimits = {1, 2}
    MaxAttempts = 2
    MaxBatches = 4
INVARIANTS
    NoCallIsStranded
    AnswerIsForTheAsker
PROPERTIES
    SettledOnce
    EveryCallEnds
CHECK_DEADLOCK FALSE
