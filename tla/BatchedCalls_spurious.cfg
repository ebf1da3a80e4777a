SPECIFICATION FairSpecCalls
CONSTANTS
    Callers = {c1, c2}
    Requests = {r1, r2}
    None = None
    BatchLimits = {1, 2}
    MaxAttempts = 2
    MaxBatches = 4
PROPERTIES
    NoResultMeansUnmentioned
CHECK_DEADLOCK FALSE
