SPECIFICATION FairSpec
CONSTANTS
    Runs = {r1, r2}
    ParallelRuns = 1
    Tests = {1, 2}
    NumCases = 2
    TestOf <- MCTestOf
INVARIANTS
    SlotsAddUp
PROPERTIES
    OutcomesAreReported
    EveryRunReturns
CHECK_DEADLOCK FALSE
