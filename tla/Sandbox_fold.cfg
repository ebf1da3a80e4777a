SPECIFICATION Spec
CONSTANTS
    Runs = {r1}
    ParallelRuns = 1
    Tests = {1, 2}
    NumCases = 2
    TestOf <- MCTestOf
INVARIANTS
    PassedMeansEveryCase
CHECK_DEADLOCK FALSE
