SPECIFICATION Spec
CONSTANTS
    Tests = {1, 2, 3, 4}
    Files = {1, 2, 3}
    FileOf <- MCFileOf
    Path <- MCPath
    Candidates = {0, 2}
    Floor = 1
    Num = 1
    Den = 2
INVARIANT StillPassedMeansPassed
CHECK_DEADLOCK FALSE
