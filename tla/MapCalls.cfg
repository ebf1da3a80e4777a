SPECIFICATION FairSpec
CONSTANTS
    NoLimit = NoLimit
    DefaultMaxInFlight = 3
    ItemCounts <- MCItemCounts
    Limits <- MCLimits
INVARIANTS
    NothingOutlivesTheStage
    AskedInTurn
PROPERTIES
    ImplementsSerialStage
    StageEnds
CHECK_DEADLOCK FALSE
