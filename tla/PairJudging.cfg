SPECIFICATION FairSpec
CONSTANTS
    d1 = d1
    d2 = d2
    x = x
    y = y
    Defects = {d1, d2}
    Tests = {1, 2, 3}
    Criteria = {criterion}
    CriterionOf <- MCCriterionOf
    Texts = {x, y}
    Rank <- MCRank
    Reviews <- MCReviews
    Widths = {1}
    Stops = {NoStop, 1, 2}
    NoStop = NoStop
    Replies = {100, 300, 900, 1100}
    JevFailsAt = 340
    JevSurvivesAt = 240
    Priors <- MCPriors
    MaxPrefiltered = 1
INVARIANTS
    EveryPairIsRecordedOnce
    SavingsMoveNoRating
    ExecutionIsVerified
    ReportAccountsForEveryPair
    OneAnswerPerQuestion
PROPERTIES
    EveryReviewIsRated
CHECK_DEADLOCK FALSE
