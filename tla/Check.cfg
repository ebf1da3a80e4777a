SPECIFICATION Spec
CONSTANTS
    Mandates <- MCMandates
    Checkouts <- MCCheckouts
    Histories <- MCHistories
    Replies <- MCReplies
    Partitions <- MCPartitions
    Far <- MCFar
    Rulings <- MCRulings
    Syntheses <- MCSyntheses
    QuestionReplies <- MCQuestionReplies
    CoverageReplies <- MCCoverageReplies
    DefectReplies <- MCDefectReplies
    UnrequestedReplies <- MCUnrequestedReplies
    GroundTruth <- MCGroundTruth
    MatchReplies <- MCMatchReplies
    CompareReplies <- MCCompareReplies
    MaxFilesScanned = 2
    WorkingTree = "working tree"
    Ancestors <- MCAncestors
INVARIANTS
    EveryRequirementIsAccountedFor
    PageLeavesNothingOut
    MergedMeansConfirmed
    NothingStaleIsKept
    CleanIsEarned
    EveryGapHasAdvice
    RegionsAreReal
    ReviewsReadBack
    PageBearsTheHeadline
    MovementIsWatched
    OrderOfRunsIsNothing
    ScoresAreShares
PROPERTIES
    LedgerIsFinal
    EveryCommandEnds
