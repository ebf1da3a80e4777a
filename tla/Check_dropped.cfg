SPECIFICATION Spec
CONSTANTS
    Mandates <- MCMandates
    Checkouts <- MCCheckouts
    Histories <- MCGrown
    Replies <- MCOneSlug
    Partitions <- MCPartitions
    Far <- MCFar
    Rulings <- MCRulings
    Syntheses <- MCSyntheses
    QuestionReplies <- MCQuestionReplies
    CoverageReplies <- MCCoverageReplies
    DefectReplies <- MCDefectReplies
    UnrequestedReplies <- MCUnrequestedReplies
    GroundTruth <- MCGroundTruth
    MatchReplies <- MCMatchReplies
    CompareReplies <- MCCompareReplies
    MaxFilesScanned = 2
    WorkingTree = "working tree"
    Ancestors <- MCAncestors
PROPERTIES
    NothingIsDropped
