SPECIFICATION Spec
CONSTANTS
    Gems <- MCGems
    Inputs <- MCInputs
    Config <- MCConfig
    NotificationThreshold = 70
    ExceptionThreshold = 80
    ScoreDelta = 10
    NormalMax = 1
    AbsoluteMax = 2
    ExtraMinScore = 85
INVARIANTS
    NothingReportableIsPruned
    FailedReadsRejectNothing
    ChoresNeverMakeItStrong
    NoScoreAborts
PROPERTIES
    ImplementsReportSelection
CHECK_DEADLOCK FALSE
