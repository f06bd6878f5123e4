SPECIFICATION Spec
CONSTANTS
    Gems <- MCGems
    Inputs <- MCInputs
    Config <- MCGenerousConfig
    NotificationThreshold = 70
    ExceptionThreshold = 80
    ScoreDelta = 10
    NormalMax = 1
    AbsoluteMax = 2
    ExtraMinScore = 85
INVARIANT NoScoreAborts
CHECK_DEADLOCK FALSE
