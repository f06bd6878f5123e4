SPECIFICATION Spec
CONSTANTS
    Gems = {1, 2}
    NotificationThreshold = 2
    ExceptionThreshold = 3
    ScoreDelta = 2
    NormalMax = 1
    AbsoluteMax = 2
    ExtraMinScore = 4
    Observations <- MCFew
    MaxRuns = 2
    MaxDays = 2
    ScanLimit = 3
    Faults = {"crash"}
INVARIANT RerunCreatesNoDuplicate
CHECK_DEADLOCK FALSE
