SPECIFICATION Spec
CONSTANTS
    Gems = {1}
    NotificationThreshold = 2
    ExceptionThreshold = 3
    ScoreDelta = 2
    NormalMax = 1
    AbsoluteMax = 2
    ExtraMinScore = 4
    Observations <- MCMany
    MaxRuns = 3
    MaxDays = 3
    ScanLimit = 3
    Faults = {}
INVARIANT NothingNewIsNotRenotified
CHECK_DEADLOCK FALSE
