SPECIFICATION Spec
CONSTANTS
    Gems = {1, 2}
    NotificationThreshold = 2
    ExceptionThreshold = 3
    ScoreDelta = 2
    NormalMax = 1
    AbsoluteMax = 2
    ExtraMinScore = 4
    Observations <- MCFew
    MaxRuns = 2
    MaxDays = 2
    ScanLimit = 2
    Faults = {"crash", "lost_answer", "db_error"}
INVARIANTS
    TypeOK
    HistoryMatchesIssues
    SuccessIsComplete
CHECK_DEADLOCK FALSE
