SPECIFICATION Spec
CONSTANTS
    Gems = {1}
    NotificationThreshold = 2
    ExceptionThreshold = 3
    ScoreDelta = 2
    NormalMax = 1
    AbsoluteMax = 2
    ExtraMinScore = 4
    Observations <- MCMany
    MaxRuns = 3
    MaxDays = 1
    ScanLimit = 3
    Faults = {"crash", "db_error"}
INVARIANTS
    BookkeepingNeverConflicts
    OneIssuePerFingerprint
PROPERTY ImplementsAnnouncements
CHECK_DEADLOCK FALSE
