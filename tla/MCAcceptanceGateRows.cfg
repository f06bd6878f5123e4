SPECIFICATION GateSpec
CONSTANTS
    Gems = {1, 2}
    Exceptional = {2}
    Required = 2
    RateFloor = 70
    RowLimit = 3
    MaxDay = 2
    MaxRuns = 4
INVARIANTS AcceptedIsEarned EveryReportIsGraded
CHECK_DEADLOCK FALSE
