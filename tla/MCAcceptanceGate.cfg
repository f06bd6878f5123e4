SPECIFICATION GateSpec
CONSTANTS
    Gems = {1, 2}
    Exceptional = {2}
    Required = 2
    RateFloor = 70
    RowLimit = 30
    MaxDay = 3
    MaxRuns = 3
INVARIANTS
    AcceptedIsEarned
    ViolationsStick
PROPERTIES
    DryRunsShadowNothing
    EarlyGradesDecideNothing
CHECK_DEADLOCK FALSE
