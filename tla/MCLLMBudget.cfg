SPECIFICATION LLMSpec
CONSTANTS
    Repos = {p, q, r}
    Contents = {old, new}
    CandidateCap = 2
    MaxCalls = 3
    MaxBudget = 5
    MaxRetries = 1
    Projections = {1, 2}
    Excess = 1
    MaxRuns = 2
INVARIANTS
    SpendingIsBounded
    RecordedCostIsAnUpperBound
PROPERTIES
    StoredIsNeverPaidAgain
CHECK_DEADLOCK FALSE
