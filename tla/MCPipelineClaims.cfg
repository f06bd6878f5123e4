SPECIFICATION Spec
CONSTANTS
    MaxAdmitted = 4
    MaxRelated = 3
    LightBudget = 3
    DeepBudget = 2
    LLMCap = 1
    DryRun = FALSE
INVARIANTS LightAnalysesWithinBudget RedIsNotASuccess YellowStopsExploration
CHECK_DEADLOCK FALSE
