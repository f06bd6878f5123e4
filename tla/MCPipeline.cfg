SPECIFICATION Spec
CONSTANTS
    MaxAdmitted = 5
    MaxRelated = 4
    LightBudget = 4
    DeepBudget = 3
    LLMCap = 2
    DryRun = FALSE
INVARIANTS
    BudgetsHold
    TruncatedIsNeverPublished
    SuccessIsEarned
PROPERTIES
    EveryRunEnds
CHECK_DEADLOCK FALSE
