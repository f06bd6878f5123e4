SPECIFICATION Spec
CONSTANTS
    Templates <- MCTemplates
    Areas <- MCAreas
    Bands = 2
    Terms = 2
    Groups <- MCGroups
    Days <- MCDays
    Repos <- MCRepos
    RawBudget = 2
    PageSize = 2
    Sources = {1, 2}
    MaxSeeds = 2
    MaxPerSource = 1
    MaxTotal = 1
    MaxLinks = 2
INVARIANTS
    BudgetHolds
    StopsAreTrue
    RelatedAreNew
PROPERTIES
    EveryExplorationEnds
CHECK_DEADLOCK FALSE
