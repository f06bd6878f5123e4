SPECIFICATION Spec
CONSTANTS
    Jobs = {j1, j2}
    MaxRuns = 3
    MaxBackups = 1
    Carriers = {j1}
    StartsEmpty = FALSE
INVARIANTS
    PublishedHistoryGrows
    PublishedStatesAreWhole
    BackupsAreThePreviousStates
    NothingLostWhileStaging
    RefusalsAreExplained
