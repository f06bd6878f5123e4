SPECIFICATION Spec
CONSTANTS
    Repos = {1, 2}
    Targets = {1, 2}
    Pinned = {1}
    Bundles <- MCBundles
    Packets <- MCPackets
    MaxRetries = 1
    MaxBudget = 3
    Costs = {1}
    AnswerLimit = 1
    MaxReplays = 1
INVARIANT EveryTargetCanBeJudged
CHECK_DEADLOCK FALSE
