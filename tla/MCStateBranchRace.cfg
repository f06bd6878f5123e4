SPECIFICATION Spec
CONSTANTS
    Runs = {r1, r2}
    MaxCommits = 2
    MaxStamps = 0
    MaxBackups = 1
    BranchExists = FALSE
PROPERTY NeverOverwritten
