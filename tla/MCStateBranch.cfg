SPECIFICATION Spec
CONSTANTS
    Runs = {r1, r2}
    MaxCommits = 3
    MaxStamps = 2
    MaxBackups = 1
    BranchExists = TRUE
SYMMETRY Symmetry
INVARIANTS
    AcknowledgedRunsSurvive
    CommittedTreesAreWhole
PROPERTIES
    ImplementsLinearHistory
