SPECIFICATION Spec
CONSTANTS
    Jobs = {j1}
    MaxRuns = 3
    MaxBackups = 3
    Carriers = {j1}
    StartsEmpty = FALSE
INVARIANT OnlyDamageIsRefused
