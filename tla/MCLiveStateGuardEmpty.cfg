SPECIFICATION Spec
CONSTANTS
    Jobs = {j1}
    MaxRuns = 3
    MaxBackups = 3
    Carriers = {}
    StartsEmpty = TRUE
INVARIANT OnlyDamageIsRefused
