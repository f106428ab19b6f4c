CONSTANTS
    j1 = j1
    j2 = j2
    d1 = d1
    d2 = d2
    v1 = v1
    v2 = v2
    Jobs = {j1, j2}
    Dispatchers = {d1, d2}
    Deployments = {v1}
    FirstDeployment = v1
    Off = Off
    MaxAttempts = 2
    LeaseTicks = 1
    MaxDispatches = 1
    MaxQueued = 1
    MaxCasRetries = 4
    Horizon = 3
    MaxStepBacks = 1
    MaxActivations = 0
    MaxFailures = 1
    Apps = {a1, a2}
    CallsOf = {1, 2}
    MaxDaemons = 3
    MaxShellOps = 4
SPECIFICATION MCSpec
SYMMETRY Symmetry
CONSTRAINT OneOfThem
CHECK_DEADLOCK FALSE
INVARIANTS
    TokensUnique
    LateNeverPublished
    BoundsHold
    NoOrphans
    OneBackendKept
