CONSTANTS
    j1 = j1
    j2 = j2
    d1 = d1
    d2 = d2
    v1 = v1
    v2 = v2
    Jobs = {j1}
    Dispatchers = {d1}
    Deployments = {v1, v2}
    FirstDeployment = v1
    Off = Off
    MaxAttempts = 2
    LeaseTicks = 2
    MaxDispatches = 1
    MaxQueued = 1
    MaxCasRetries = 4
    Horizon = 2
    MaxStepBacks = 1
    MaxActivations = 1
    MaxFailures = 1
SPECIFICATION FairSpec
CHECK_DEADLOCK FALSE
INVARIANTS
    TypeOK
    RowsValid
    AttemptRowsAgree
    AnnouncedIffEnded
PROPERTIES
    RowTriggersHold
    KeepsPromise
    CancelledJobEnds
    QueuedJobEnds
