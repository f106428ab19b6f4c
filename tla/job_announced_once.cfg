CONSTANTS
    j1 = j1
    j2 = j2
    d1 = d1
    d2 = d2
    v1 = v1
    v2 = v2
    Jobs = {j1}
    Dispatchers = {d1}
    Deployments = {v1}
    FirstDeployment = v1
    Off = Off
    MaxAttempts = 2
    LeaseTicks = 1
    MaxDispatches = 1
    MaxQueued = 1
    MaxCasRetries = 4
    Horizon = 2
    MaxStepBacks = 0
    MaxActivations = 0
    MaxFailures = 0
SPECIFICATION Spec
CHECK_DEADLOCK FALSE
INVARIANT
    AnnouncedOnce
