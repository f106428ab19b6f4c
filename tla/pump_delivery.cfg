SPECIFICATION MCSpec
CONSTANTS
    p = p
    a = a
    b = b
    x = x
    y = y
    r1 = r1
    r2 = r2
    Types = {x, y}
    SyncOrder <- OneSync
    Async = {a, b}
    Handles <- HandlesByType
    AfterFor <- AfterByType
    Expiring = {x, y}
    Settles <- NoSettles
    Retriers = {r1}
    BatchSize = 2
    MaxEvents = 2
    MaxFaults = 1
    MaxDiscards = 1
    app = app
    base = base
    n1 = n1
    n2 = n2
    Extensions = {app, base}
    Ships = {app, base}
    Requires <- MCRequires
    Versions = {n1, n2}
    MaxTurns = 3
    MaxSetbacks = 2
CONSTRAINTS
    LettersOrB
    FewTogether
CHECK_DEADLOCK FALSE
INVARIANTS
    NothingLost
    PredecessorsFirst
    DeliveredInOrder
    WritesMatchPosition
    HandledOnce
    PinnedSeesOne
    ChosenKept
    RunsWhatCan
    SettingsServed
