SPECIFICATION Spec
CONSTANTS
    p = p
    a = a
    b = b
    x = x
    y = y
    r1 = r1
    r2 = r2
    Types = {x, y}
    SyncOrder <- OneSync
    Async = {a}
    Handles <- HandlesAll
    AfterFor <- AfterNobody
    Expiring = {}
    Settles <- NoSettles
    Retriers = {r1, r2}
    BatchSize = 1
    MaxEvents = 1
    MaxFaults = 0
    MaxDiscards = 0
INVARIANTS
    HandledOnce
CHECK_DEADLOCK FALSE
