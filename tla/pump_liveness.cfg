SPECIFICATION FairSpec
CONSTANTS
    p = p
    a = a
    b = b
    x = x
    y = y
    r1 = r1
    r2 = r2
    Types = {x}
    SyncOrder <- OneSync
    Async = {a, b}
    Handles <- HandlesAB
    AfterFor <- AfterBoth
    Expiring = {x}
    Settles <- SettleB
    Retriers = {}
    BatchSize = 1
    MaxEvents = 1
    MaxFaults = 1
    MaxDiscards = 1
CHECK_DEADLOCK FALSE
INVARIANTS
    SettleMeansDelivered
PROPERTIES
    SettleReturns
    LogSettles
