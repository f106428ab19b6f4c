SPECIFICATION MCSpec
CONSTANTS
    inside = inside
    out = out
    alt = alt
    p1 = p1
    p2 = p2
    undo1 = undo1
    LastEvent = 1
    Compositions = {inside, out, alt}
    Inside = {inside}
    MaxRetries = 1
    MaxFaults = 2
    Deciders = {p1, p2}
    AuditRows = {undo1}
    MaxProposals = 2
    MaxLosses = 1
    MaxDeferrals = 3
    MaxSetbacks = 3
    Contributions = {1, 2, 3}
    Lists <- MCLists
    LastJob = 3
    PageSize = 2
    MaxDispatches = 1
    MaxTurns = 1
CHECK_DEADLOCK FALSE
INVARIANTS
    RetriesByItselfSafe
    OnlyFailedAttemptedAgain
    DecidedOnce
    CatalogRight
PROPERTIES
    RetryResolved
    DeferralsAnswered
    RunnableRuns
