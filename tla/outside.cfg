CONSTANTS
    r = r
    a = a
    b = b
    c = c
    f = f
    g = g
    ig = ig
    w1 = w1
    w2 = w2
    Root = r
    Dirs = {r, a, b, c}
    Files = {f, g}
    IgnoreFile = ig
    Parent <- MCParent
    Ignorable = {a}
    Unread = Unread
    NoPath = NoPath
    MaxWatches = 3
    OsQueue = 2
    MaxPending = 1
    MaxOps = 4
    Windows = {w1, w2}
    LastSession = 3
    LastMessage = 2
    Together = 4
    MaxDrops = 1
SPECIFICATION MCSpec
CONSTRAINT CForLimit
CHECK_DEADLOCK FALSE
INVARIANTS
    MissedOnlyUnwatched
    NothingMissed
    PendingServed
    RegistryTrue
    InputServed
