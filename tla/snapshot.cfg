SPECIFICATION MCSpec
CONSTANTS
    f = f
    t = t
    u = u
    s = s
    Files = {f, u}
    Takes = {t, s}
    Uncovered = {u}
    MaxChanges = 2
    MaxRescans = 1
    MaxFailures = 1
    p = p
    q = q
    h = h
    k = k
    c = c
    d = d
    Paths = {p, q}
    Hashes = {h, k}
    Captures = {c, d}
    MaxRows = 2
    MaxShutdowns = 1
CONSTRAINT TakesOrUncovered
SYMMETRY SymT
CHECK_DEADLOCK FALSE
INVARIANTS
    EditsAccounted
    QuietRowsReadable
PROPERTIES
    MarkedTakeSeesEdits
