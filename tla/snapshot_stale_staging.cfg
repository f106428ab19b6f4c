CONSTANTS
    f = f
    t = t
    u = u
    s = s
    Files = {f}
    Takes = {t}
    Uncovered = {}
    MaxChanges = 2
    MaxRescans = 1
    MaxFailures = 0
SPECIFICATION Spec
CHECK_DEADLOCK FALSE
PROPERTIES
    TakeMissesNothing
