SPECIFICATION BlobsSpec
CONSTANTS
    Paths = {p}
    Hashes = {h, k}
    Captures = {c}
    MaxRows = 2
    MaxShutdowns = 0
INVARIANT
    CurrentTreeReadable
CHECK_DEADLOCK FALSE
