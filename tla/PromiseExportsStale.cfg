SPECIFICATION PSpec
CONSTANTS
    None = None
    Promises = {p, q}
    Objects = {o}
    MaxLen = 3
    MaxRefs = 2
    MaxNet = 1
    MaxCanceled = 1
    Resending = FALSE
PROPERTY ResolvesLiveExport
CHECK_DEADLOCK FALSE
