SPECIFICATION FairPSpec
CONSTANTS
    None = None
    Promises = {p, q}
    Objects = {o}
    MaxLen = 3
    MaxRefs = 2
    MaxNet = 1
    MaxCanceled = 1
    Resending = FALSE
INVARIANTS RefcountBalance NoDanglingEntry
PROPERTIES PushReturnsSmallestUnused PromisesSettle
CHECK_DEADLOCK FALSE
