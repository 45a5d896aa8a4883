SPECIFICATION FairClientsSpec
CONSTANTS
    Values = {u, v, w}
    MaxId = 3
    Reused = FALSE
    None = None
    Piped = 2
    Waiters = {x}
    \* Three calls that may be on one target; a target set by hand.
    Calls = {c1, c2, c3}
    MaxSets = 1
INVARIANTS QueueIsFifo CanceledOnlyWithQueue ForwardedInOrder ToldAfterForwarding LostIsLeft OncePerLoss
PROPERTIES QueuedCallsSettle LeavesOnlyReported
\* When every call has ended nothing needs to happen.
CHECK_DEADLOCK FALSE
