SPECIFICATION Spec
CONSTANTS
    Caps = {a}
    Boot = a
    None = None
    MaxIds = 1
    MaxRequests = 1
    MaxCaps = 1
    MaxRefs = 2
    MaxQueue = 1
    ClientOpen = 4
    ServerOpen = 4
INVARIANT ReverseTableReached
