SPECIFICATION FairSpec
CONSTANTS
    Caps = {a, b}
    Boot = a
    None = None
    MaxIds = 2
    MaxRequests = 1
    MaxCaps = 1
    MaxRefs = 1
    MaxQueue = 1
    ClientOpen = 2
    ServerOpen = 0
INVARIANTS
    NoProtocolError
    RefcountBalance
    IdsKeepMeaning
    ReverseTable
PROPERTIES
    ExportsReleased
    ImplementsQuestions
CHECK_DEADLOCK FALSE
