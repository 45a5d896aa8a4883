SPECIFICATION FairSpec
CONSTANTS
    None = None
    Kinds = {"export", "answer"}
    Resolutions = {"object", "remote_object"}
    Callers = {"alice"}
    MaxCalls = 3
    Disconnecting = {"alice", "bob"}
INVARIANT NoProtocolError
PROPERTIES KeepsCallOrder CallsArrive
CHECK_DEADLOCK FALSE
