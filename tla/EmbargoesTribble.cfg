SPECIFICATION Spec
CONSTANTS
    None = None
    Kinds = {"export", "answer"}
    Resolutions = {"object", "remote_object", "promise"}
    Callers = {"alice"}
    MaxCalls = 2
    Disconnecting = {}
PROPERTIES KeepsCallOrder
CHECK_DEADLOCK FALSE
