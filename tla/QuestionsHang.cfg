SPECIFICATION Spec
CONSTANTS
    MaxIds = 1
    MaxRequests = 1
INVARIANT DisconnectedSendFails
