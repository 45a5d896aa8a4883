SPECIFICATION FairSpec
CONSTANTS
    MaxIds = 2
    MaxRequests = 2
INVARIANTS
    NoProtocolError
    NoUnreachable
PROPERTY QuestionsSettle
