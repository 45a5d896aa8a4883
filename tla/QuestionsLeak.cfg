SPECIFICATION FairSpec
CONSTANTS
    MaxIds = 1
    MaxRequests = 1
PROPERTY CanceledQuestionsFreed
