SPECIFICATION FairMSpec
CONSTANTS
    Bytes <- MCBytes
    BufLen = 3
    MaxChunk = 100
    Word = 4
    Messages <- MCMessages
    MaxMessages = 2
    SegmentsLimit = 4
    Limit = 20
    U16 = 16
    ScratchWords = 4
    SecondWords = 2
    Suggested = 3
    MaxWords = 8
    Grow = TRUE
    Sizes <- MCSizes
    Data = {7}
    MaxDepth = 2
    MaxOperations = 4
    MaxBeforeSending = 2
INVARIANTS NoLostWakeup BuildsTheTree UnusedIsZero MessagesIntact EndIsTrue TreesArrive
PROPERTIES ImplementsByteStream ReaderFinishes MessagesArrive
CHECK_DEADLOCK FALSE
