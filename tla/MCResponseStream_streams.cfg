SPECIFICATION StreamSpec
CONSTANTS
    Words <- AllWords
    Streams <- AllStreams
    Event <- Events
    IncludeUsage = TRUE
    Limit = 7
    MaxRetained = 9
    MaxImageEvents = 4
    MaxPartialImages = 3
    MaxImageBytes = 43
    MaxChunk = 4
    Count = 2
INVARIANTS StreamInv EndsOnce OneIdentity ClientGetsTheAnswer LoggedAsServed
CHECK_DEADLOCK FALSE
