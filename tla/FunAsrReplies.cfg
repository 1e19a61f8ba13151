SPECIFICATION FairSpec
CONSTANTS
    Producers = {p1}
    Owner = owner
    Capacity = 2
    NetCapacity = 1
    Replies <- EveryReply
    MaxChunks = 2
    MaxReplies = 3
INVARIANTS
    ResultMatchesEvents
PROPERTIES
    ImplementsSession
    CallsEnd
    NoOrphanTask
    AcceptedSpeechMoves
CHECK_DEADLOCK FALSE
