SPECIFICATION Spec
CONSTANTS
    Producers = {p1}
    Owner = owner
    Capacity = 2
    NetCapacity = 1
    Replies <- FewReplies
    MaxChunks = 2
    MaxReplies = 1
INVARIANTS
    OkMeansAllSpeechSent
CHECK_DEADLOCK FALSE
