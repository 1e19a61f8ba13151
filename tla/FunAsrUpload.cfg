SPECIFICATION Spec
CONSTANTS
    Producers = {p1, p2}
    Owner = owner
    Capacity = 2
    NetCapacity = 1
    Replies <- FewReplies
    MaxChunks = 2
    MaxReplies = 1
INVARIANTS
    TypeOK
    UploadInOrder
    FinishIsLast
    SpeechConserved
PROPERTIES
    EndIsFinal
CHECK_DEADLOCK FALSE
