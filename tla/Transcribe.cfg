SPECIFICATION FairSpec
CONSTANTS
    Capacity = 1
    Timed = TRUE
    SaveAudio = TRUE
    MaxFrames = 2
    FrameChunks <- ChunkPairs
    MaxEvents = 1
INVARIANTS
    TypeOK
    SuccessIsComplete
    TranscriptKept
    AudioEndsFirst
PROPERTIES
    CtrlCEnds
    NextChunkNotices
CHECK_DEADLOCK FALSE
