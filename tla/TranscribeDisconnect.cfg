SPECIFICATION FairSpec
CONSTANTS
    Capacity = 1
    Timed = FALSE
    SaveAudio = TRUE
    MaxFrames = 2
    FrameChunks <- ChunkPairs
    MaxEvents = 1
PROPERTIES
    DisconnectExits
CHECK_DEADLOCK FALSE
