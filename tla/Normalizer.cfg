SPECIFICATION Spec
CONSTANTS
    ResamplerInput = 4
    Delay = 2
    ChunkSamples = 3
    CompactAfter = 2
    Packets <- MixedPackets
    MaxSamples = 40
INVARIANTS
    TypeOK
    SpeechInOrder
    FinishedSpeech
    BuffersBounded
CHECK_DEADLOCK FALSE
