SPECIFICATION FairSpec
CONSTANTS
    Channels = 2
    PacketSamples = 4
    RingCapacity = 6
    ChannelCapacity = 1
    BufferLists <- StereoLists
    MaxSamples = 12
INVARIANTS
    TypeOK
    ChainUnwound
PROPERTIES
    ImplementsContract
    FailureIsReported
    CallsEnd
CHECK_DEADLOCK FALSE
