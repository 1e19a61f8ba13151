SPECIFICATION Spec
CONSTANTS
    PacketSamples = 2
    RingCapacity = 3
    ChannelCapacity = 1
    Bursts <- MixedBursts
    MaxSamples = 4
INVARIANTS
    OkMeansNoFailure
CHECK_DEADLOCK FALSE
