SPECIFICATION FairSpec
CONSTANTS
    PacketSamples = 2
    RingCapacity = 4
    ChannelCapacity = 1
    Bursts <- MixedBursts
    MaxSamples = 7
INVARIANTS
    TypeOK
    SamplesConserved
    NoFalseAlarm
    NoThreadLeft
PROPERTIES
    ImplementsContract
    FailureIsReported
    CallsEnd
CHECK_DEADLOCK FALSE
