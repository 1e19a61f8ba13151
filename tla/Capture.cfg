SPECIFICATION FairSpec
CONSTANTS
    Modulus = 16
    RiffExtra = 3
    Timed = TRUE
    FrameBytes <- MixedFrames
    MaxFrames = 4
INVARIANTS
    TypeOK
    SuccessHasEveryFrame
    NoCorruptFile
PROPERTIES
    CtrlCEnds
CHECK_DEADLOCK FALSE
