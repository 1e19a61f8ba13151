SPECIFICATION Spec
CONSTANTS
    Modulus = 16
    RiffExtra = 3
    Timed = TRUE
    FrameBytes <- MixedFrames
    MaxFrames = 4
INVARIANTS
    RiffSizeFits
CHECK_DEADLOCK FALSE
