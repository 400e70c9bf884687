SPECIFICATION Spec
CONSTANTS
    WorkCap = 3
    AudioCap = 4
    UnitsPerFrame = 2
    UnitsPerTick = 4
    Burst = 2
    FastForward = TRUE
INVARIANT NoMutualWait
CHECK_DEADLOCK FALSE
