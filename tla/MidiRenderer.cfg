SPECIFICATION Spec
CONSTANTS
    WorkCap = 4
    AudioCap = 4
    UnitsPerFrame = 2
    UnitsPerTick = 4
    Burst = 2
    FastForward = FALSE
INVARIANTS NoMutualWait LagBounded ServiceOutlivesRenderer
PROPERTY CallsReturn
CHECK_DEADLOCK FALSE
