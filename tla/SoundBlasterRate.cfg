SPECIFICATION Spec
CONSTANTS
    Lengths = {3}
    Minima = {1, 4}
    DefaultMin = 4
    LowersRate = TRUE
    MinSize = 2
    Slice = 1
    Word = 16
    CountWord = 16
    MaxEvents = 2
    MaxSteps = 5
INVARIANT LeftNeverWraps
CHECK_DEADLOCK FALSE
