SPECIFICATION Spec
CONSTANTS
    Lengths = {5}
    Minima = {3}
    DefaultMin = 3
    LowersRate = FALSE
    MinSize = 2
    Slice = 1
    Word = 16
    CountWord = 16
    MaxEvents = 2
    MaxSteps = 5
INVARIANT AudibleIsNotDiscarded
CHECK_DEADLOCK FALSE
