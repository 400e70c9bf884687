SPECIFICATION Spec
CONSTANTS
    Lengths = {2, 5}
    Minima = {1, 3}
    DefaultMin = 3
    LowersRate = FALSE
    MinSize = 2
    Slice = 1
    Word = 16
    CountWord = 16
    MaxEvents = 2
    MaxSteps = 5
INVARIANTS TransferConsistent
PROPERTIES CatchUpRaisesNoIRQ HaltedReadsNothing TransferCompletes
CHECK_DEADLOCK FALSE
