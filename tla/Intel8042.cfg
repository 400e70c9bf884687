SPECIFICATION Spec
CONSTANTS
    BufferSize = 5
    KbdBufferSize = 1
    KeyLengths = {1}
    FrameLength = 2
    MaxReplies = 2
    DumpLength = 2
    MaxKeys = 3
    MaxWrites = 2
INVARIANTS WaitingCounts KeysInOrder NotStranded
PROPERTY KeysServed
