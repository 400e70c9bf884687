SPECIFICATION Spec
CONSTANTS
    BufferSize = 3
    KbdBufferSize = 1
    KeyLengths = {1}
    FrameLength = 1
    MaxReplies = 1
    DumpLength = 1
    MaxKeys = 2
    MaxWrites = 1
PROPERTY KeysServedAfterDisable
