\* Three bytes in two writes, window of two, one fault.
SPECIFICATION FairSpec
CONSTANTS
    Writes <- MessageAndChunk
    Reads <- HeaderFileHeader
    MaxOffset = 3
    Window = 2
    MaxFaults = 1
INVARIANTS
    MemoryKept
    DestMapped
    GracefulClose
    NothingLost
PROPERTIES
    IsByteStream
    CallsEnd
\* Both endpoints end closed.
CHECK_DEADLOCK FALSE
