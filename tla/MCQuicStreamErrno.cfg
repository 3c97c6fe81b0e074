\* As MCQuicStream, without faults, for what recv_exact does at the end.
SPECIFICATION FairSpec
CONSTANTS
    Writes <- MessageAndChunk
    Reads <- HeaderFileHeader
    MaxOffset = 3
    Window = 2
    MaxFaults = 0
PROPERTIES
    RecvEnds
CHECK_DEADLOCK FALSE
