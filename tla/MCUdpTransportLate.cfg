\* One datagram repeated, and nothing else goes wrong.
SPECIFICATION FairSpec
CONSTANTS
    FileSizes <- EmptyAndShort
    CHUNK_SIZE = 3
    UDP_PAYLOAD_SIZE = 2
    QUEUE_DEPTH = 1
    UDP_FRAG_BUFS = 4
    MaxDups = 1
    MaxLosses = 0
    MaxFaults = 0
INVARIANTS
    AckedMeansWritten
\* Both calls return, or one waits for what was lost.
CHECK_DEADLOCK FALSE
