\* A datagram repeated, one lost, one failed operation or submission.
SPECIFICATION FairSpec
CONSTANTS
    FileSizes <- EmptyAndShort
    CHUNK_SIZE = 3
    UDP_PAYLOAD_SIZE = 2
    QUEUE_DEPTH = 1
    UDP_FRAG_BUFS = 4
    MaxDups = 1
    MaxLosses = 1
    MaxFaults = 1
INVARIANTS
    AckedOnDisk
    BuffersOwned
    NeverStalled
PROPERTIES
    TransferEnds
\* Both calls return, or one waits for what was lost.
CHECK_DEADLOCK FALSE
