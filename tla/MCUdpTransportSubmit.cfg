\* One failed operation or submission, and nothing lost or repeated.
SPECIFICATION Spec
CONSTANTS
    FileSizes <- EmptyAndShort
    CHUNK_SIZE = 3
    UDP_PAYLOAD_SIZE = 2
    QUEUE_DEPTH = 1
    UDP_FRAG_BUFS = 4
    MaxDups = 0
    MaxLosses = 0
    MaxFaults = 1
INVARIANTS
    WritesGuarded
\* Both calls return, or one waits for what was not submitted.
CHECK_DEADLOCK FALSE
