\* One push at a time, two in turn, two threads, two edits between any steps.
SPECIFICATION FairSpec
CONSTANTS
    Pushers <- OnePusher
    Cores = 2
    CHUNK_SIZE = 2
    Sizes <- ShortTail
    Exclusive = TRUE
    MaxEdits = 2
    MaxRuns = 2
INVARIANTS
    MetaIsFile
    CacheSound
    MappingHeld
    OneThreadPerChunk
PROPERTY PushEnds
\* Every process ends.
CHECK_DEADLOCK FALSE
