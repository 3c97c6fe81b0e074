\* Two pushes of one file that nobody edits, at the same time.
SPECIFICATION Spec
CONSTANTS
    Pushers <- TwoPushers
    Cores = 1
    CHUNK_SIZE = 2
    Sizes <- TwoChunks
    Exclusive = FALSE
    MaxEdits = 0
    MaxRuns = 2
INVARIANTS
    MetaIsFile
CHECK_DEADLOCK FALSE
