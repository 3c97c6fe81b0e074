\* One file, no deletions: what resume promises, and every session ends.
SPECIFICATION FairSpec
CONSTANTS
    ChunkSize = 2
    MaxSize = 6
    Byte <- Bytes
    Zero = 0
    Files <- LongFile
    Edits <- NoEdits
    ReqCap = 4
    DataCap = 2
    MaxSessions = 4
    MaxFaults = 3
    OutputRemovable = FALSE
INVARIANTS
    CompleteMeansIdentical
    ProgressAccepted
    NeverBlocked
PROPERTY SessionEnds
