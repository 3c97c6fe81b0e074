\* The output is deleted between sessions.
SPECIFICATION Spec
CONSTANTS
    ChunkSize = 2
    MaxSize = 4
    Byte <- Bytes
    Zero = 0
    Files <- OneFile
    Edits <- NoEdits
    ReqCap = 4
    DataCap = 2
    MaxSessions = 3
    MaxFaults = 2
    OutputRemovable = TRUE
INVARIANT CompleteMeansIdentical
