\* Socket buffers smaller than the request burst.
SPECIFICATION FairSpec
CONSTANTS
    ChunkSize = 2
    MaxSize = 4
    Byte <- Bytes
    Zero = 0
    Files <- OneFile
    Edits <- NoEdits
    ReqCap = 1
    DataCap = 1
    MaxSessions = 1
    MaxFaults = 0
    OutputRemovable = FALSE
PROPERTY SessionEnds
CHECK_DEADLOCK FALSE
