\* Several files at one output path, edits, faults, deletions: three sessions.
SPECIFICATION Spec
CONSTANTS
    ChunkSize = 2
    MaxSize = 4
    Byte <- Bytes
    Zero = 0
    Files <- SomeFiles
    Edits <- EditTo1
    ReqCap = 4
    DataCap = 2
    MaxSessions = 3
    MaxFaults = 2
    OutputRemovable = TRUE
INVARIANTS
    TypeOK
    CompleteIsCorrect
    RecordSound
    NoSpuriousFailure
    CleanClose
PROPERTIES
    DoneChunksStable
    IsDownload
    WorkDwindles
