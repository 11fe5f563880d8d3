\* The default deployment: one worker loop, overlapping uploads, a crash.
SPECIFICATION Spec
CONSTANTS
    MaxJobs = 3
    Workers = {w1}
    NoJob = NoJob
    MaxAttempts = 2
    MaxFaults = 1
    Docs = {d1}
    NoDoc = NoDoc
    MaxVersion = 2
    ChunkCount <- MCChunkCount
    BatchSize = 1
    FaultKinds = {"crash"}
INVARIANTS
    TypeOK
    ReadyIsFullyEmbedded
    LastWord
    FailureIsShown
PROPERTIES
    UploadIsIndexed
    KeepsVectors
CHECK_DEADLOCK FALSE
