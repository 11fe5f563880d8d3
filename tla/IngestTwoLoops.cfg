\* WORKER_CONCURRENCY=2, every kind of fault.
SPECIFICATION Spec
CONSTANTS
    MaxJobs = 2
    Workers = {w1, w2}
    NoJob = NoJob
    MaxAttempts = 2
    MaxFaults = 1
    Docs = {d1}
    NoDoc = NoDoc
    MaxVersion = 1
    ChunkCount <- MCChunkCount
    BatchSize = 1
    FaultKinds = {"crash", "release", "report"}
PROPERTIES
    ImplementsQueue
CHECK_DEADLOCK FALSE
