\* One loop: a run overtaken by an upload of the same file.
SPECIFICATION Spec
CONSTANTS
    MaxJobs = 2
    Workers = {w1}
    NoJob = NoJob
    MaxAttempts = 2
    MaxFaults = 0
    Docs = {d1}
    NoDoc = NoDoc
    MaxVersion = 2
    ChunkCount <- MCChunkCount
    BatchSize = 1
    FaultKinds = {}
INVARIANTS
    ReadyIsCurrent
CHECK_DEADLOCK FALSE
