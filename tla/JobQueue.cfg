\* Two loops, two jobs, two attempts and two faults.
SPECIFICATION Spec
CONSTANTS
    MaxJobs = 2
    Workers = {w1, w2}
    NoJob = NoJob
    MaxAttempts = 2
    MaxFaults = 2
INVARIANTS
    TypeOK
    NoSharedJob
    AttemptsBounded
PROPERTIES
    TerminalIsFinal
    EveryJobSettles
CHECK_DEADLOCK FALSE
