\* Two workspaces, three requests in flight, two polls armed.
SPECIFICATION Spec
CONSTANTS
    Ws = {a, b}
    NoWs = NoWs
    MaxReqs = 3
    MaxPolls = 2
INVARIANTS
    TypeOK
    PaintedIsOpen
    KeepsPolling
    AskedIsAnswered
CHECK_DEADLOCK FALSE
