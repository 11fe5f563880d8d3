\* A run, a document deletion, a reindex and the deletion of the workspace at
\* once over two documents.
SPECIFICATION LSpec
CONSTANTS
    Docs = {d1, d2}
    Topics = {t1}
    Workers = {w1}
    Admins = {a1}
    Reindexers = {r1}
    Removers = {x1}
    Nobody = Nobody
    NoDoc = NoDoc
    NoProfile = {none}
    MaxStores = 1
INVARIANTS
    LocksOK
    NoCycleWithoutBulk
PROPERTIES
    NobodyWaitsForever
    EveryRequestEnds
CHECK_DEADLOCK FALSE
