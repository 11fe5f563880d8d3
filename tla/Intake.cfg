\* Two uploads at once, a run and deletions between.
SPECIFICATION Spec
CONSTANTS
    Docs = {d1, d2}
    Files = {f1, f2}
    Names = {a, b}
    Requests = {r1, r2}
    NoDoc = NoDoc
    NoFile = NoFile
    NoName = NoName
    MaxUploads = 3
INVARIANTS
    TypeOK
    StaleHasJob
    StoredIsHashed
PROPERTIES
    VersionsGrow
    Converges
CHECK_DEADLOCK FALSE
