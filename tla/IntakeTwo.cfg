\* Two overlapping uploads.
SPECIFICATION Spec
CONSTANTS
    Docs = {d1}
    Files = {f1, f2}
    Names = {a}
    Requests = {r1, r2}
    NoDoc = NoDoc
    NoFile = NoFile
    NoName = NoName
    MaxUploads = 4
PROPERTIES
    DedupIsTrue
CHECK_DEADLOCK FALSE
