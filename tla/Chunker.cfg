\* Overlap 2 of a target of 4, and a ceiling two blocks can reach.
SPECIFICATION Spec
CONSTANTS
    MaxBlocks = 4
    Documents <- MCDocuments
    Target = 4
    Overlap = 2
    Ceiling = 8
INVARIANTS
    NothingIsLost
    UnderTheCeiling
    OnlySequencesMerge
    UnitsAreWhole
    RowsHaveTheirHeader
CHECK_DEADLOCK FALSE
