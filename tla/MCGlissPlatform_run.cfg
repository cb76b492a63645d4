SPECIFICATION Spec
CONSTANTS
    Platforms = {p1, p2}
    States = {s1, s2}
    Sims = {m1}
    NULL = NULL
    FdCount = 4
    HostCount = 4
    PageSize = 2
    Top = 2
    Ends = {1}
    Asked = {0, 2}
    Tried = {0, 4}
    MaxLocks = 1
    MaxUnheld = 1
    MaxClosed = 1
INVARIANTS Held FilesKept BreakAboveImage
PROPERTY FailedIsHarmless
SYMMETRY Symmetry
CHECK_DEADLOCK FALSE
