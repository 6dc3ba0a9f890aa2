CONSTANTS
    Shape = {s1, s2}
    Content = {A, B}
    User = {u1, u2}
    Absent = Absent
    MaxBatch = 2
    MaxCached = 2
    MaxHistory = 2
    Recreate = TRUE
    MaxChanges = 2
    MaxUndos = 2
    MaxFaults = 1

SPECIFICATION Spec
CHECK_DEADLOCK FALSE
SYMMETRY Symmetry
INVARIANTS
    TypeOK
    CleanIsSaved
    DeletedIsHidden
