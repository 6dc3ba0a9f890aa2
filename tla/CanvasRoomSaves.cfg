CONSTANTS
    Shape = {s1, s2}
    Content = {A}
    User = {u1}
    Absent = Absent
    MaxBatch = 2
    MaxCached = 1
    MaxHistory = 1
    Recreate = TRUE
    MaxChanges = 3
    MaxUndos = 1
    MaxFaults = 1

SPECIFICATION FairSpec
CHECK_DEADLOCK FALSE
INVARIANTS
    DirtyIsSavable
PROPERTIES
    NormalShapesGetSaved
