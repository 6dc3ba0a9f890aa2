SPECIFICATION FairSpec
CONSTANTS
    n1 = n1
    n2 = n2
    w1 = w1
    w2 = w2
    w3 = w3
    Node <- TwoNodes
    Work <- TwoAndOne
    Owner <- OwnerOfTwoAndOne
    Edit = {e1, e2}
    NoWork = NoWork
    Abandoned = Abandoned
    Distributed = TRUE
    MaxFaults = 0
INVARIANTS
    TypeOK
    SavedEditsStay
    KnownVersionIsMerged
    NoConflictWithoutFaults
PROPERTIES
    ImplementsDurable
    EditsBecomeDurable
