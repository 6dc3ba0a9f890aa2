SPECIFICATION FairSpec
CONSTANTS
    p1 = p1
    p2 = p2
    n1 = n1
    s1 = s1
    Publisher <- TwoPublishers
    Server <- OneServer
    Socket <- OneSocket
    Home <- OnFirst
    MaxRemovals = 2
    MaxFaults = 1
CHECK_DEADLOCK FALSE
INVARIANTS
    TypeOK
    HandledMeansOutside
PROPERTIES
    ClaimIsRespected
    ImplementsOutbox
    RemovedMemberLeaves
