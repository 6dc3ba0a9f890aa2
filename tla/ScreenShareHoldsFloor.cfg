SPECIFICATION FairSpec
CONSTANTS
    q1 = q1
    q2 = q2
    c1 = c1
    w1 = w1
    alice = alice
    bob = bob
    None = None
    Request <- TwoRequests
    User <- TwoUsers
    Sharers <- TabsOrUsers
    Caller <- OneCaller
    Worker <- OneWorker
    MaxBusy = 2
    MaxHooks = 1
    MaxFaults = 1
CHECK_DEADLOCK FALSE
INVARIANTS
    TypeOK
    IssuedIsAccountedFor
    OnlyLiveHasDeadline
PROPERTIES
    ImplementsFloor
    FormerPublisherLeaves
