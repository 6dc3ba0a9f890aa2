SPECIFICATION FairSpec
CONSTANTS
    u1 = u1
    u2 = u2
    v1 = v1
    v2 = v2
    n1 = n1
    n2 = n2
    r1 = r1
    r2 = r2
    User <- TwoUsers
    Token <- TwoTokens
    Holders <- TabsOrUsers
    Server <- TwoServers
    Run <- TwoRuns
    MaxRemovals = 1
    MaxFaults = 1
CHECK_DEADLOCK FALSE
INVARIANTS
    TypeOK
    NoTokenIsForgotten
PROPERTIES
    RevocationEnds
