\* One schedule, one full run, two workers: the lease of one attempt runs out
\* while the other worker takes the job over, or the queue gives the message up.
CONSTANTS
    Full = {f1}
    Polling = {r1}
    Worker = {w1, w2}
    Server = {a1}
    None = None
    MaxAttempts = 2
    MaxReceives = 1
    Slot = {n1}
    MaxFaults = 1

SPECIFICATION FairSpec
CHECK_DEADLOCK FALSE
INVARIANTS
    TypeOK
    TablesAgree
PROPERTIES
    ImplementsLeasedJobs
    PollingMovesOn
