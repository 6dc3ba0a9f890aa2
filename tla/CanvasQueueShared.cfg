SPECIFICATION Spec
CONSTANTS
    r1 = r1
    r2 = r2
    s1 = s1
    s2 = s2
    s3 = s3
    Room <- TwoRooms
    Session <- ThreeSessions
    RoomOf <- SharingOne
    MaxConcurrent = 1
    DropsWhileJoining = TRUE
    MaxEdits = 2
    MaxFaults = 1
    MaxRevokes = 1
    MaxCloses = 1
CHECK_DEADLOCK FALSE
SYMMETRY SharersAlike
INVARIANTS
    TypeOK
    QueueIsServed
    DirtyIsScheduled
PROPERTIES
    ForgottenIsSaved
    DrainedIsSaved
