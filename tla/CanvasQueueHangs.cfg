SPECIFICATION FairSpec
CONSTANTS
    r1 = r1
    r2 = r2
    s1 = s1
    s2 = s2
    s3 = s3
    Room <- OneRoom
    Session <- TwoSessions
    RoomOf <- InOneRoom
    MaxConcurrent = 1
    DropsWhileJoining = FALSE
    MaxEdits = 1
    MaxFaults = 0
    MaxRevokes = 0
    MaxCloses = 1
CHECK_DEADLOCK FALSE
PROPERTIES
    ShutdownEnds
