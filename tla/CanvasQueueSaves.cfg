SPECIFICATION FairSpec
CONSTANTS
    r1 = r1
    r2 = r2
    s1 = s1
    s2 = s2
    s3 = s3
    Room <- TwoRooms
    Session <- TwoSessions
    RoomOf <- InTwoRooms
    MaxConcurrent = 1
    DropsWhileJoining = TRUE
    MaxEdits = 2
    MaxFaults = 2
    MaxRevokes = 0
    MaxCloses = 0
CHECK_DEADLOCK FALSE
PROPERTIES
    EditsGetSaved
    
