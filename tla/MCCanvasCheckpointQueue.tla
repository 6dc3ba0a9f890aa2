----------------------- MODULE MCCanvasCheckpointQueue -----------------------
(***************************************************************************)
(* Small instances of CanvasCheckpointQueue: two rooms with a session      *)
(* each, one room that two sessions share, and both at once.               *)
(***************************************************************************)
EXTENDS CanvasCheckpointQueue, TLC

CONSTANTS r1, r2, s1, s2, s3

OneRoom     == {r1}
TwoRooms    == {r1, r2}
TwoSessions == {s1, s2}
ThreeSessions == {s1, s2, s3}

InOneRoom  == [s \in TwoSessions |-> r1]
InTwoRooms == [s \in TwoSessions |-> IF s = s1 THEN r1 ELSE r2]
SharingOne == [s \in ThreeSessions |-> IF s = s3 THEN r2 ELSE r1]
SharersAlike == Permutations({s1, s2})
=============================================================================
