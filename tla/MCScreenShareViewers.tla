------------------------ MODULE MCScreenShareViewers ------------------------
(* Small instances of ScreenShareViewers for TLC. *)
EXTENDS ScreenShareViewers, TLC

CONSTANTS u1, u2, v1, v2, n1, n2, r1, r2

TwoUsers == {u1, u2}
TwoTokens == {v1, v2}
\* Two tabs of one user, or two users.
TabsOrUsers == {v1 :> u1 @@ v2 :> u1, v1 :> u1 @@ v2 :> u2}
TwoServers == {n1, n2}
TwoRuns == {r1, r2}
=============================================================================
