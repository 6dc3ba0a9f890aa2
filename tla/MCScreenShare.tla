---------------------------- MODULE MCScreenShare ----------------------------
(* Small instances of ScreenShare for TLC. *)
EXTENDS ScreenShare, TLC

CONSTANTS q1, q2, c1, w1, alice, bob

TwoRequests == {q1, q2}
OneCaller == {c1}
OneWorker == {w1}
TwoUsers == {alice, bob}
\* Two tabs of one user, or two users.
TabsOrUsers == {q1 :> alice @@ q2 :> alice, q1 :> alice @@ q2 :> bob}
=============================================================================
