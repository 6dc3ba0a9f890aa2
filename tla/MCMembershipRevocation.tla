----------------------- MODULE MCMembershipRevocation -----------------------
(* A small instance of MembershipRevocation for TLC. *)
EXTENDS MembershipRevocation, TLC

CONSTANTS p1, p2, n1, s1

TwoPublishers == {p1, p2}
OneServer == {n1}
OneSocket == {s1}
OnFirst == [s \in OneSocket |-> n1]
=============================================================================
