------------------------ MODULE MCDocumentCheckpoint ------------------------
(***************************************************************************)
(* Small instances of DocumentCheckpoint: two Realtime Servers.            *)
(***************************************************************************)
EXTENDS DocumentCheckpoint, TLC

CONSTANTS n1, n2, w1, w2, w3

TwoNodes == {n1, n2}

\* n1 may have two stores in flight.
TwoAndOne == {w1, w2, w3}
OwnerOfTwoAndOne == w1 :> n1 @@ w2 :> n2 @@ w3 :> n1
=============================================================================
