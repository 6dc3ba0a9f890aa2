---------------------------- MODULE MCCanvasRoom ----------------------------
(***************************************************************************)
(* Small instances of CanvasRoom.  Shapes, contents and users are each     *)
(* interchangeable, which the runs without liveness use.                   *)
(***************************************************************************)
EXTENDS CanvasRoom, TLC

Symmetry == Permutations(Shape) \cup Permutations(Content) \cup Permutations(User)
=============================================================================
