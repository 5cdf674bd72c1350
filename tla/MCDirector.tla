----------------------------- MODULE MCDirector -----------------------------
(* Instances of Director: two or three calls at a time. *)
EXTENDS Director, TLC
CONSTANTS c1, c2, c3
Two == {c1, c2}
Three == {c1, c2, c3}
=============================================================================
