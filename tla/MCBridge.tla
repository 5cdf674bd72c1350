------------------------------ MODULE MCBridge ------------------------------
(* Instances of Bridge: a few requests that each start, stop or look. *)
EXTENDS Bridge, TLC
CONSTANTS h1, h2, h3
Three == {h1, h2, h3}
=============================================================================
