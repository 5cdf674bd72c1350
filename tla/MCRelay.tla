------------------------------ MODULE MCRelay ------------------------------
(* A gateway with one device or with another, and a world with one.         *)
EXTENDS Relay

CONSTANTS d1, d2, s1, c1

OneDevice == {{d1}}

(* The same, and one that names a device of the world.                      *)
WorldAnnounced == {{d1}, {d1, s1}}
=============================================================================
