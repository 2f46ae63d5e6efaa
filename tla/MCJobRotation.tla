--------------------------- MODULE MCJobRotation ---------------------------
(* Small instances of JobRotation for TLC. *)
EXTENDS JobRotation

CONSTANTS j1, j2, w1, w2
=============================================================================
