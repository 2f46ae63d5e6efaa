--------------------------- MODULE MCChangePlans ---------------------------
(* Instances of ChangePlans for TLC.                                        *)
EXTENDS ChangePlans, TLC
=============================================================================
