---------------------------- MODULE MCSpotSubmit ----------------------------
(* TLC instances of SpotSubmit. *)
EXTENDS SpotSubmit

CONSTANTS i1, i2, r1, r2
=============================================================================
