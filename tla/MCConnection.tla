---------------------------- MODULE MCConnection ----------------------------
(* Connection with intervals of none and one tick.                           *)
EXTENDS Connection

MCModes == {"AP", "STA"}
MCIntervals == {0, 1}
=============================================================================
