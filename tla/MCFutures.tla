------------------------------ MODULE MCFutures ------------------------------
(* Futures with a few promises and two values.                              *)
EXTENDS Futures

CONSTANTS v1, v2
MCValues == {v1, v2}
=============================================================================
