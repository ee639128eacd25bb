---------------------------- MODULE MCSystemTimer ----------------------------
(* SystemTimer with three requests.                                         *)
EXTENDS SystemTimer, TLC

CONSTANTS r1, r2, r3
MCRequests == {r1, r2, r3}
=============================================================================
