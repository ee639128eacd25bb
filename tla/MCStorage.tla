------------------------------ MODULE MCStorage ------------------------------
(* Storage with two configurations and short intervals.                     *)
EXTENDS Storage
=============================================================================
