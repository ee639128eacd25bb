---------------------------- MODULE MCAggregation ----------------------------
(* all() and any() of up to three futures.                                  *)
EXTENDS Aggregation
=============================================================================
