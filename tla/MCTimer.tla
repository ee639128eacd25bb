------------------------------- MODULE MCTimer -------------------------------
(* Timer with three timers in slots that are added one at a time.           *)
EXTENDS Timer

MCStarts == {W - 2}
=============================================================================
