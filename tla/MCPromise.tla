------------------------------ MODULE MCPromise ------------------------------
(* Promise<T> with two values, resolved by two tasks and listened to by two. *)
EXTENDS Promise, TLC

CONSTANTS s1, s2, l1, l2, r1, v0, v1
MCSetters == {s1, s2}
MCListeners == {l1, l2}
MCUnserved == {l2}
MCNone == {}
MCReaders == {r1}
MCValues == {v0, v1}
=============================================================================
