------------------------------- MODULE OneShot -------------------------------
(***************************************************************************)
(* What a promise promises: it gets one outcome, once; whoever asks, before *)
(* or after, is told that outcome, once; and is told it eventually.        *)
(***************************************************************************)
CONSTANTS Listeners, Outcomes, Pending,
          Served   (* the listeners that must be told in the end            *)

VARIABLES outcome,  (* Pending, or how the promise was resolved            *)
          asked,    (* the listeners that have registered                  *)
          told      (* what each listener was told, Pending until then     *)

vars == <<outcome, asked, told>>

Init ==
  /\ outcome = Pending
  /\ asked = {}
  /\ told = [l \in Listeners |-> Pending]

Resolve(o) ==
  /\ outcome = Pending
  /\ outcome' = o
  /\ UNCHANGED <<asked, told>>

Ask(l) ==
  /\ l \notin asked
  /\ asked' = asked \cup {l}
  /\ UNCHANGED <<outcome, told>>

Tell(l) ==
  /\ l \in asked
  /\ outcome # Pending
  /\ told[l] = Pending
  /\ told' = [told EXCEPT ![l] = outcome]
  /\ UNCHANGED <<outcome, asked>>

Next ==
  \/ \E o \in Outcomes : Resolve(o)
  \/ \E l \in Listeners : Ask(l) \/ Tell(l)

SafeSpec == Init /\ [][Next]_vars
Spec == SafeSpec /\ \A l \in Served : WF_vars(Tell(l))
=============================================================================
