-------------------------------- MODULE Joint --------------------------------
(***************************************************************************)
(* What Promise::all and Promise::any promise: the future they return      *)
(* succeeds when all the futures have succeeded and fails when one of them *)
(* has failed; or it goes the way of one that is finished.  It is decided  *)
(* once, and it is decided when it can be.                                 *)
(*                                                                         *)
(* Two things may make it go another way, and no others: a future that is  *)
(* looked at while it is being resolved counts as failed; and of a future  *)
(* that nobody keeps, anything may be heard.                               *)
(***************************************************************************)
CONSTANT Futures

VARIABLES mode,     (* "all" or "any"                                      *)
          members,  (* the futures of the collection                       *)
          kept,     (* the caller keeps them until all is decided          *)
          verdict,  (* per future: "pending", "resolving", "ok", "failed"  *)
          flipped,  (* those of which the opposite was heard               *)
          joint     (* the future that is returned: "pending", "ok", ...   *)

vars == <<mode, members, kept, verdict, flipped, joint>>

Init ==
  /\ mode \in {"all", "any"}
  /\ members \in SUBSET Futures
  /\ kept \in BOOLEAN
  /\ verdict = [k \in Futures |-> "pending"]
  /\ flipped = {}
  /\ joint = "pending"

Begin(k) ==
  /\ verdict[k] = "pending"
  /\ verdict' = [verdict EXCEPT ![k] = "resolving"]
  /\ UNCHANGED <<mode, members, kept, flipped, joint>>

Settle(k) ==
  /\ verdict[k] = "resolving"
  /\ \E o \in {"ok", "failed"} : verdict' = [verdict EXCEPT ![k] = o]
  /\ UNCHANGED <<mode, members, kept, flipped, joint>>

\* What is heard of a settled future, when the opposite is heard of those in F.
Heard(F, k, o) ==
  \/ verdict[k] = o /\ k \notin F
  \/ verdict[k] \in {"ok", "failed"} \ {o} /\ k \in F

\* An empty collection fails.
May(F, o) ==
  \/ members = {} /\ o = "failed"
  \/ mode = "any" /\ \E k \in members : Heard(F, k, o)
  \/ mode = "all" /\ o = "failed" /\ \E k \in members : Heard(F, k, o)
  \/ mode = "all" /\ o = "ok" /\ members # {} /\ \A k \in members : Heard(F, k, o)

Decide ==
  /\ joint = "pending"
  /\ \E o \in {"ok", "failed"} : May(flipped, o) /\ joint' = o
  /\ UNCHANGED <<mode, members, kept, verdict, flipped>>

\* The look at a future falls in the middle of its resolution.
Early(k) ==
  /\ joint = "pending"
  /\ k \in members
  /\ verdict[k] = "resolving"
  /\ joint' = "failed"
  /\ UNCHANGED <<mode, members, kept, verdict, flipped>>

\* The opposite of its outcome is heard of a future that is gone; that may be what
\* decides.
Stray(k) ==
  /\ joint = "pending"
  /\ ~kept
  /\ k \in members
  /\ verdict[k] \in {"ok", "failed"}
  /\ flipped' = flipped \cup {k}
  /\ \/ joint' = joint
     \/ \E o \in {"ok", "failed"} : May(flipped', o) /\ joint' = o
  /\ UNCHANGED <<mode, members, kept, verdict>>

Next ==
  \/ \E k \in Futures : Begin(k) \/ Settle(k) \/ Early(k) \/ Stray(k)
  \/ Decide

SafeSpec == Init /\ [][Next]_vars
Spec == SafeSpec /\ WF_vars(Decide)
=============================================================================
