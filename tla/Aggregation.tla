----------------------------- MODULE Aggregation -----------------------------
(***************************************************************************)
(* Promise::all and Promise::any (async/promise.cpp): a task walks through *)
(* a collection of futures, first looking at them without their locks,     *)
(* then hanging one callback on each, while other tasks resolve them and   *)
(* the dispatcher task runs the callbacks.  A collection of one is         *)
(* returned as it is; the model has an empty one, or two and more.         *)
(*                                                                         *)
(* A member's promise is Promise, cut down to one setter and one callback: *)
(* _finished is written before _success, in one critical section, and the  *)
(* scan, which takes no lock, may look in between; then the callback is    *)
(* dispatched.  The callback of all() and any() does not hold the member:  *)
(* after the call the member lives while its setter has it or the caller   *)
(* keeps it (_send_impl of async_now_interactions.cpp does not), and a     *)
(* callback run later reads an arbitrary _success.                         *)
(***************************************************************************)
EXTENDS Integers, Sequences, FiniteSets, Functions

CONSTANT N    (* the largest collection *)

ASSUME AggregationAssumption == N \in Nat

VARIABLES
  mode,     (* which of the two was called: "all" or "any"                  *)
  size,     (* collection.size()                                            *)
  kept,     (* whether the caller keeps the collection after the call       *)
  setter,   (* per member: "idle", "half", "flush" or "done"                *)
  success,  (* per member: _success, and what its setter will write to it   *)
  hooked,   (* the members that have the callback in their vector           *)
  queue,    (* the dispatcher: the members whose callback is to run         *)
  pc,       (* the caller: "scan", "register" or "done"                     *)
  i,        (* the member the caller is at                                  *)
  allDone,  (* already_finished                                             *)
  left,     (* *count_left                                                  *)
  result,   (* result_promise or the future returned early: "pending", ...  *)
  misread   (* history: members gone when their callback read _success, the *)
            (* result being open, and read wrong                            *)

members == <<mode, size, kept, setter, success>>
caller == <<pc, i, allDone>>
vars == <<members, hooked, queue, caller, left, result, misread>>

Futures == 1..N

Init ==
  /\ mode \in {"all", "any"}
  /\ size \in 0..N \ {1}
  /\ kept \in BOOLEAN
  /\ setter = [k \in Futures |-> "idle"]
  /\ success \in [Futures -> BOOLEAN]
  /\ hooked = {}
  /\ queue = <<>>
  /\ pc = "scan"
  /\ i = 1
  /\ allDone = TRUE
  /\ left = 0
  /\ result = "pending"
  /\ misread = {}

Verdict(s) == IF s THEN "ok" ELSE "failed"

\* Where the second half of the setter's critical section is over.
Settled(k) == setter[k] \in {"flush", "done"}

(***************************************************************************)
(* The members' setters: set_success or set_error, each once.              *)
(***************************************************************************)
WriteFinished(k) ==
  /\ setter[k] = "idle"
  /\ setter' = [setter EXCEPT ![k] = "half"]
  /\ UNCHANGED <<mode, size, kept, success, hooked, queue, caller, left, result,
                 misread>>

WriteSuccess(k) ==
  /\ setter[k] = "half"
  /\ setter' = [setter EXCEPT ![k] = "flush"]
  /\ UNCHANGED <<mode, size, kept, success, hooked, queue, caller, left, result,
                 misread>>

Flush(k) ==
  /\ setter[k] = "flush"
  /\ setter' = [setter EXCEPT ![k] = "done"]
  /\ hooked' = hooked \ {k}
  /\ queue' = IF k \in hooked THEN Append(queue, k) ELSE queue
  /\ UNCHANGED <<mode, size, kept, success, caller, left, result, misread>>

(***************************************************************************)
(* The call.                                                               *)
(***************************************************************************)
Return(o) == result' = o /\ pc' = "done" /\ UNCHANGED <<i, allDone>>

ReturnEmpty ==
  /\ pc = "scan"
  /\ size = 0
  /\ Return("failed")
  /\ UNCHANGED <<members, hooked, queue, left, misread>>

\* finished(), then success() of the member at hand.  Between the two writes it
\* is finished without success, which looks like a failure.
Seen(k) == Verdict(Settled(k) /\ success[k])

Scan ==
  /\ pc = "scan"
  /\ size # 0
  /\ i <= size
  /\ \/ /\ setter[i] = "idle"
        /\ allDone' = FALSE
        /\ i' = i + 1
        /\ UNCHANGED <<pc, result>>
     \/ /\ setter[i] # "idle"
        /\ mode = "all" /\ Seen(i) = "ok"
        /\ i' = i + 1
        /\ UNCHANGED <<pc, allDone, result>>
     \/ /\ setter[i] # "idle"
        /\ mode = "any" \/ Seen(i) = "failed"
        /\ Return(Seen(i))
  /\ UNCHANGED <<members, hooked, queue, left, misread>>

\* all() of successful futures only.
ReturnDone ==
  /\ pc = "scan"
  /\ size # 0
  /\ i > size
  /\ mode = "all"
  /\ allDone
  /\ Return("ok")
  /\ UNCHANGED <<members, hooked, queue, left, misread>>

\* count_left starts one short.
BeginRegisterShort ==
  /\ pc = "scan"
  /\ size # 0
  /\ i > size
  /\ mode = "any" \/ ~allDone
  /\ pc' = "register"
  /\ i' = 1
  /\ left' = IF mode = "all" THEN size - 1 ELSE left
  /\ UNCHANGED <<members, hooked, queue, allDone, result, misread>>

BeginRegister ==
  /\ pc = "scan"
  /\ size # 0
  /\ i > size
  /\ mode = "any" \/ ~allDone
  /\ pc' = "register"
  /\ i' = 1
  /\ left' = IF mode = "all" THEN size ELSE left
  /\ UNCHANGED <<members, hooked, queue, allDone, result, misread>>

\* Hangs callbacks only on the members that were not finished before.
RegisterPending ==
  /\ pc = "register"
  /\ i <= size
  /\ setter[i] # "half"
  /\ hooked' = IF setter[i] = "idle" THEN hooked \cup {i} ELSE hooked
  /\ i' = i + 1
  /\ UNCHANGED <<members, queue, pc, allDone, left, result, misread>>

\* on_finished: under the member's lock, and a dispatch at once if it is late.
Register ==
  /\ pc = "register"
  /\ i <= size
  /\ setter[i] # "half"
  /\ IF setter[i] = "idle"
       THEN hooked' = hooked \cup {i} /\ UNCHANGED queue
       ELSE queue' = Append(queue, i) /\ UNCHANGED hooked
  /\ i' = i + 1
  /\ UNCHANGED <<members, pc, allDone, left, result, misread>>

EndRegister ==
  /\ pc = "register"
  /\ i > size
  /\ pc' = "done"
  /\ UNCHANGED <<members, hooked, queue, i, allDone, left, result, misread>>

(***************************************************************************)
(* The dispatcher task runs finished_cb with what it reads from the member. *)
(***************************************************************************)
Alive(k) == kept \/ pc # "done" \/ setter[k] # "done"

FinishedCb(s) ==
  \/ result # "pending" /\ UNCHANGED <<left, result>>
  \/ /\ result = "pending"
     /\ mode = "any" \/ ~s
     /\ result' = Verdict(s)
     /\ UNCHANGED left
  \/ /\ result = "pending"
     /\ mode = "all" /\ s
     /\ left' = left - 1
     /\ result' = IF left' = 0 THEN "ok" ELSE "pending"

RunCallback ==
  /\ queue # <<>>
  /\ queue' = Tail(queue)
  /\ \E s \in BOOLEAN :
       /\ Alive(Head(queue)) => s = success[Head(queue)]
       /\ FinishedCb(s)
       /\ misread' = IF result = "pending" /\ s # success[Head(queue)]
                       THEN misread \cup {Head(queue)} ELSE misread
  /\ UNCHANGED <<members, hooked, caller>>

Caller ==
  \/ ReturnEmpty
  \/ Scan
  \/ ReturnDone
  \/ BeginRegister
  \/ Register
  \/ EndRegister

SetterRuns(k) == WriteSuccess(k) \/ Flush(k)

Next ==
  \/ \E k \in Futures : WriteFinished(k) \/ SetterRuns(k)
  \/ Caller
  \/ RunCallback

(***************************************************************************)
(* The call returns, a setter that has begun gets done, and the dispatcher *)
(* task keeps running; no member has to be resolved.                       *)
(***************************************************************************)
Fairness ==
  /\ WF_vars(Caller)
  /\ \A k \in Futures : WF_vars(SetterRuns(k))
  /\ WF_vars(RunCallback)

SafeSpec == Init /\ [][Next]_vars
Spec == SafeSpec /\ Fairness

(***************************************************************************)
(* Properties.                                                             *)
(***************************************************************************)
TypeOK ==
  /\ mode \in {"all", "any"}
  /\ size \in 0..N \ {1}
  /\ kept \in BOOLEAN
  /\ misread \in SUBSET Futures
  /\ setter \in [Futures -> {"idle", "half", "flush", "done"}]
  /\ success \in [Futures -> BOOLEAN]
  /\ hooked \in SUBSET Futures
  /\ queue \in Seq(Futures)
  /\ pc \in {"scan", "register", "done"}
  /\ i \in 1..(N + 1)
  /\ allDone \in BOOLEAN
  /\ left \in 0..N
  /\ result \in {"pending", "ok", "failed"}

Collection == 1..size

\* While the result is open, count_left is the number of members whose callback
\* is still to run, wherever it is, and the others have succeeded, or have failed and
\* were gone and misread: no callback is lost or counted twice between the scan, the
\* late registrations and the setters that finish meanwhile.
Outstanding ==
  hooked \cup Range(queue)
    \cup (IF pc = "register" THEN i..size ELSE {})
CountIsExact ==
  mode = "all" /\ pc # "scan" /\ result = "pending" =>
    /\ left = Cardinality(Outstanding)
    /\ \A k \in Collection \ Outstanding : Settled(k) /\ (success[k] <=> k \notin misread)

\* all() of members that are kept reports a failure only of a member that failed.
FailureIsReal ==
  mode = "all" /\ size # 0 /\ kept /\ result = "failed" =>
    \E k \in Collection : setter[k] # "idle" /\ ~success[k]

Together ==
  INSTANCE Joint
    WITH members <- Collection,
         verdict <- [k \in Futures |->
                       IF Settled(k) THEN Verdict(success[k])
                         ELSE IF setter[k] = "half" THEN "resolving" ELSE "pending"],
         flipped <- misread,
         joint <- result

\* The future that is returned gets the outcome the members call for, once; only a
\* look between the two writes, or a member that is gone, makes it another.
JointSafety == Together!SafeSpec

\* Besides, it gets it as soon as the members allow, whenever they are resolved:
\* before the scan, between the scan and the registration, or after.
ImplementsJoint == Together!Spec
=============================================================================
