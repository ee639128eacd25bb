------------------------------ MODULE Executor ------------------------------
(***************************************************************************)
(* What Dispatcher promises to the code that hands it functions: a job     *)
(* that was accepted runs exactly once, jobs run one at a time and in the  *)
(* order in which they were accepted, and no accepted job waits for ever.  *)
(***************************************************************************)
EXTENDS Sequences, Functions

CONSTANTS Jobs,   (* the functions that can be handed over                 *)
          NoJob   (* nothing is running                                    *)

VARIABLES waiting,  (* accepted and not yet started, oldest first          *)
          current,  (* the job that is running, or NoJob                   *)
          done      (* the jobs that have returned                         *)

vars == <<waiting, current, done>>

Known == Range(waiting) \cup {current} \cup done

Init == waiting = <<>> /\ current = NoJob /\ done = {}

Accept(j) ==
  /\ j \notin Known
  /\ waiting' = Append(waiting, j)
  /\ UNCHANGED <<current, done>>

Start ==
  /\ current = NoJob
  /\ waiting # <<>>
  /\ current' = Head(waiting)
  /\ waiting' = Tail(waiting)
  /\ UNCHANGED done

Finish ==
  /\ current # NoJob
  /\ done' = done \cup {current}
  /\ current' = NoJob
  /\ UNCHANGED waiting

Next == (\E j \in Jobs : Accept(j)) \/ Start \/ Finish

SafeSpec == Init /\ [][Next]_vars
Spec == SafeSpec /\ WF_vars(Start) /\ WF_vars(Finish)
=============================================================================
