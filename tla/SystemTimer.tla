----------------------------- MODULE SystemTimer -----------------------------
(***************************************************************************)
(* async/system_timer.{h,cpp}: callbacks ordered by the millisecond they   *)
(* are due at, and one task that polls for those that are overdue and      *)
(* calls them outside the lock.  A critical section is one step; callbacks *)
(* arm timers themselves, like any task.  delay() is a timer whose         *)
(* callback resolves a promise.                                            *)
(*                                                                         *)
(* The clock counts Fraction ticks to the millisecond; the code sees the   *)
(* milliseconds only (millis64).                                           *)
(***************************************************************************)
EXTENDS Naturals, FiniteSets

CONSTANTS Requests,   (* calls of set_timeout, one each                    *)
          Timeouts,   (* the timeouts they ask for, in milliseconds        *)
          Fraction,
          None,
          MaxMillis   (* bound: the clock stops there                      *)

ASSUME SystemTimerAssumption ==
  /\ Timeouts \subseteq Nat
  /\ Fraction \in Nat \ {0}
  /\ MaxMillis \in Nat
  /\ None \notin Requests

VARIABLES
  millis, ticks,  (* the clock: milliseconds, and ticks in this one         *)
  initialized,
  pc,             (* timer_task: "none", "sleep", "poll" or "run"           *)
  timers,         (* the requests in the priority queue                     *)
  timeoutAt,      (* per request: timeout_at                                *)
  running,        (* the request whose callback is being called, or None    *)
  hasPending,     (* what process_pending_tasks will return                 *)
  status,         (* per request: "new", "refused", "armed" or "fired"      *)
  armedAt         (* per request: the clock when it was armed, and for what *)

clock == <<millis, ticks>>
task == <<pc, running, hasPending>>
vars == <<clock, initialized, task, timers, timeoutAt, status, armedAt>>

Init ==
  /\ millis = 0
  /\ ticks \in 0..(Fraction - 1)
  /\ initialized = FALSE
  /\ pc = "none"
  /\ timers = {}
  /\ timeoutAt = [r \in Requests |-> 0]
  /\ running = None
  /\ hasPending = FALSE
  /\ status = [r \in Requests |-> "new"]
  /\ armedAt = [r \in Requests |-> [millis |-> 0, ticks |-> 0, timeout |-> 0]]

\* Time passes, up to the bound.
Tick ==
  /\ IF ticks < Fraction - 1
       THEN ticks' = ticks + 1 /\ UNCHANGED millis
       ELSE millis < MaxMillis /\ ticks' = 0 /\ millis' = millis + 1
  /\ UNCHANGED <<initialized, task, timers, timeoutAt, status, armedAt>>

Mark(r, s) == status' = [status EXCEPT ![r] = s]

\* A timer that can become due before the clock stops.
CanAsk(r, t) == status[r] = "new" /\ millis + t < MaxMillis

Push(r, t) ==
  /\ timers' = timers \cup {r}
  /\ timeoutAt' = [timeoutAt EXCEPT ![r] = millis + t]
  /\ armedAt' = [armedAt EXCEPT ![r] = [millis |-> millis, ticks |-> ticks, timeout |-> t]]
  /\ Mark(r, "armed")

\* Arms the timer though the task could not be created.
SetTimeoutRegardless(r, t) ==
  /\ CanAsk(r, t)
  /\ Push(r, t)
  /\ initialized' = TRUE
  /\ \/ pc' = IF initialized THEN pc ELSE "poll"
     \/ ~initialized /\ UNCHANGED pc
  /\ UNCHANGED <<clock, running, hasPending>>

\* set_timeout, the first one starting the task.
SetTimeout(r, t) ==
  /\ CanAsk(r, t)
  /\ Push(r, t)
  /\ initialized' = TRUE
  /\ pc' = IF initialized THEN pc ELSE "poll"
  /\ UNCHANGED <<clock, running, hasPending>>

\* start_task fails: set_timeout returns false, and delay() an errored future.
SetTimeoutFails(r, t) ==
  /\ CanAsk(r, t)
  /\ ~initialized
  /\ Mark(r, "refused")
  /\ UNCHANGED <<clock, initialized, task, timers, timeoutAt, armedAt>>

(***************************************************************************)
(* The task.                                                               *)
(***************************************************************************)
\* Compares with `<='.
Due(r) == timeoutAt[r] <= millis

\* has_pending_task compares milliseconds with `<': the millisecond the timer
\* is due in must be over.
Overdue(r) == timeoutAt[r] < millis

\* The requests that can be on top of the priority queue.
Top == {r \in timers : \A q \in timers : timeoutAt[r] <= timeoutAt[q]}

\* process_pending_tasks under the lock, nothing being overdue.
PollNone ==
  /\ pc = "poll"
  /\ ~ \E r \in Top : Overdue(r)
  /\ pc' = "sleep"
  /\ UNCHANGED <<clock, initialized, running, hasPending, timers, timeoutAt,
                 status, armedAt>>

\* Pops any overdue timer, not the first.
PollPopAny ==
  /\ pc = "poll"
  /\ \E r \in timers :
       /\ Overdue(r)
       /\ timers' = timers \ {r}
       /\ running' = r
       /\ Mark(r, "fired")
  /\ hasPending' = \E q \in timers' : Overdue(q)
  /\ pc' = "run"
  /\ UNCHANGED <<clock, initialized, timeoutAt, armedAt>>

\* process_pending_tasks under the lock: pop the top.
PollPop ==
  /\ pc = "poll"
  /\ \E r \in Top :
       /\ Overdue(r)
       /\ timers' = timers \ {r}
       /\ running' = r
       /\ Mark(r, "fired")
  /\ hasPending' = \E q \in timers' : Overdue(q)
  /\ pc' = "run"
  /\ UNCHANGED <<clock, initialized, timeoutAt, armedAt>>

\* The callback returns; delay_if_too_long only yields.
Return ==
  /\ pc = "run"
  /\ running' = None
  /\ pc' = IF hasPending THEN "poll" ELSE "sleep"
  /\ UNCHANGED <<clock, initialized, hasPending, timers, timeoutAt, status, armedAt>>

\* delayMicroseconds is over.
WakeUp ==
  /\ pc = "sleep"
  /\ pc' = "poll"
  /\ UNCHANGED <<clock, initialized, running, hasPending, timers, timeoutAt,
                 status, armedAt>>

TaskStep == PollNone \/ PollPop \/ Return \/ WakeUp

Next ==
  \/ Tick
  \/ \E r \in Requests, t \in Timeouts : SetTimeout(r, t) \/ SetTimeoutFails(r, t)
  \/ TaskStep

\* Time goes on, and the task is scheduled: it sleeps by busy waiting.
SafeSpec == Init /\ [][Next]_vars
Spec == SafeSpec /\ WF_vars(Tick) /\ WF_vars(TaskStep)

(***************************************************************************)
(* Properties.                                                             *)
(***************************************************************************)
TypeOK ==
  /\ millis \in 0..MaxMillis
  /\ ticks \in 0..(Fraction - 1)
  /\ initialized \in BOOLEAN
  /\ pc \in {"none", "sleep", "poll", "run"}
  /\ timers \in SUBSET Requests
  /\ timeoutAt \in [Requests -> 0..MaxMillis]
  /\ running \in Requests \cup {None}
  /\ hasPending \in BOOLEAN
  /\ status \in [Requests -> {"new", "refused", "armed", "fired"}]
  /\ armedAt \in [Requests -> [millis : Nat, ticks : 0..(Fraction - 1), timeout : Nat]]

\* The whole timeout has gone by, counted in ticks, since a was recorded.
Elapsed(a) ==
  \/ millis > a.millis + a.timeout
  \/ millis = a.millis + a.timeout /\ ticks >= a.ticks

\* No callback is called before its timeout has passed, though the code compares
\* whole milliseconds and the timer was armed in the middle of one.
NeverEarly == running # None => Elapsed(armedAt[running])

\* Callbacks are called in the order of their deadlines: while one is called, no
\* armed timer has an earlier deadline, those armed meanwhile included.
DeadlineOrder ==
  running # None => \A r \in timers : timeoutAt[running] <= timeoutAt[r]

\* Every timer that set_timeout accepted is called, once, and a delay() that was
\* accepted ends.
ArmedTimersFire ==
  \A r \in Requests : status[r] = "armed" ~> status[r] = "fired"
=============================================================================
