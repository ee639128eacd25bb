------------------------------- MODULE Promise -------------------------------
(***************************************************************************)
(* async/promise.{h,cpp} and async/future.{h,cpp}: one Promise<T>, the     *)
(* tasks that race to resolve it, those that register callbacks on it with *)
(* on_finished and those that look at it without the lock.  Promise<void>  *)
(* is the case of a single value.                                          *)
(*                                                                         *)
(* A critical section is one step, except that _finished and _success are  *)
(* written one after the other: code that takes no lock sees the state in  *)
(* between if it runs on the other core.  The dispatcher is Executor, which *)
(* Dispatcher implements: a queue of callbacks run one at a time.          *)
(*                                                                         *)
(* The promise lives while a shared_ptr to it exists.  A dispatched        *)
(* callback reads _success through a bare `this'; if the promise is gone   *)
(* by then, what it reads is arbitrary.                                    *)
(***************************************************************************)
EXTENDS Sequences, Functions

CONSTANTS
  Setters,          (* tasks that resolve the promise                       *)
  Listeners,        (* one callback each                                    *)
  Capturing,        (* the callbacks that hold the future: then, on_error   *)
  Readers,          (* tasks that poll, wait for or read the future         *)
  Values, Default,  (* results; Default is T{}                              *)
  Error, Pending,   (* rejected; no outcome yet                             *)
  NoOne,
  Unserved          (* the callbacks that may be submitted while the         *)
                    (* dispatcher task cannot be created                     *)

Outcomes == Values \cup {Error}

ASSUME PromiseAssumption ==
  /\ Capturing \subseteq Listeners
  /\ Default \in Values
  /\ Error \notin Values
  /\ Pending \notin Outcomes
  /\ NoOne \notin Setters \cup Listeners
  /\ Unserved \subseteq Listeners

VARIABLES
  finished, success, result,  (* _finished, _success, _result               *)
  lock,       (* the setter between the two writes, or NoOne                *)
  callbacks,  (* _on_finished_callbacks                                     *)
  queue,      (* the dispatcher: callbacks waiting for their turn           *)
  current,    (* the dispatcher: the callback it is about to call, or NoOne *)
  setter,     (* per setter: "idle", "mark", "marked", "flush" or "done"    *)
  wants,      (* per setter: the outcome it sets, Pending before the call   *)
  listener,   (* per listener: "idle", "late", "asked", "gone" or "left"    *)
  told,       (* per listener: what its callback was called with            *)
  reader,     (* per reader: "idle", "seen" or "gone"                       *)
  report,     (* per reader: what it made of the future                     *)
  torn        (* history: readers that read _success between the two writes *)

state == <<finished, success, result, lock>>
dispatcher == <<queue, current, told>>
setters == <<setter, wants>>
readers == <<reader, report, torn>>
vars == <<state, callbacks, dispatcher, setters, listener, readers>>

Init ==
  /\ finished = FALSE
  /\ success = FALSE
  /\ result = Default
  /\ lock = NoOne
  /\ callbacks = <<>>
  /\ queue = <<>>
  /\ current = NoOne
  /\ setter = [s \in Setters |-> "idle"]
  /\ wants = [s \in Setters |-> Pending]
  /\ listener = [l \in Listeners |-> "idle"]
  /\ told = [l \in Listeners |-> Pending]
  /\ reader = [r \in Readers |-> "idle"]
  /\ report = [r \in Readers |-> Pending]
  /\ torn = {}

\* A shared_ptr to the promise exists: in the hands of a task, or in a callback.
Alive ==
  \/ \E s \in Setters : setter[s] # "done"
  \/ \E l \in Listeners : listener[l] \in {"idle", "late", "asked"}
  \/ \E r \in Readers : reader[r] # "gone"
  \/ Capturing \cap (Range(callbacks) \cup Range(queue) \cup {current}) # {}

\* Dispatcher::dispatch.  Its callers ignore what it returns.
Submit(l) ==
  \/ queue' = Append(queue, l)
  \/ l \in Unserved /\ UNCHANGED queue

(***************************************************************************)
(* Resolving.                                                              *)
(***************************************************************************)
Go(s, step) == setter' = [setter EXCEPT ![s] = step]

\* set_success(value) that does not keep the value.
StoreResultNever(s, v) ==
  /\ setter[s] = "idle"
  /\ lock = NoOne
  /\ wants' = [wants EXCEPT ![s] = v]
  /\ Go(s, IF finished THEN "done" ELSE "mark")
  /\ UNCHANGED <<finished, success, result, lock, callbacks, dispatcher, listener, readers>>

\* set_success(value), first critical section: keep the value unless the promise
\* is finished; a task that finds it finished is done.
StoreResult(s, v) ==
  /\ setter[s] = "idle"
  /\ lock = NoOne
  /\ wants' = [wants EXCEPT ![s] = v]
  /\ IF finished
       THEN Go(s, "done") /\ UNCHANGED result
       ELSE Go(s, "mark") /\ result' = v
  /\ UNCHANGED <<finished, success, lock, callbacks, dispatcher, listener, readers>>

\* set_error has one critical section only.
SetError(s) ==
  /\ setter[s] = "idle"
  /\ wants' = [wants EXCEPT ![s] = Error]
  /\ Go(s, "mark")
  /\ UNCHANGED <<state, callbacks, dispatcher, listener, readers>>

\* The task drops the promise without resolving it.
Forsake(s) ==
  /\ setter[s] = "idle"
  /\ Go(s, "done")
  /\ UNCHANGED <<state, callbacks, dispatcher, wants, listener, readers>>

\* Resolving without the test for a promise that is resolved already.
MarkFinishedAgain(s) ==
  /\ setter[s] = "mark"
  /\ lock = NoOne
  /\ finished' = TRUE
  /\ lock' = s
  /\ Go(s, "marked")
  /\ UNCHANGED <<success, result, callbacks, dispatcher, wants, listener, readers>>

\* PromiseBase::set_success and set_error under the lock, the promise being
\* unresolved: _finished is written first ...
MarkFinished(s) ==
  /\ setter[s] = "mark"
  /\ lock = NoOne
  /\ ~finished
  /\ finished' = TRUE
  /\ lock' = s
  /\ Go(s, "marked")
  /\ UNCHANGED <<success, result, callbacks, dispatcher, wants, listener, readers>>

\* ... then _success, and the lock is left.
MarkSuccess(s) ==
  /\ setter[s] = "marked"
  /\ success' = (wants[s] # Error)
  /\ lock' = NoOne
  /\ Go(s, "flush")
  /\ UNCHANGED <<finished, result, callbacks, dispatcher, wants, listener, readers>>

\* The promise was resolved by another task since: nothing happens.
MarkTooLate(s) ==
  /\ setter[s] = "mark"
  /\ lock = NoOne
  /\ finished
  /\ Go(s, "done")
  /\ UNCHANGED <<state, callbacks, dispatcher, wants, listener, readers>>

\* _on_promise_finished, outside the lock: one callback of the loop.
Flush(s) ==
  /\ setter[s] = "flush"
  /\ callbacks # <<>>
  /\ Submit(Head(callbacks))
  /\ callbacks' = Tail(callbacks)
  /\ UNCHANGED <<state, current, told, setters, listener, readers>>

\* The loop is over; the task drops its pointer when the call returns.
FlushEnd(s) ==
  /\ setter[s] = "flush"
  /\ callbacks = <<>>
  /\ Go(s, "done")
  /\ UNCHANGED <<state, callbacks, dispatcher, wants, listener, readers>>

(***************************************************************************)
(* Registering callbacks.                                                  *)
(***************************************************************************)
Turn(l, step) == listener' = [listener EXCEPT ![l] = step]

\* on_finished that does not look whether the promise is finished.
OnFinishedBlind(l) ==
  /\ listener[l] = "idle"
  /\ lock = NoOne
  /\ Turn(l, "asked")
  /\ callbacks' = Append(callbacks, l)
  /\ UNCHANGED <<state, dispatcher, setters, readers>>

\* on_finished under the lock: keep the callback, or find the promise finished.
OnFinished(l) ==
  /\ listener[l] = "idle"
  /\ lock = NoOne
  /\ IF finished
       THEN Turn(l, "late") /\ UNCHANGED callbacks
       ELSE Turn(l, "asked") /\ callbacks' = Append(callbacks, l)
  /\ UNCHANGED <<state, dispatcher, setters, readers>>

\* on_finished of a finished promise, outside the lock.
DispatchLate(l) ==
  /\ listener[l] = "late"
  /\ Submit(l)
  /\ Turn(l, "asked")
  /\ UNCHANGED <<state, callbacks, current, told, setters, readers>>

\* The task drops its future, having registered ("gone") or not ("left").
DropFuture(l) ==
  /\ \/ listener[l] = "asked" /\ Turn(l, "gone")
     \/ listener[l] = "idle" /\ Turn(l, "left")
  /\ UNCHANGED <<state, callbacks, dispatcher, setters, readers>>

(***************************************************************************)
(* The dispatcher task.                                                    *)
(***************************************************************************)
StartCallback ==
  /\ current = NoOne
  /\ queue # <<>>
  /\ current' = Head(queue)
  /\ queue' = Tail(queue)
  /\ UNCHANGED <<state, callbacks, told, setters, listener, readers>>

Hears(l, o) == told' = [told EXCEPT ![l] = o]

\* callback(_success); the callback of a Future<T> goes on to read result().
RunCallback ==
  /\ current # NoOne
  /\ \/ Alive /\ Hears(current, IF success THEN result ELSE Error)
     \/ ~Alive /\ \E o \in Outcomes : Hears(current, o)
  /\ current' = NoOne
  /\ UNCHANGED <<state, callbacks, queue, setters, listener, readers>>

(***************************************************************************)
(* Looking without the lock: finished(), then success() or result(), as    *)
(* result(), Promise::all and Promise::any do.  Each look may fall between *)
(* the two writes.                                                         *)
(***************************************************************************)
\* finished(), or the loop of wait(), finds the promise finished.
SeeFinished(r) ==
  /\ reader[r] = "idle"
  /\ finished
  /\ reader' = [reader EXCEPT ![r] = "seen"]
  /\ UNCHANGED <<state, callbacks, dispatcher, setters, listener, report, torn>>

\* wait() times out, having looked at _finished once more.
TimeOut(r) ==
  /\ reader[r] = "idle"
  /\ ~finished
  /\ reader' = [reader EXCEPT ![r] = "gone"]
  /\ UNCHANGED <<state, callbacks, dispatcher, setters, listener, report, torn>>

\* success() or result().
ReadSuccess(r) ==
  /\ reader[r] = "seen"
  /\ report' = [report EXCEPT ![r] = IF success THEN result ELSE Error]
  /\ reader' = [reader EXCEPT ![r] = "gone"]
  /\ torn' = IF lock = NoOne THEN torn ELSE torn \cup {r}
  /\ UNCHANGED <<state, callbacks, dispatcher, setters, listener>>

SetterRuns(s) ==
  MarkFinished(s) \/ MarkSuccess(s) \/ MarkTooLate(s) \/ Flush(s) \/ FlushEnd(s)

Next ==
  \/ \E s \in Setters :
       \/ \E v \in Values : StoreResult(s, v)
       \/ SetError(s)
       \/ Forsake(s)
       \/ SetterRuns(s)
  \/ \E l \in Listeners : OnFinished(l) \/ DispatchLate(l) \/ DropFuture(l)
  \/ StartCallback
  \/ RunCallback
  \/ \E r \in Readers : SeeFinished(r) \/ TimeOut(r) \/ ReadSuccess(r)

(***************************************************************************)
(* A task that has entered set_success, set_error or the second half of    *)
(* on_finished gets on with it, and so does the dispatcher task (the       *)
(* executor's fairness).  Nobody has to enter.                             *)
(***************************************************************************)
Fairness ==
  /\ \A s \in Setters : WF_vars(SetterRuns(s))
  /\ \A l \in Listeners : WF_vars(DispatchLate(l))
  /\ WF_vars(StartCallback)
  /\ WF_vars(RunCallback)

SafeSpec == Init /\ [][Next]_vars
Spec == SafeSpec /\ Fairness

(***************************************************************************)
(* Properties.                                                             *)
(***************************************************************************)
TypeOK ==
  /\ finished \in BOOLEAN
  /\ success \in BOOLEAN
  /\ result \in Values
  /\ lock \in Setters \cup {NoOne}
  /\ callbacks \in Seq(Listeners)
  /\ queue \in Seq(Listeners)
  /\ current \in Listeners \cup {NoOne}
  /\ setter \in [Setters -> {"idle", "mark", "marked", "flush", "done"}]
  /\ wants \in [Setters -> Outcomes \cup {Pending}]
  /\ listener \in [Listeners -> {"idle", "late", "asked", "gone", "left"}]
  /\ told \in [Listeners -> Outcomes \cup {Pending}]
  /\ reader \in [Readers -> {"idle", "seen", "gone"}]
  /\ report \in [Readers -> Outcomes \cup {Pending}]
  /\ torn \in SUBSET Readers

\* The outcome, once the critical section that decided it is over.
Outcome ==
  IF finished /\ lock = NoOne THEN (IF success THEN result ELSE Error) ELSE Pending

\* A finished promise stays as it is, whatever the tasks that lost the race to
\* resolve it still do: nobody who has read result() can read something else later.
FinishedIsFinal ==
  [][finished => /\ finished'
                 /\ result' = result
                 /\ lock = NoOne => lock' = NoOne /\ success' = success]_vars

\* The outcome is one that some task asked for, never a mixture: the Default a
\* promise starts with, or a value without success.
OutcomeWasWanted == Outcome # Pending => \E s \in Setters : wants[s] = Outcome

\* Code that sees finished() and then reads success() or result() is told the outcome
\* that the promise keeps, with one exception: who reads _success between the two
\* writes may take a success for a failure (in result() that is the abort on an
\* `unfinished or unsuccessful promise').  Nobody is ever given a wrong value, or
\* takes a failure for a success, whichever tasks still try to resolve it.
ReadersAgree ==
  \A r \in Readers : report[r] # Pending =>
    \/ lock = NoOne /\ report[r] = Outcome
    \/ r \in torn /\ report[r] = Error

\* A callback that was called was called with the outcome.
CallbacksAgree == \A l \in Listeners : told[l] # Pending => told[l] = Outcome

\* The task that did resolve the promise set its outcome; the others are told
\* that they are `Trying to resolve already resolved promise' and do nothing.
WinnerDecides == \A s \in Setters : setter[s] = "flush" => Outcome = wants[s]

Contract ==
  INSTANCE OneShot
    WITH outcome <- Outcome,
         Served <- Listeners \ Unserved,
         asked <- {l \in Listeners : listener[l] \in {"late", "asked", "gone"}}

\* The promise is resolved at most once, and each callback is called at most
\* once, after that, with the outcome.
OneShotSafety == Contract!SafeSpec

\* Besides, a callback registered on a promise that gets resolved is called,
\* whichever side of the resolution on_finished falls on, unless the dispatcher
\* task could not be created.
ImplementsOneShot == Contract!Spec
=============================================================================
