--------------------------- MODULE PromiseProofs ---------------------------
(***************************************************************************)
(* Proofs about the dispatcher and about promises.                         *)
(*                                                                         *)
(* Dispatcher, for any callers and any functions: types, the single        *)
(* dispatcher task, the absence of lost wakeups, and that every step is a  *)
(* step of Executor or leaves it unchanged.                                *)
(*                                                                         *)
(* Promise, for any number of setters, callbacks and readers on any cores: *)
(* types, finality, where outcomes come from, what readers are told, and,  *)
(* when every callback holds the future, that each step is a step of       *)
(* OneShot or leaves it unchanged.                                         *)
(***************************************************************************)
EXTENDS Dispatcher, Promise, SeqFacts

(***************************************************************************)
(* Dispatcher.                                                             *)
(***************************************************************************)
\* A call holds a function exactly while it is to be queued, and queues it only
\* once the task exists.
CallsOK ==
  \A t \in Threads :
    /\ call[t] = "idle" => arg[t] = NoJob
    /\ call[t] = "push" => initialized /\ arg[t] \in Jobs

\* The task's program counter and what the other variables say about it.
WorkerOK ==
  /\ pc = "none" <=> ~initialized
  /\ ~initialized => dispatched = <<>>
  /\ pc = "run" <=> running # NoJob

\* A function is in one place at a time.
Seen == Range(dispatched) \cup {running} \cup returned
DispatcherPlacesOK ==
  /\ \A t \in Threads : arg[t] # NoJob => arg[t] \notin Seen \cup fresh
  /\ \A s, t \in Threads : s # t /\ arg[s] # NoJob => arg[s] # arg[t]
  /\ fresh \cap Seen = {}

DispatcherIInv ==
  DispatcherTypeOK /\ OneWorker /\ CallsOK /\ WorkerOK /\ NoLostWakeup /\
    DispatcherPlacesOK

\* The initial state satisfies the inductive invariant.
LEMMA DispatcherInitIInv == DispatcherInit => DispatcherIInv
<1> SUFFICES ASSUME DispatcherInit PROVE DispatcherIInv OBVIOUS
<1> USE DispatcherAssumption DEF DispatcherInit
<1>1. DispatcherTypeOK
  <2>1. <<>> \in Seq(Jobs) BY EmptyFacts
  <2> QED BY <2>1 DEF DispatcherTypeOK
<1>2. OneWorker BY DEF OneWorker
<1>3. CallsOK BY DEF CallsOK
<1>4. WorkerOK BY DEF WorkerOK
<1>5. NoLostWakeup BY DEF NoLostWakeup
<1>6. DispatcherPlacesOK BY EmptyFacts DEF DispatcherPlacesOK, Seen
<1> QED BY <1>1, <1>2, <1>3, <1>4, <1>5, <1>6 DEF DispatcherIInv

\* Every step of the program preserves the inductive invariant.
LEMMA DispatcherNextIInv == DispatcherIInv /\ [DispatcherNext]_dispatcherVars
  => DispatcherIInv'
<1> SUFFICES ASSUME DispatcherIInv, [DispatcherNext]_dispatcherVars
             PROVE DispatcherIInv' OBVIOUS
<1> USE DispatcherAssumption DEF DispatcherIInv, workerVars, Threads
<1>1. ASSUME NEW t \in Callers, CallBegin(t) PROVE DispatcherIInv'
  <2> USE <1>1 DEF CallBegin, Enter, CanCall
  <2>1. DispatcherTypeOK' BY DEF DispatcherTypeOK
  <2>2. OneWorker' BY DEF OneWorker
  <2>3. CallsOK' BY DEF DispatcherTypeOK, CallsOK
  <2>4. WorkerOK' BY DEF DispatcherTypeOK, CallsOK, WorkerOK
  <2>5. NoLostWakeup' BY DEF DispatcherTypeOK, WorkerOK, NoLostWakeup
  <2>6. DispatcherPlacesOK'
    BY DEF DispatcherTypeOK, CallsOK, WorkerOK, DispatcherPlacesOK, Seen
  <2> QED BY <2>1, <2>2, <2>3, <2>4, <2>5, <2>6
<1>2. ASSUME NEW t \in Threads, NEW j \in Jobs, Dispatch(t, j) PROVE DispatcherIInv'
  <2> USE <1>2 DEF Dispatch, Enter, CanCall
  <2>1. DispatcherTypeOK' BY DEF DispatcherTypeOK
  <2>2. OneWorker' BY DEF OneWorker
  <2>3. CallsOK' BY DEF DispatcherTypeOK, CallsOK
  <2>4. WorkerOK' BY DEF DispatcherTypeOK, CallsOK, WorkerOK
  <2>5. NoLostWakeup' BY DEF DispatcherTypeOK, WorkerOK, NoLostWakeup
  <2>6. DispatcherPlacesOK'
    BY DEF DispatcherTypeOK, CallsOK, WorkerOK, DispatcherPlacesOK, Seen
  <2> QED BY <2>1, <2>2, <2>3, <2>4, <2>5, <2>6
<1>3. ASSUME NEW t \in Threads, CreateWorker(t) PROVE DispatcherIInv'
  <2> USE <1>3 DEF CreateWorker, AfterBegin
  <2>1. DispatcherTypeOK' BY DEF DispatcherTypeOK
  <2>2. OneWorker' BY DEF OneWorker
  <2>3. CallsOK' BY DEF DispatcherTypeOK, CallsOK
  <2>4. WorkerOK' BY DEF DispatcherTypeOK, CallsOK, WorkerOK
  <2>5. NoLostWakeup' BY DEF DispatcherTypeOK, WorkerOK, NoLostWakeup
  <2>6. DispatcherPlacesOK'
    BY DEF DispatcherTypeOK, CallsOK, WorkerOK, DispatcherPlacesOK, Seen
  <2> QED BY <2>1, <2>2, <2>3, <2>4, <2>5, <2>6
<1>4. ASSUME NEW t \in Threads, BeginAgain(t) PROVE DispatcherIInv'
  <2> USE <1>4 DEF BeginAgain, AfterBegin
  <2>1. DispatcherTypeOK' BY DEF DispatcherTypeOK
  <2>2. OneWorker' BY DEF OneWorker
  <2>3. CallsOK' BY DEF DispatcherTypeOK, CallsOK
  <2>4. WorkerOK' BY DEF DispatcherTypeOK, CallsOK, WorkerOK
  <2>5. NoLostWakeup' BY DEF DispatcherTypeOK, WorkerOK, NoLostWakeup
  <2>6. DispatcherPlacesOK'
    BY DEF DispatcherTypeOK, CallsOK, WorkerOK, DispatcherPlacesOK, Seen
  <2> QED BY <2>1, <2>2, <2>3, <2>4, <2>5, <2>6
<1>5. ASSUME NEW t \in Threads, BeginFails(t) PROVE DispatcherIInv'
  <2> USE <1>5 DEF BeginFails, Enter
  <2>1. DispatcherTypeOK' BY DEF DispatcherTypeOK
  <2>2. OneWorker' BY DEF OneWorker
  <2>3. CallsOK' BY DEF DispatcherTypeOK, CallsOK
  <2>4. WorkerOK' BY DEF DispatcherTypeOK, CallsOK, WorkerOK
  <2>5. NoLostWakeup' BY DEF DispatcherTypeOK, WorkerOK, NoLostWakeup
  <2>6. DispatcherPlacesOK'
    BY DEF DispatcherTypeOK, CallsOK, WorkerOK, DispatcherPlacesOK, Seen
  <2> QED BY <2>1, <2>2, <2>3, <2>4, <2>5, <2>6
<1>6. ASSUME NEW t \in Threads, Push(t) PROVE DispatcherIInv'
  <2> USE <1>6 DEF Push, Enter
  <2>0. /\ dispatched' \in Seq(Jobs) /\ dispatched' # <<>>
        /\ Range(dispatched') = Range(dispatched) \cup {arg[t]}
    BY PushFacts DEF DispatcherTypeOK, CallsOK
  <2>1. DispatcherTypeOK' BY <2>0 DEF DispatcherTypeOK
  <2>2. OneWorker' BY DEF OneWorker
  <2>3. CallsOK' BY DEF DispatcherTypeOK, CallsOK
  <2>4. WorkerOK' BY <2>0 DEF DispatcherTypeOK, CallsOK, WorkerOK
  <2>5. NoLostWakeup' BY <2>0 DEF DispatcherTypeOK, WorkerOK, NoLostWakeup
  <2>6. DispatcherPlacesOK'
    BY <2>0 DEF DispatcherTypeOK, CallsOK, WorkerOK, DispatcherPlacesOK, Seen
  <2> QED BY <2>1, <2>2, <2>3, <2>4, <2>5, <2>6
<1>7. ASSUME Wake PROVE DispatcherIInv'
  <2> USE <1>7 DEF Wake
  <2>1. DispatcherTypeOK' BY DEF DispatcherTypeOK
  <2>2. OneWorker' BY DEF OneWorker
  <2>3. CallsOK' BY DEF DispatcherTypeOK, CallsOK
  <2>4. WorkerOK' BY DEF DispatcherTypeOK, CallsOK, WorkerOK
  <2>5. NoLostWakeup' BY DEF DispatcherTypeOK, WorkerOK, NoLostWakeup
  <2>6. DispatcherPlacesOK'
    BY DEF DispatcherTypeOK, CallsOK, WorkerOK, DispatcherPlacesOK, Seen
  <2> QED BY <2>1, <2>2, <2>3, <2>4, <2>5, <2>6
<1>8. ASSUME PollEmpty PROVE DispatcherIInv'
  <2> USE <1>8 DEF PollEmpty
  <2>1. DispatcherTypeOK' BY DEF DispatcherTypeOK
  <2>2. OneWorker' BY DEF OneWorker
  <2>3. CallsOK' BY DEF DispatcherTypeOK, CallsOK
  <2>4. WorkerOK' BY DEF DispatcherTypeOK, CallsOK, WorkerOK
  <2>5. NoLostWakeup' BY DEF DispatcherTypeOK, WorkerOK, NoLostWakeup
  <2>6. DispatcherPlacesOK'
    BY DEF DispatcherTypeOK, CallsOK, WorkerOK, DispatcherPlacesOK, Seen
  <2> QED BY <2>1, <2>2, <2>3, <2>4, <2>5, <2>6
<1>9. ASSUME PollPop PROVE DispatcherIInv'
  <2> USE <1>9 DEF PollPop
  <2>0. /\ running' \in Jobs /\ dispatched' \in Seq(Jobs)
        /\ Range(dispatched) = {running'} \cup Range(dispatched')
    BY PopFacts DEF DispatcherTypeOK
  <2>1. DispatcherTypeOK' BY <2>0 DEF DispatcherTypeOK
  <2>2. OneWorker' BY DEF OneWorker
  <2>3. CallsOK' BY DEF DispatcherTypeOK, CallsOK
  <2>4. WorkerOK' BY <2>0 DEF DispatcherTypeOK, CallsOK, WorkerOK
  <2>5. NoLostWakeup' BY <2>0 DEF DispatcherTypeOK, WorkerOK, NoLostWakeup
  <2>6. DispatcherPlacesOK'
    BY <2>0 DEF DispatcherTypeOK, CallsOK, WorkerOK, DispatcherPlacesOK, Seen
  <2> QED BY <2>1, <2>2, <2>3, <2>4, <2>5, <2>6
<1>10. ASSUME Return PROVE DispatcherIInv'
  <2> USE <1>10 DEF Return
  <2>1. DispatcherTypeOK' BY DEF DispatcherTypeOK, WorkerOK
  <2>2. OneWorker' BY DEF OneWorker
  <2>3. CallsOK' BY DEF DispatcherTypeOK, CallsOK
  <2>4. WorkerOK' BY DEF DispatcherTypeOK, CallsOK, WorkerOK
  <2>5. NoLostWakeup' BY DEF DispatcherTypeOK, WorkerOK, NoLostWakeup
  <2>6. DispatcherPlacesOK'
    BY DEF DispatcherTypeOK, CallsOK, WorkerOK, DispatcherPlacesOK, Seen
  <2> QED BY <2>1, <2>2, <2>3, <2>4, <2>5, <2>6
<1>11. ASSUME UNCHANGED dispatcherVars PROVE DispatcherIInv'
  <2> USE <1>11 DEF dispatcherVars
  <2>1. DispatcherTypeOK' BY DEF DispatcherTypeOK
  <2>2. OneWorker' BY DEF OneWorker
  <2>3. CallsOK' BY DEF DispatcherTypeOK, CallsOK
  <2>4. WorkerOK' BY DEF DispatcherTypeOK, CallsOK, WorkerOK
  <2>5. NoLostWakeup' BY DEF DispatcherTypeOK, WorkerOK, NoLostWakeup
  <2>6. DispatcherPlacesOK'
    BY DEF DispatcherTypeOK, CallsOK, WorkerOK, DispatcherPlacesOK, Seen
  <2> QED BY <2>1, <2>2, <2>3, <2>4, <2>5, <2>6
<1> QED
  BY <1>1, <1>2, <1>3, <1>4, <1>5, <1>6, <1>7, <1>8, <1>9, <1>10, <1>11
  DEF DispatcherNext, WorkerStep

\* The inductive invariant holds of every reachable state.
THEOREM DispatcherInductive == DispatcherSafeSpec => []DispatcherIInv
<1>1. DispatcherInit => DispatcherIInv BY DispatcherInitIInv
<1>2. DispatcherIInv /\ [DispatcherNext]_dispatcherVars => DispatcherIInv'
  BY DispatcherNextIInv
<1> QED BY <1>1, <1>2, PTL DEF DispatcherSafeSpec

\* Every variable of the dispatcher keeps its type.
THEOREM DispatcherTypeCorrect == DispatcherSafeSpec => []DispatcherTypeOK
<1>1. DispatcherIInv => DispatcherTypeOK BY DEF DispatcherIInv
<1> QED BY <1>1, DispatcherInductive, PTL

\* However many tasks and interrupts race through begin(), one dispatcher task
\* is created at most.
THEOREM SingleWorker == DispatcherSafeSpec => []OneWorker
<1>1. DispatcherIInv => OneWorker BY DEF DispatcherIInv
<1> QED BY <1>1, DispatcherInductive, PTL

\* The dispatcher task never goes to sleep on queued functions without a
\* notification that will wake it up again.
THEOREM NoWakeupLost == DispatcherSafeSpec => []NoLostWakeup
<1>1. DispatcherIInv => NoLostWakeup BY DEF DispatcherIInv
<1> QED BY <1>1, DispatcherInductive, PTL

\* Each step is a step of the abstract executor or leaves it as it was: Push
\* accepts, PollPop starts, Return finishes.
LEMMA DispatcherStepRefines == DispatcherIInv /\ [DispatcherNext]_dispatcherVars
  => [Exec!Next]_(Exec!vars)
<1> SUFFICES ASSUME DispatcherIInv, [DispatcherNext]_dispatcherVars
             PROVE [Exec!Next]_(Exec!vars) OBVIOUS
<1> USE DEF DispatcherIInv, workerVars, Exec!vars
<1>1. ASSUME NEW t \in Callers, CallBegin(t) PROVE UNCHANGED Exec!vars
  BY <1>1 DEF CallBegin
<1>2. ASSUME NEW t \in Threads, NEW j \in Jobs, Dispatch(t, j)
      PROVE  UNCHANGED Exec!vars
  BY <1>2 DEF Dispatch
<1>3. ASSUME NEW t \in Threads, CreateWorker(t) PROVE UNCHANGED Exec!vars
  BY <1>3 DEF CreateWorker
<1>4. ASSUME NEW t \in Threads, BeginAgain(t) PROVE UNCHANGED Exec!vars
  BY <1>4 DEF BeginAgain
<1>5. ASSUME NEW t \in Threads, BeginFails(t) PROVE UNCHANGED Exec!vars
  BY <1>5 DEF BeginFails
<1>6. ASSUME NEW t \in Threads, Push(t) PROVE \E j \in Jobs : Exec!Accept(j)
  <2>1. arg[t] \in Jobs BY <1>6 DEF Push, CallsOK
  <2>2. arg[t] \notin Exec!Known
    BY <1>6, <2>1, DispatcherAssumption
    DEF DispatcherPlacesOK, Seen, Range, Exec!Known, Exec!Range
  <2> QED BY <1>6, <2>1, <2>2 DEF Push, Exec!Accept
<1>7. ASSUME Wake PROVE UNCHANGED Exec!vars BY <1>7 DEF Wake
<1>8. ASSUME PollEmpty PROVE UNCHANGED Exec!vars BY <1>8 DEF PollEmpty
<1>9. ASSUME PollPop PROVE Exec!Start
  BY <1>9 DEF PollPop, WorkerOK, Exec!Start
<1>10. ASSUME Return PROVE Exec!Finish
  BY <1>10 DEF Return, WorkerOK, Exec!Finish
<1>11. ASSUME UNCHANGED dispatcherVars PROVE UNCHANGED Exec!vars
  BY <1>11 DEF dispatcherVars
<1> QED
  BY <1>1, <1>2, <1>3, <1>4, <1>5, <1>6, <1>7, <1>8, <1>9, <1>10, <1>11
  DEF DispatcherNext, WorkerStep, Exec!Next

\* The dispatcher implements the executor: what it accepts runs exactly once,
\* one function at a time, in the order of acceptance.
THEOREM RefinesExecutor == DispatcherSafeSpec => ExecutorSafety
<1>1. DispatcherInit => Exec!Init BY DEF DispatcherInit, Exec!Init
<1>2. DispatcherIInv /\ [DispatcherNext]_dispatcherVars => [Exec!Next]_(Exec!vars)
  BY DispatcherStepRefines
<1> QED
  BY <1>1, <1>2, DispatcherInductive, PTL
  DEF DispatcherSafeSpec, ExecutorSafety, Exec!SafeSpec

(***************************************************************************)
(* Promise.                                                                *)
(***************************************************************************)
\* The setter between the two writes is the one that has the lock.
LockOK ==
  /\ \A s \in Setters : setter[s] = "marked" <=> lock = s
  /\ lock # NoOne => finished /\ lock \in Setters
  /\ success => finished /\ lock = NoOne

\* While the promise has no outcome for others to see, nothing has left it.
NothingLeft ==
  /\ queue = <<>>
  /\ current = NoOne
  /\ \A l \in Listeners : listener[l] # "late" /\ told[l] = Pending
  /\ \A s \in Setters : setter[s] # "flush"
UnresolvedOK == ~finished \/ lock # NoOne => NothingLeft

\* What the setters want, and that the value in the promise is one of those.
WantsOK ==
  /\ \A s \in Setters :
       /\ setter[s] = "idle" => wants[s] = Pending
       /\ setter[s] \in {"mark", "marked", "flush"} => wants[s] \in Outcomes
       /\ setter[s] \in {"mark", "marked"} /\ wants[s] # Error
            => \E w \in Setters : wants[w] = result
  /\ Outcome # Pending => \E s \in Setters : wants[s] = Outcome

\* A callback that waits in the promise or in the dispatcher is there once, and
\* has not been called.
Waiting == Range(callbacks) \cup Range(queue) \cup {current}
PlacesOK ==
  /\ IsInjective(callbacks) /\ IsInjective(queue)
  /\ Range(callbacks) \cap Range(queue) = {}
  /\ current \notin Range(callbacks) \cup Range(queue)
  /\ \A l \in Listeners :
       l \in Waiting => listener[l] \in {"asked", "gone"} /\ told[l] = Pending
  /\ \A l \in Listeners : told[l] # Pending => listener[l] \in {"asked", "gone"}

IInv == TypeOK /\ LockOK /\ UnresolvedOK /\ WantsOK /\ PlacesOK

\* The initial state satisfies the inductive invariant.
LEMMA InitIInv == Init => IInv
<1> SUFFICES ASSUME Init PROVE IInv OBVIOUS
<1> USE PromiseAssumption, EmptyFacts DEF Init
<1>1. TypeOK BY DEF TypeOK
<1>2. LockOK BY DEF LockOK
<1>3. UnresolvedOK BY DEF UnresolvedOK, NothingLeft
<1>4. WantsOK BY DEF WantsOK, Outcome
<1>5. PlacesOK BY DEF PlacesOK, Waiting
<1> QED BY <1>1, <1>2, <1>3, <1>4, <1>5 DEF IInv

\* Every step preserves the inductive invariant.
LEMMA NextIInv == IInv /\ [Next]_vars => IInv'
<1> SUFFICES ASSUME IInv, [Next]_vars PROVE IInv' OBVIOUS
<1> USE PromiseAssumption
    DEF IInv, state, dispatcher, setters, readers, Outcomes
<1>1. ASSUME NEW s \in Setters, NEW v \in Values, StoreResult(s, v)
      PROVE  IInv'
  <2> USE <1>1 DEF StoreResult, Go
  <2>1. TypeOK' BY DEF TypeOK
  <2>2. LockOK' BY DEF TypeOK, LockOK
  <2>3. UnresolvedOK' BY DEF TypeOK, LockOK, UnresolvedOK, NothingLeft
  <2>4. WantsOK' BY DEF TypeOK, LockOK, UnresolvedOK, NothingLeft, WantsOK, Outcome
  <2>5. PlacesOK' BY DEF TypeOK, LockOK, UnresolvedOK, NothingLeft, PlacesOK, Waiting
  <2> QED BY <2>1, <2>2, <2>3, <2>4, <2>5
<1>2. ASSUME NEW s \in Setters, SetError(s) PROVE IInv'
  <2> USE <1>2 DEF SetError, Go
  <2>1. TypeOK' BY DEF TypeOK
  <2>2. LockOK' BY DEF TypeOK, LockOK
  <2>3. UnresolvedOK' BY DEF TypeOK, LockOK, UnresolvedOK, NothingLeft
  <2>4. WantsOK' BY DEF TypeOK, LockOK, UnresolvedOK, NothingLeft, WantsOK, Outcome
  <2>5. PlacesOK' BY DEF TypeOK, LockOK, UnresolvedOK, NothingLeft, PlacesOK, Waiting
  <2> QED BY <2>1, <2>2, <2>3, <2>4, <2>5
<1>3. ASSUME NEW s \in Setters, Forsake(s) PROVE IInv'
  <2> USE <1>3 DEF Forsake, Go
  <2>1. TypeOK' BY DEF TypeOK
  <2>2. LockOK' BY DEF TypeOK, LockOK
  <2>3. UnresolvedOK' BY DEF TypeOK, LockOK, UnresolvedOK, NothingLeft
  <2>4. WantsOK' BY DEF TypeOK, LockOK, UnresolvedOK, NothingLeft, WantsOK, Outcome
  <2>5. PlacesOK' BY DEF TypeOK, LockOK, UnresolvedOK, NothingLeft, PlacesOK, Waiting
  <2> QED BY <2>1, <2>2, <2>3, <2>4, <2>5
<1>4. ASSUME NEW s \in Setters, MarkFinished(s) PROVE IInv'
  <2> USE <1>4 DEF MarkFinished, Go
  <2>1. TypeOK' BY DEF TypeOK
  <2>2. LockOK' BY DEF TypeOK, LockOK
  <2>3. UnresolvedOK' BY DEF TypeOK, LockOK, UnresolvedOK, NothingLeft
  <2>4. WantsOK' BY DEF TypeOK, LockOK, UnresolvedOK, NothingLeft, WantsOK, Outcome
  <2>5. PlacesOK' BY DEF TypeOK, LockOK, UnresolvedOK, NothingLeft, PlacesOK, Waiting
  <2> QED BY <2>1, <2>2, <2>3, <2>4, <2>5
<1>5. ASSUME NEW s \in Setters, MarkSuccess(s) PROVE IInv'
  <2> USE <1>5 DEF MarkSuccess, Go
  <2>1. TypeOK' BY DEF TypeOK
  <2>2. LockOK' BY DEF TypeOK, LockOK
  <2>3. UnresolvedOK' BY DEF TypeOK, LockOK, UnresolvedOK, NothingLeft
  <2>4. WantsOK' BY DEF TypeOK, LockOK, UnresolvedOK, NothingLeft, WantsOK, Outcome
  <2>5. PlacesOK' BY DEF TypeOK, LockOK, UnresolvedOK, NothingLeft, PlacesOK, Waiting
  <2> QED BY <2>1, <2>2, <2>3, <2>4, <2>5
<1>6. ASSUME NEW s \in Setters, MarkTooLate(s) PROVE IInv'
  <2> USE <1>6 DEF MarkTooLate, Go
  <2>1. TypeOK' BY DEF TypeOK
  <2>2. LockOK' BY DEF TypeOK, LockOK
  <2>3. UnresolvedOK' BY DEF TypeOK, LockOK, UnresolvedOK, NothingLeft
  <2>4. WantsOK' BY DEF TypeOK, LockOK, UnresolvedOK, NothingLeft, WantsOK, Outcome
  <2>5. PlacesOK' BY DEF TypeOK, LockOK, UnresolvedOK, NothingLeft, PlacesOK, Waiting
  <2> QED BY <2>1, <2>2, <2>3, <2>4, <2>5
<1>7. ASSUME NEW s \in Setters, Flush(s) PROVE IInv'
  <2> USE <1>7 DEF Flush, Submit
  <2> DEFINE l == Head(callbacks)
  <2>a. callbacks \in Seq(Listeners) /\ queue \in Seq(Listeners) BY DEF TypeOK
  <2>b. /\ l \in Listeners
        /\ callbacks' \in Seq(Listeners)
        /\ Range(callbacks) = {l} \cup Range(callbacks')
    BY <2>a, PopFacts
  <2>c. IsInjective(callbacks') /\ l \notin Range(callbacks')
    BY <2>a, PopDistinct DEF PlacesOK
  <2>d. l \notin Range(queue) BY <2>b DEF PlacesOK
  <2>e. /\ queue' \in Seq(Listeners)
        /\ IsInjective(queue')
        /\ Range(queue') \in {Range(queue) \cup {l}, Range(queue)}
    <3>1. /\ Append(queue, l) \in Seq(Listeners)
          /\ IsInjective(Append(queue, l))
          /\ Range(Append(queue, l)) = Range(queue) \cup {l}
      BY <2>a, <2>b, <2>d, PushFacts DEF PlacesOK
    <3> QED BY <2>a, <3>1 DEF PlacesOK
  <2> HIDE DEF l
  <2>1. TypeOK' BY <2>b, <2>e DEF TypeOK
  <2>2. LockOK' BY DEF TypeOK, LockOK
  <2>3. UnresolvedOK' BY DEF TypeOK, LockOK, UnresolvedOK, NothingLeft
  <2>4. WantsOK' BY DEF TypeOK, LockOK, UnresolvedOK, NothingLeft, WantsOK, Outcome
  <2>5. PlacesOK'
    BY <2>b, <2>c, <2>e DEF PlacesOK, Waiting
  <2> QED BY <2>1, <2>2, <2>3, <2>4, <2>5
<1>8. ASSUME NEW s \in Setters, FlushEnd(s) PROVE IInv'
  <2> USE <1>8 DEF FlushEnd, Go
  <2>1. TypeOK' BY DEF TypeOK
  <2>2. LockOK' BY DEF TypeOK, LockOK
  <2>3. UnresolvedOK' BY DEF TypeOK, LockOK, UnresolvedOK, NothingLeft
  <2>4. WantsOK' BY DEF TypeOK, LockOK, UnresolvedOK, NothingLeft, WantsOK, Outcome
  <2>5. PlacesOK' BY DEF TypeOK, LockOK, UnresolvedOK, NothingLeft, PlacesOK, Waiting
  <2> QED BY <2>1, <2>2, <2>3, <2>4, <2>5
<1>9. ASSUME NEW l \in Listeners, OnFinished(l) PROVE IInv'
  <2> USE <1>9 DEF OnFinished, Turn
  <2>a. callbacks \in Seq(Listeners) BY DEF TypeOK
  <2>b. l \notin Waiting /\ told[l] = Pending BY DEF PlacesOK, TypeOK
  <2>c. /\ callbacks' \in Seq(Listeners)
        /\ IsInjective(callbacks')
        /\ \/ Range(callbacks') = Range(callbacks) \cup {l} /\ listener'[l] = "asked"
           \/ callbacks' = callbacks
    <3>1. /\ Append(callbacks, l) \in Seq(Listeners)
          /\ IsInjective(Append(callbacks, l))
          /\ Range(Append(callbacks, l)) = Range(callbacks) \cup {l}
      BY <2>a, <2>b, PushFacts DEF PlacesOK, Waiting
    <3>2. IsInjective(callbacks) BY DEF PlacesOK
    <3>3. listener \in [Listeners -> {"idle", "late", "asked", "gone", "left"}]
      BY DEF TypeOK
    <3>4. CASE finished
      BY <2>a, <3>2, <3>4
    <3>5. CASE ~finished
      <4>1. callbacks' = Append(callbacks, l) /\ listener'[l] = "asked" BY <3>3, <3>5
      <4> QED BY <3>1, <4>1
    <3> QED BY <3>4, <3>5
  <2>1. TypeOK' BY <2>c DEF TypeOK
  <2>2. LockOK' BY DEF TypeOK, LockOK
  <2>3. UnresolvedOK' BY DEF TypeOK, LockOK, UnresolvedOK, NothingLeft
  <2>4. WantsOK' BY DEF TypeOK, LockOK, UnresolvedOK, NothingLeft, WantsOK, Outcome
  <2>5. PlacesOK'
    <3>1. /\ Range(callbacks') \cap Range(queue) = {}
          /\ current \notin Range(callbacks')
      BY <2>b, <2>c DEF PlacesOK, Waiting
    <3>2. ASSUME NEW k \in Listeners, k \in Waiting'
          PROVE  listener'[k] \in {"asked", "gone"} /\ told'[k] = Pending
      <4>1. CASE k = l BY <2>b, <2>c, <3>2, <4>1 DEF TypeOK, Waiting
      <4>2. CASE k # l
        <5>1. k \in Waiting BY <2>c, <3>2, <4>2 DEF Waiting
        <5> QED BY <5>1, <4>2 DEF TypeOK, PlacesOK
      <4> QED BY <4>1, <4>2
    <3>3. ASSUME NEW k \in Listeners, told'[k] # Pending
          PROVE  listener'[k] \in {"asked", "gone"}
      BY <2>b, <3>3 DEF TypeOK, PlacesOK
    <3> QED BY <2>c, <3>1, <3>2, <3>3 DEF PlacesOK
  <2> QED BY <2>1, <2>2, <2>3, <2>4, <2>5
<1>10. ASSUME NEW l \in Listeners, DispatchLate(l) PROVE IInv'
  <2> USE <1>10 DEF DispatchLate, Submit, Turn
  <2>a. queue \in Seq(Listeners) BY DEF TypeOK
  <2>b. l \notin Waiting /\ told[l] = Pending BY DEF PlacesOK, TypeOK
  <2>c. /\ queue' \in Seq(Listeners)
        /\ IsInjective(queue')
        /\ Range(queue') \in {Range(queue) \cup {l}, Range(queue)}
    <3>1. /\ Append(queue, l) \in Seq(Listeners)
          /\ IsInjective(Append(queue, l))
          /\ Range(Append(queue, l)) = Range(queue) \cup {l}
      BY <2>a, <2>b, PushFacts DEF PlacesOK, Waiting
    <3> QED BY <2>a, <3>1 DEF PlacesOK
  <2>1. TypeOK' BY <2>c DEF TypeOK
  <2>2. LockOK' BY DEF TypeOK, LockOK
  <2>3. UnresolvedOK' BY DEF TypeOK, LockOK, UnresolvedOK, NothingLeft
  <2>4. WantsOK' BY DEF TypeOK, LockOK, UnresolvedOK, NothingLeft, WantsOK, Outcome
  <2>5. PlacesOK' BY <2>b, <2>c DEF TypeOK, PlacesOK, Waiting
  <2> QED BY <2>1, <2>2, <2>3, <2>4, <2>5
<1>11. ASSUME NEW l \in Listeners, DropFuture(l) PROVE IInv'
  <2> USE <1>11 DEF DropFuture, Turn
  <2>1. TypeOK' BY DEF TypeOK
  <2>2. LockOK' BY DEF TypeOK, LockOK
  <2>3. UnresolvedOK' BY DEF TypeOK, LockOK, UnresolvedOK, NothingLeft
  <2>4. WantsOK' BY DEF TypeOK, LockOK, UnresolvedOK, NothingLeft, WantsOK, Outcome
  <2>5. PlacesOK'
    <3>1. Waiting' = Waiting BY DEF Waiting
    <3>2. \A k \in Listeners : listener[k] \in {"asked", "gone"} =>
            listener'[k] \in {"asked", "gone"}
      BY DEF TypeOK
    <3>3. l \notin Waiting \/ listener[l] = "asked" BY DEF PlacesOK
    <3> QED BY <3>1, <3>2, <3>3 DEF PlacesOK
  <2> QED BY <2>1, <2>2, <2>3, <2>4, <2>5
<1>12. ASSUME StartCallback PROVE IInv'
  <2> USE <1>12 DEF StartCallback
  <2>a. queue \in Seq(Listeners) BY DEF TypeOK
  <2>b. /\ current' \in Listeners
        /\ queue' \in Seq(Listeners)
        /\ Range(queue) = {current'} \cup Range(queue')
    BY <2>a, PopFacts
  <2>c. IsInjective(queue') /\ current' \notin Range(queue')
    BY <2>a, PopDistinct DEF PlacesOK
  <2>1. TypeOK' BY <2>b DEF TypeOK
  <2>2. LockOK' BY DEF TypeOK, LockOK
  <2>3. UnresolvedOK' BY DEF TypeOK, LockOK, UnresolvedOK, NothingLeft
  <2>4. WantsOK' BY DEF TypeOK, LockOK, UnresolvedOK, NothingLeft, WantsOK, Outcome
  <2>5. PlacesOK' BY <2>b, <2>c DEF PlacesOK, Waiting
  <2> QED BY <2>1, <2>2, <2>3, <2>4, <2>5
<1>13. ASSUME RunCallback PROVE IInv'
  <2> USE <1>13 DEF RunCallback, Hears
  <2>1. TypeOK' BY DEF TypeOK
  <2>2. LockOK' BY DEF TypeOK, LockOK
  <2>3. UnresolvedOK' BY DEF TypeOK, LockOK, UnresolvedOK, NothingLeft
  <2>4. WantsOK' BY DEF TypeOK, LockOK, UnresolvedOK, NothingLeft, WantsOK, Outcome
  <2>5. PlacesOK'
    <3>1. current \in Listeners /\ listener[current] \in {"asked", "gone"}
      BY DEF TypeOK, PlacesOK, Waiting
    <3>2. PICK o \in Outcomes : told' = [told EXCEPT ![current] = o]
      BY DEF TypeOK
    <3>3. \A l \in Listeners : l # current => told'[l] = told[l]
      BY <3>2 DEF TypeOK
    <3>4. Range(callbacks) \subseteq Listeners /\ Range(queue) \subseteq Listeners
      BY RangeOfSeq DEF TypeOK
    <3> QED BY <3>1, <3>3, <3>4 DEF PlacesOK, Waiting
  <2> QED BY <2>1, <2>2, <2>3, <2>4, <2>5
<1>14. ASSUME NEW r \in Readers, SeeFinished(r) PROVE IInv'
  <2> USE <1>14 DEF SeeFinished
  <2>1. TypeOK' BY DEF TypeOK
  <2>2. LockOK' BY DEF TypeOK, LockOK
  <2>3. UnresolvedOK' BY DEF TypeOK, LockOK, UnresolvedOK, NothingLeft
  <2>4. WantsOK' BY DEF TypeOK, LockOK, UnresolvedOK, NothingLeft, WantsOK, Outcome
  <2>5. PlacesOK' BY DEF TypeOK, LockOK, UnresolvedOK, NothingLeft, PlacesOK, Waiting
  <2> QED BY <2>1, <2>2, <2>3, <2>4, <2>5
<1>15. ASSUME NEW r \in Readers, TimeOut(r) PROVE IInv'
  <2> USE <1>15 DEF TimeOut
  <2>1. TypeOK' BY DEF TypeOK
  <2>2. LockOK' BY DEF TypeOK, LockOK
  <2>3. UnresolvedOK' BY DEF TypeOK, LockOK, UnresolvedOK, NothingLeft
  <2>4. WantsOK' BY DEF TypeOK, LockOK, UnresolvedOK, NothingLeft, WantsOK, Outcome
  <2>5. PlacesOK' BY DEF TypeOK, LockOK, UnresolvedOK, NothingLeft, PlacesOK, Waiting
  <2> QED BY <2>1, <2>2, <2>3, <2>4, <2>5
<1>16. ASSUME NEW r \in Readers, ReadSuccess(r) PROVE IInv'
  <2> USE <1>16 DEF ReadSuccess
  <2>1. TypeOK' BY DEF TypeOK
  <2>2. LockOK' BY DEF TypeOK, LockOK
  <2>3. UnresolvedOK' BY DEF TypeOK, LockOK, UnresolvedOK, NothingLeft
  <2>4. WantsOK' BY DEF TypeOK, LockOK, UnresolvedOK, NothingLeft, WantsOK, Outcome
  <2>5. PlacesOK' BY DEF TypeOK, LockOK, UnresolvedOK, NothingLeft, PlacesOK, Waiting
  <2> QED BY <2>1, <2>2, <2>3, <2>4, <2>5
<1>17. ASSUME UNCHANGED vars PROVE IInv'
  <2> USE <1>17 DEF vars
  <2>1. TypeOK' BY DEF TypeOK
  <2>2. LockOK' BY DEF TypeOK, LockOK
  <2>3. UnresolvedOK' BY DEF TypeOK, LockOK, UnresolvedOK, NothingLeft
  <2>4. WantsOK' BY DEF TypeOK, LockOK, UnresolvedOK, NothingLeft, WantsOK, Outcome
  <2>5. PlacesOK' BY DEF TypeOK, LockOK, UnresolvedOK, NothingLeft, PlacesOK, Waiting
  <2> QED BY <2>1, <2>2, <2>3, <2>4, <2>5
<1> QED
  BY <1>1, <1>2, <1>3, <1>4, <1>5, <1>6, <1>7, <1>8, <1>9,
     <1>10, <1>11, <1>12, <1>13, <1>14, <1>15, <1>16, <1>17
  DEF Next, SetterRuns

\* The inductive invariant holds of every reachable state.
THEOREM Inductive == SafeSpec => []IInv
<1>1. Init => IInv BY InitIInv
<1>2. IInv /\ [Next]_vars => IInv' BY NextIInv
<1> QED BY <1>1, <1>2, PTL DEF SafeSpec

\* Every variable of the promise keeps its type.
THEOREM TypeCorrect == SafeSpec => []TypeOK
<1>1. IInv => TypeOK BY DEF IInv
<1> QED BY <1>1, Inductive, PTL

\* Whatever tasks race to resolve the promise, its outcome is one of those that
\* they asked for.
THEOREM OutcomesComeFromSetters == SafeSpec => []OutcomeWasWanted
<1>1. IInv => OutcomeWasWanted BY DEF IInv, WantsOK, OutcomeWasWanted
<1> QED BY <1>1, Inductive, PTL

\* A step that starts from a finished promise leaves its outcome alone.
LEMMA FinishedStep ==
  ASSUME IInv, [Next]_vars, finished
  PROVE  /\ finished'
         /\ result' = result
         /\ lock = NoOne => lock' = NoOne /\ success' = success
<1> USE PromiseAssumption DEF IInv, state, dispatcher, setters, readers
<1>1. ASSUME NEW s \in Setters, NEW v \in Values, StoreResult(s, v)
      PROVE  UNCHANGED state
  BY <1>1 DEF StoreResult
<1>2. ASSUME NEW s \in Setters, MarkSuccess(s)
      PROVE  lock # NoOne /\ UNCHANGED <<finished, result>>
  BY <1>2 DEF MarkSuccess, LockOK
<1>3. ASSUME NEW s \in Setters, MarkFinished(s) PROVE FALSE
  BY <1>3 DEF MarkFinished
<1>4. ASSUME NEW s \in Setters,
             SetError(s) \/ Forsake(s) \/ MarkTooLate(s) \/ Flush(s) \/ FlushEnd(s)
      PROVE  UNCHANGED state
  BY <1>4 DEF SetError, Forsake, MarkTooLate, Flush, FlushEnd
<1>5. ASSUME NEW l \in Listeners, OnFinished(l) \/ DispatchLate(l) \/ DropFuture(l)
      PROVE  UNCHANGED state
  BY <1>5 DEF OnFinished, DispatchLate, DropFuture
<1>6. ASSUME StartCallback \/ RunCallback PROVE UNCHANGED state
  BY <1>6 DEF StartCallback, RunCallback
<1>7. ASSUME NEW r \in Readers, SeeFinished(r) \/ TimeOut(r) \/ ReadSuccess(r)
      PROVE  UNCHANGED state
  BY <1>7 DEF SeeFinished, TimeOut, ReadSuccess
<1>8. CASE UNCHANGED vars BY <1>8 DEF vars
<1> QED BY <1>1, <1>2, <1>3, <1>4, <1>5, <1>6, <1>7, <1>8 DEF Next, SetterRuns

\* A finished promise never changes its outcome.
THEOREM Finality == SafeSpec => FinishedIsFinal
<1> DEFINE Kept == finished => /\ finished'
                               /\ result' = result
                               /\ lock = NoOne => lock' = NoOne /\ success' = success
<1>1. IInv /\ [Next]_vars => [Kept]_vars BY FinishedStep
<1> QED BY <1>1, Inductive, PTL DEF SafeSpec, FinishedIsFinal

(***************************************************************************)
(* Readers.                                                                *)
(***************************************************************************)
ReadersOK ==
  \A r \in Readers :
    /\ reader[r] = "seen" => finished
    /\ report[r] # Pending =>
         /\ finished
         /\ \/ lock = NoOne /\ report[r] = Outcome
            \/ r \in torn /\ report[r] = Error

\* Between the two writes a promise is not yet successful.
LEMMA HalfIsNoSuccess == IInv /\ lock # NoOne => ~success
BY DEF IInv, LockOK

\* A reader is told the outcome, or looked between the two writes.
LEMMA NextReadersOK ==
  ASSUME IInv, ReadersOK, [Next]_vars
  PROVE  ReadersOK'
<1> USE DEF readers
<1>1. CASE UNCHANGED readers
  <2>1. finished /\ lock = NoOne
          => finished' /\ lock' = NoOne /\ Outcome' = Outcome
    BY FinishedStep DEF Outcome
  <2>2. finished => finished' BY FinishedStep
  <2> QED BY <1>1, <2>1, <2>2 DEF ReadersOK
<1>2. ASSUME NEW r \in Readers, SeeFinished(r) PROVE ReadersOK'
  BY <1>2 DEF SeeFinished, state, ReadersOK, Outcome, IInv, TypeOK
<1>3. ASSUME NEW r \in Readers, TimeOut(r) PROVE ReadersOK'
  BY <1>3 DEF TimeOut, state, ReadersOK, Outcome, IInv, TypeOK
<1>4. ASSUME NEW r \in Readers, ReadSuccess(r) PROVE ReadersOK'
  <2>1. CASE lock = NoOne
    BY <1>4, <2>1 DEF ReadSuccess, state, ReadersOK, Outcome, IInv, TypeOK
  <2>2. CASE lock # NoOne
    BY <1>4, <2>2, HalfIsNoSuccess DEF ReadSuccess, state, ReadersOK, Outcome, IInv, TypeOK
  <2> QED BY <2>1, <2>2
<1>5. UNCHANGED readers \/ \E r \in Readers :
        SeeFinished(r) \/ TimeOut(r) \/ ReadSuccess(r)
  BY DEF Next, SetterRuns, StoreResult, SetError, Forsake, MarkFinished,
         MarkSuccess, MarkTooLate, Flush, FlushEnd, OnFinished, DispatchLate,
         DropFuture, StartCallback, RunCallback, vars
<1> QED BY <1>1, <1>2, <1>3, <1>4, <1>5

\* Whoever sees a promise finished reads the outcome it keeps, or, between the two
\* writes, a failure; wherever it runs, and whichever tasks still resolve it.
THEOREM ReadersAreRight == SafeSpec => []ReadersAgree
<1>1. Init => ReadersOK BY PromiseAssumption DEF Init, ReadersOK
<1>2. IInv /\ ReadersOK /\ [Next]_vars => ReadersOK' BY NextReadersOK
<1>3. ReadersOK => ReadersAgree BY DEF ReadersOK, ReadersAgree
<1> QED BY <1>1, <1>2, <1>3, Inductive, PTL DEF SafeSpec

(***************************************************************************)
(* Refinement.                                                             *)
(***************************************************************************)
\* Each step is a step of OneShot or leaves it as it was: MarkSuccess resolves,
\* OnFinished asks, RunCallback tells.
LEMMA StepRefines ==
  ASSUME Capturing = Listeners, IInv, [Next]_vars
  PROVE  [Contract!Next]_(Contract!vars)
<1> USE PromiseAssumption
    DEF IInv, TypeOK, state, dispatcher, setters, readers, Contract!vars
<1>1. ASSUME NEW s \in Setters, NEW v \in Values, StoreResult(s, v)
      PROVE  UNCHANGED Contract!vars
  BY <1>1 DEF StoreResult, Outcome
<1>2. ASSUME NEW s \in Setters, MarkSuccess(s)
      PROVE  \E o \in Outcomes : Contract!Resolve(o)
  BY <1>2 DEF MarkSuccess, LockOK, Outcome, Outcomes, Contract!Resolve
<1>3. ASSUME NEW s \in Setters, MarkFinished(s) PROVE UNCHANGED Contract!vars
  BY <1>3 DEF MarkFinished, Outcome
<1>4. ASSUME NEW s \in Setters,
             SetError(s) \/ Forsake(s) \/ MarkTooLate(s) \/ Flush(s) \/ FlushEnd(s)
      PROVE  UNCHANGED Contract!vars
  BY <1>4 DEF SetError, Forsake, MarkTooLate, Flush, FlushEnd, Outcome
<1>5. ASSUME NEW l \in Listeners, OnFinished(l) PROVE Contract!Ask(l)
  BY <1>5 DEF OnFinished, Turn, Outcome, Contract!Ask
<1>6. ASSUME NEW l \in Listeners, DispatchLate(l) \/ DropFuture(l)
      PROVE  UNCHANGED Contract!vars
  BY <1>6 DEF DispatchLate, DropFuture, Turn, Outcome
<1>7. CASE StartCallback BY <1>7 DEF StartCallback, Outcome
<1>8. ASSUME RunCallback PROVE \E l \in Listeners : Contract!Tell(l)
  <2>1. current \in Listeners BY <1>8 DEF RunCallback
  <2>2. finished /\ lock = NoOne
    BY <1>8 DEF RunCallback, UnresolvedOK, NothingLeft
  <2>3. Alive BY <2>1, Capturing = Listeners DEF Alive
  <2>4. /\ listener[current] \in {"asked", "gone"}
        /\ told[current] = Pending
    BY <2>1 DEF PlacesOK, Waiting
  <2>5. Outcome # Pending BY <2>2 DEF Outcome, Outcomes
  <2> QED
    BY <1>8, <2>1, <2>2, <2>3, <2>4, <2>5
    DEF RunCallback, Hears, Outcome, Contract!Tell
<1>9. ASSUME NEW r \in Readers, SeeFinished(r) \/ TimeOut(r) \/ ReadSuccess(r)
      PROVE  UNCHANGED Contract!vars
  BY <1>9 DEF SeeFinished, TimeOut, ReadSuccess, Outcome
<1>10. CASE UNCHANGED vars BY <1>10 DEF vars, Outcome
<1> QED
  BY <1>1, <1>2, <1>3, <1>4, <1>5, <1>6, <1>7, <1>8, <1>9, <1>10
  DEF Next, SetterRuns, Contract!Next

\* When every callback holds the future, the promise implements OneShot: it is
\* resolved once at most, and tells each callback its outcome once at most.
THEOREM RefinesOneShot ==
  ASSUME Capturing = Listeners
  PROVE  SafeSpec => OneShotSafety
<1>1. Init => Contract!Init
  BY PromiseAssumption DEF Init, Outcome, Contract!Init
<1>2. IInv /\ [Next]_vars => [Contract!Next]_(Contract!vars) BY StepRefines
<1> QED BY <1>1, <1>2, Inductive, PTL DEF SafeSpec, OneShotSafety, Contract!SafeSpec
=============================================================================
