-------------------------- MODULE SystemTimerProofs --------------------------
(***************************************************************************)
(* Proofs about SystemTimer, for any requests, timeouts and clock: types,  *)
(* that nothing is called early, and that deadlines are kept in order.     *)
(***************************************************************************)
EXTENDS SystemTimer, TLAPS

Deadline(r) == armedAt[r].millis + armedAt[r].timeout

\* A timer in the queue is armed, for the deadline that its owner asked for.
QueueOK ==
  \A r \in timers : status[r] = "armed" /\ timeoutAt[r] = Deadline(r)

\* The timer that is called was popped when it was overdue.
RunningOK ==
  running # None =>
    /\ status[running] = "fired"
    /\ timeoutAt[running] = Deadline(running)
    /\ Overdue(running)

IInv == TypeOK /\ QueueOK /\ RunningOK /\ DeadlineOrder

\* The initial state satisfies the inductive invariant.
LEMMA InitIInv == Init => IInv
<1> SUFFICES ASSUME Init PROVE IInv OBVIOUS
<1> USE SystemTimerAssumption DEF Init
<1>1. TypeOK
  <2>1. 0 \in 0..(Fraction - 1) /\ 0 \in 0..MaxMillis OBVIOUS
  <2>2. armedAt \in [Requests -> [millis : Nat, ticks : 0..(Fraction - 1), timeout : Nat]]
    BY <2>1
  <2>3. timeoutAt \in [Requests -> 0..MaxMillis] BY <2>1
  <2> QED BY <2>1, <2>2, <2>3 DEF TypeOK
<1>2. QueueOK BY DEF QueueOK
<1>3. RunningOK BY DEF RunningOK
<1>4. DeadlineOrder BY DEF DeadlineOrder
<1> QED BY <1>1, <1>2, <1>3, <1>4 DEF IInv

\* Arming a timer gives it the deadline millis + t, which is later than that of
\* the timer that is being called, and touches no other.
LEMMA PushFacts ==
  ASSUME IInv, NEW r \in Requests, NEW t \in Timeouts, CanAsk(r, t), Push(r, t),
         UNCHANGED <<clock, running>>
  PROVE  /\ timers' = timers \cup {r}
         /\ timeoutAt' \in [Requests -> 0..MaxMillis]
         /\ armedAt' \in [Requests -> [millis : Nat, ticks : 0..(Fraction - 1), timeout : Nat]]
         /\ status' \in [Requests -> {"new", "refused", "armed", "fired"}]
         /\ QueueOK' /\ RunningOK' /\ DeadlineOrder'
<1> USE SystemTimerAssumption DEF IInv, TypeOK, CanAsk, Push, Mark
<1>1. t \in Nat /\ millis + t \in 0..MaxMillis /\ millis' = millis /\ running' = running
  BY DEF clock
<1>2. /\ timers' = timers \cup {r}
      /\ timeoutAt' \in [Requests -> 0..MaxMillis]
      /\ armedAt' \in [Requests -> [millis : Nat, ticks : 0..(Fraction - 1), timeout : Nat]]
      /\ status' \in [Requests -> {"new", "refused", "armed", "fired"}]
  BY <1>1
<1>3. /\ timeoutAt'[r] = millis + t
      /\ armedAt'[r].millis = millis /\ armedAt'[r].timeout = t
      /\ status'[r] = "armed"
  BY <1>1
<1>4. \A q \in Requests \ {r} :
        timeoutAt'[q] = timeoutAt[q] /\ armedAt'[q] = armedAt[q] /\ status'[q] = status[q]
  BY <1>1
<1>5. QueueOK'
  BY <1>2, <1>3, <1>4 DEF QueueOK, Deadline
<1>6. running # None => running \in Requests \ {r}
  BY DEF RunningOK
<1>7. RunningOK'
  BY <1>1, <1>4, <1>6 DEF RunningOK, Deadline, Overdue
<1>8. DeadlineOrder'
  <2> SUFFICES ASSUME running' # None, NEW q \in timers'
               PROVE  timeoutAt'[running'] <= timeoutAt'[q]
    BY DEF DeadlineOrder
  <2>1. /\ timeoutAt'[running] = timeoutAt[running] /\ timeoutAt[running] < millis
        /\ timeoutAt[running] \in Nat
    BY <1>1, <1>4, <1>6 DEF RunningOK, Overdue
  <2>2. CASE q = r
    BY <1>1, <1>3, <2>1, <2>2
  <2>3. CASE q # r
    BY <1>1, <1>2, <1>4, <2>1, <2>3 DEF DeadlineOrder
  <2> QED BY <2>2, <2>3
<1> QED BY <1>2, <1>5, <1>7, <1>8

\* Every step preserves the inductive invariant.
LEMMA NextIInv == IInv /\ [Next]_vars => IInv'
<1> SUFFICES ASSUME IInv, [Next]_vars PROVE IInv' OBVIOUS
<1> USE SystemTimerAssumption
<1>1. CASE Tick
  <2> USE <1>1 DEF IInv, Tick, task
  <2>1. millis' \in 0..MaxMillis /\ millis <= millis' /\ ticks' \in 0..(Fraction - 1)
    <3>1. CASE ticks < Fraction - 1 BY <3>1 DEF TypeOK
    <3>2. CASE ~(ticks < Fraction - 1) BY <3>2 DEF TypeOK
    <3> QED BY <3>1, <3>2
  <2>2. TypeOK' BY <2>1 DEF TypeOK
  <2>3. QueueOK' BY DEF QueueOK, Deadline
  <2>4. RunningOK' BY <2>1 DEF RunningOK, Deadline, Overdue, TypeOK
  <2>5. DeadlineOrder' BY DEF DeadlineOrder
  <2> QED BY <2>2, <2>3, <2>4, <2>5
<1>2. ASSUME NEW r \in Requests, NEW t \in Timeouts, SetTimeout(r, t)
      PROVE  IInv'
  <2> USE <1>2 DEF SetTimeout
  <2>1. /\ timers' = timers \cup {r}
        /\ timeoutAt' \in [Requests -> 0..MaxMillis]
        /\ armedAt' \in [Requests -> [millis : Nat, ticks : 0..(Fraction - 1), timeout : Nat]]
        /\ status' \in [Requests -> {"new", "refused", "armed", "fired"}]
        /\ QueueOK' /\ RunningOK' /\ DeadlineOrder'
    BY PushFacts
  <2>2. TypeOK' BY <2>1 DEF IInv, TypeOK, clock
  <2> QED BY <2>1, <2>2 DEF IInv
<1>3. ASSUME NEW r \in Requests, NEW t \in Timeouts, SetTimeoutFails(r, t)
      PROVE  IInv'
  <2> USE <1>3 DEF IInv, SetTimeoutFails, CanAsk, Mark, clock, task
  <2>1. TypeOK' BY DEF TypeOK
  <2>2. QueueOK' BY DEF QueueOK, Deadline, TypeOK
  <2>3. RunningOK' BY DEF RunningOK, Deadline, Overdue, TypeOK
  <2>4. DeadlineOrder' BY DEF DeadlineOrder
  <2> QED BY <2>1, <2>2, <2>3, <2>4
<1>4. CASE PollNone \/ WakeUp
  <2> USE <1>4 DEF IInv, PollNone, WakeUp, clock
  <2>1. TypeOK' BY DEF TypeOK
  <2>2. QueueOK' BY DEF QueueOK, Deadline
  <2>3. RunningOK' BY DEF RunningOK, Deadline, Overdue
  <2>4. DeadlineOrder' BY DEF DeadlineOrder
  <2> QED BY <2>1, <2>2, <2>3, <2>4
<1>5. CASE PollPop
  <2> USE <1>5 DEF IInv, PollPop, clock
  <2>1. PICK r \in Top : /\ Overdue(r)
                         /\ timers' = timers \ {r}
                         /\ running' = r
                         /\ Mark(r, "fired")
    OBVIOUS
  <2>2. r \in timers /\ r \in Requests /\ r # None
    BY DEF Top, TypeOK
  <2>3. TypeOK'
    BY <2>1, <2>2 DEF TypeOK, Mark
  <2>4. QueueOK'
    BY <2>1, <2>2 DEF QueueOK, Deadline, TypeOK, Mark
  <2>5. RunningOK'
    BY <2>1, <2>2 DEF RunningOK, QueueOK, Deadline, Overdue, TypeOK, Mark
  <2>6. DeadlineOrder'
    BY <2>1, <2>2 DEF DeadlineOrder, Top
  <2> QED BY <2>3, <2>4, <2>5, <2>6
<1>6. CASE Return
  <2> USE <1>6 DEF IInv, Return, clock
  <2>1. TypeOK' BY DEF TypeOK
  <2>2. QueueOK' BY DEF QueueOK, Deadline
  <2>3. RunningOK' BY DEF RunningOK
  <2>4. DeadlineOrder' BY DEF DeadlineOrder
  <2> QED BY <2>1, <2>2, <2>3, <2>4
<1>7. CASE UNCHANGED vars
  BY <1>7 DEF IInv, vars, clock, task, TypeOK, QueueOK, RunningOK, DeadlineOrder,
              Deadline, Overdue
<1> QED
  BY <1>1, <1>2, <1>3, <1>4, <1>5, <1>6, <1>7 DEF Next, TaskStep

\* The strengthening is an invariant of the specification.
THEOREM Inductive == SafeSpec => []IInv
BY InitIInv, NextIInv, PTL DEF SafeSpec

\* The variables keep their types: in particular the deadline of a timer is
\* within the clock's range.
THEOREM TypeCorrect == SafeSpec => []TypeOK
<1>1. IInv => TypeOK BY DEF IInv
<1> QED BY <1>1, Inductive, PTL

\* A callback is called when the timeout has passed in real time, though the code
\* sees whole milliseconds only: the strict comparison pays for the rounding.
THEOREM NothingEarly == SafeSpec => []NeverEarly
<1>1. IInv => NeverEarly
  BY SystemTimerAssumption
  DEF IInv, TypeOK, RunningOK, NeverEarly, Elapsed, Deadline, Overdue
<1> QED BY <1>1, Inductive, PTL

\* While a callback is called, no armed timer has an earlier deadline, those that
\* callbacks and tasks have armed meanwhile included.
THEOREM DeadlinesInOrder == SafeSpec => []DeadlineOrder
<1>1. IInv => DeadlineOrder BY DEF IInv
<1> QED BY <1>1, Inductive, PTL
=============================================================================
