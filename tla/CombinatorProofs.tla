-------------------------- MODULE CombinatorProofs --------------------------
(***************************************************************************)
(* Proofs about what futures are combined with.                            *)
(*                                                                         *)
(* Aggregation, for collections of any size, whether the caller keeps them *)
(* or not: count_left is exact, and each step is a step of Joint or leaves *)
(* it as it was.                                                           *)
(*                                                                         *)
(* Futures, for any number of promises: each outcome and each call of a    *)
(* handler is accounted for by outcomes that are there to stay.            *)
(***************************************************************************)
EXTENDS Aggregation, Futures, SeqFacts, FiniteSetTheorems

(***************************************************************************)
(* Joint futures.                                                          *)
(***************************************************************************)
\* Before the registration nothing is under way.
ScanOK ==
  pc = "scan" =>
    /\ hooked = {} /\ queue = <<>>
    /\ result = "pending" /\ left = 0
    /\ i <= size + 1
    /\ mode = "all" /\ allDone => \A k \in 1..(i - 1) : Settled(k) /\ success[k]

\* A member's callback is in one place at most: with the member, which then is
\* not through with its callbacks, or with the dispatcher, its member settled.
CallsOK ==
  /\ hooked \subseteq Collection
  /\ Range(queue) \subseteq Collection
  /\ hooked \cap Range(queue) = {}
  /\ IsInjective(queue)
  /\ \A k \in Range(queue) : Settled(k)
  /\ \A k \in hooked : setter[k] # "done"
  /\ pc = "register" =>
       /\ size # 0 /\ i <= size + 1
       /\ \A k \in hooked \cup Range(queue) : k < i

\* Only members whose callback has run are misread, and each of them once.
MisreadOK ==
  /\ misread \subseteq Collection
  /\ misread \cap Outstanding = {}
  /\ pc = "scan" => misread = {}

IInv == TypeOK /\ ScanOK /\ CallsOK /\ CountIsExact /\ MisreadOK

\* The initial state satisfies the inductive invariant.
LEMMA InitIInv == Init => IInv
<1> SUFFICES ASSUME Init PROVE IInv OBVIOUS
<1> USE AggregationAssumption, EmptyFacts DEF Init
<1>1. TypeOK BY DEF TypeOK
<1>2. ScanOK BY DEF ScanOK
<1>3. CallsOK BY DEF CallsOK
<1>4. CountIsExact BY DEF CountIsExact
<1>5. MisreadOK BY DEF MisreadOK
<1> QED BY <1>1, <1>2, <1>3, <1>4, <1>5 DEF IInv

\* Every step preserves the inductive invariant.
LEMMA NextIInv ==
  ASSUME IInv, [Next]_vars
  PROVE  IInv'
<1> USE AggregationAssumption
    DEF IInv, members, caller, Futures, Settled, Alive
<1>1. ASSUME NEW k \in Futures, WriteFinished(k) PROVE IInv'
  <2> USE <1>1 DEF WriteFinished
  <2>1. TypeOK' BY DEF TypeOK
  <2>2. ScanOK' BY DEF TypeOK, ScanOK
  <2>3. CallsOK' BY DEF TypeOK, ScanOK, CallsOK, Collection
  <2>4. CountIsExact'
    BY DEF TypeOK, ScanOK, CallsOK, CountIsExact, Outstanding, Collection
  <2>5. MisreadOK' BY DEF TypeOK, ScanOK, CallsOK, MisreadOK, Outstanding, Collection
  <2> QED BY <2>1, <2>2, <2>3, <2>4, <2>5
<1>2. ASSUME NEW k \in Futures, WriteSuccess(k) PROVE IInv'
  <2> USE <1>2 DEF WriteSuccess
  <2>1. TypeOK' BY DEF TypeOK
  <2>2. ScanOK' BY DEF TypeOK, ScanOK
  <2>3. CallsOK' BY DEF TypeOK, ScanOK, CallsOK, Collection
  <2>4. CountIsExact'
    BY DEF TypeOK, ScanOK, CallsOK, CountIsExact, Outstanding, Collection
  <2>5. MisreadOK' BY DEF TypeOK, ScanOK, CallsOK, MisreadOK, Outstanding, Collection
  <2> QED BY <2>1, <2>2, <2>3, <2>4, <2>5
<1>3. ASSUME NEW k \in Futures, Flush(k) PROVE IInv'
  <2> USE <1>3 DEF Flush
  <2>a. queue \in Seq(Futures) BY DEF TypeOK
  <2>b. CASE k \in hooked
    <3>1. k \notin Range(queue) /\ k \in Collection BY <2>b DEF CallsOK
    <3>2. /\ queue' \in Seq(Futures)
          /\ IsInjective(queue')
          /\ Range(queue') = Range(queue) \cup {k}
      BY <2>a, <2>b, <3>1, PushFacts DEF CallsOK
    <3>3. TypeOK' BY <3>2 DEF TypeOK
    <3>4. ScanOK' BY <2>b DEF ScanOK
    <3>5. CallsOK' BY <2>b, <3>1, <3>2 DEF TypeOK, CallsOK, Collection
    <3>6. Outstanding' = Outstanding BY <2>b, <3>2 DEF Outstanding
    <3>7. CountIsExact' BY <3>6 DEF TypeOK, CountIsExact, Collection
    <3>8. MisreadOK' BY <3>6 DEF MisreadOK, Collection
    <3> QED BY <3>3, <3>4, <3>5, <3>7, <3>8
  <2>c. CASE k \notin hooked
    <3>1. UNCHANGED <<hooked, queue>> BY <2>c
    <3>2. TypeOK' BY <3>1 DEF TypeOK
    <3>3. ScanOK' BY <3>1 DEF TypeOK, ScanOK
    <3>4. CallsOK' BY <3>1, <2>c DEF TypeOK, CallsOK, Collection
    <3>5. Outstanding' = Outstanding BY <3>1 DEF Outstanding
    <3>6. CountIsExact' BY <3>5 DEF TypeOK, CountIsExact, Collection
    <3>7. MisreadOK' BY <3>5 DEF MisreadOK, Collection
    <3> QED BY <3>2, <3>3, <3>4, <3>6, <3>7
  <2> QED BY <2>b, <2>c
<1>4. ASSUME ReturnEmpty PROVE IInv'
  <2> USE <1>4 DEF ReturnEmpty, Return
  <2>1. TypeOK' BY DEF TypeOK
  <2>2. ScanOK' BY DEF TypeOK, ScanOK
  <2>3. CallsOK' BY DEF TypeOK, ScanOK, CallsOK, Collection
  <2>4. CountIsExact'
    BY DEF TypeOK, ScanOK, CallsOK, CountIsExact, Outstanding, Collection
  <2>5. MisreadOK' BY DEF TypeOK, ScanOK, CallsOK, MisreadOK, Outstanding, Collection
  <2> QED BY <2>1, <2>2, <2>3, <2>4, <2>5
<1>5. ASSUME Scan PROVE IInv'
  <2> USE <1>5 DEF Scan, Return, Seen, Verdict
  <2>1. TypeOK'
    <3>1. i + 1 \in 1..(N + 1) BY DEF TypeOK
    <3> QED BY <3>1 DEF TypeOK
  <2>2. ScanOK' BY DEF TypeOK, ScanOK
  <2>3. CallsOK' BY DEF TypeOK, ScanOK, CallsOK, Collection
  <2>4. CountIsExact'
    BY DEF TypeOK, ScanOK, CallsOK, CountIsExact, Outstanding, Collection
  <2>5. MisreadOK' BY DEF TypeOK, ScanOK, CallsOK, MisreadOK, Outstanding, Collection
  <2> QED BY <2>1, <2>2, <2>3, <2>4, <2>5
<1>6. ASSUME ReturnDone PROVE IInv'
  <2> USE <1>6 DEF ReturnDone, Return
  <2>1. TypeOK' BY DEF TypeOK
  <2>2. ScanOK' BY DEF TypeOK, ScanOK
  <2>3. CallsOK' BY DEF TypeOK, ScanOK, CallsOK, Collection
  <2>4. CountIsExact'
    BY DEF TypeOK, ScanOK, CallsOK, CountIsExact, Outstanding, Collection
  <2>5. MisreadOK' BY DEF TypeOK, ScanOK, CallsOK, MisreadOK, Outstanding, Collection
  <2> QED BY <2>1, <2>2, <2>3, <2>4, <2>5
<1>7. ASSUME BeginRegister PROVE IInv'
  <2> USE <1>7 DEF BeginRegister
  <2>a. /\ hooked = {} /\ Range(queue) = {} /\ IsInjective(queue) /\ misread = {}
        /\ size \in 0..N /\ size > 0
    BY EmptyFacts DEF ScanOK, TypeOK, MisreadOK
  <2>1. TypeOK' BY DEF TypeOK
  <2>2. ScanOK' BY DEF TypeOK, ScanOK
  <2>3. CallsOK' BY <2>a DEF TypeOK, CallsOK, Collection
  <2>4. CountIsExact'
    <3>1. Outstanding' = 1..size BY <2>a DEF Outstanding
    <3>2. Cardinality(1..size) = size BY <2>a, FS_Interval
    <3> QED BY <3>1, <3>2, <2>a DEF CountIsExact, Collection
  <2>5. MisreadOK' BY <2>a DEF MisreadOK
  <2> QED BY <2>1, <2>2, <2>3, <2>4, <2>5
<1>8. ASSUME Register PROVE IInv'
  <2> USE <1>8 DEF Register
  <2>a. /\ queue \in Seq(Futures) /\ i \in Futures /\ i \in Collection
        /\ i + 1 \in 1..(N + 1)
    BY DEF TypeOK, Collection
  <2>b. i \notin hooked \cup Range(queue)
    <3>1. i \in Int BY <2>a
    <3> QED BY <3>1 DEF CallsOK
  <2>c. /\ Append(queue, i) \in Seq(Futures)
        /\ IsInjective(Append(queue, i))
        /\ Range(Append(queue, i)) = Range(queue) \cup {i}
    BY <2>a, <2>b, PushFacts DEF CallsOK
  <2>d. /\ queue' \in Seq(Futures) /\ IsInjective(queue')
        /\ \/ setter[i] = "idle" /\ hooked' = hooked \cup {i} /\ queue' = queue
           \/ /\ setter[i] \in {"flush", "done"} /\ hooked' = hooked
              /\ Range(queue') = Range(queue) \cup {i}
    BY <2>a, <2>c DEF TypeOK, CallsOK
  <2>1. TypeOK' BY <2>a, <2>d DEF TypeOK
  <2>2. ScanOK' BY DEF TypeOK, ScanOK
  <2>3. CallsOK'
    <3>1. hooked' \cup Range(queue') = hooked \cup Range(queue) \cup {i} BY <2>d
    <3>2. \A k \in hooked' \cup Range(queue') : k < i + 1
      <4>1. \A k \in hooked \cup Range(queue) : k < i /\ k \in Int
        BY DEF CallsOK, Collection
      <4>2. i \in Int BY <2>a
      <4> QED BY <3>1, <4>1, <4>2
    <3>3. \A k \in Range(queue') : Settled(k) BY <2>d DEF CallsOK
    <3>4. \A k \in hooked' : setter[k] # "done" BY <2>d DEF CallsOK
    <3>5. hooked' \cap Range(queue') = {} BY <2>b, <2>d DEF CallsOK
    <3>6. size # 0 /\ i' <= size + 1 BY <2>a DEF CallsOK, TypeOK
    <3> QED BY <2>a, <2>d, <3>1, <3>2, <3>3, <3>4, <3>5, <3>6 DEF CallsOK, Collection
  <2>e. Outstanding' = Outstanding
    <3>1. i..size = {i} \cup (i + 1)..size BY <2>a DEF TypeOK, Collection
    <3> QED BY <2>d, <3>1 DEF Outstanding
  <2>4. CountIsExact' BY <2>e DEF CountIsExact, Collection
  <2>5. MisreadOK' BY <2>e DEF MisreadOK, Collection
  <2> QED BY <2>1, <2>2, <2>3, <2>4, <2>5
<1>9. ASSUME EndRegister PROVE IInv'
  <2> USE <1>9 DEF EndRegister
  <2>1. TypeOK' BY DEF TypeOK
  <2>2. ScanOK' BY DEF TypeOK, ScanOK
  <2>3. CallsOK' BY DEF TypeOK, ScanOK, CallsOK, Collection
  <2>a. Outstanding' = Outstanding
    <3>1. i..size = {} BY DEF TypeOK
    <3> QED BY <3>1 DEF Outstanding
  <2>4. CountIsExact' BY <2>a DEF CountIsExact, Collection
  <2>5. MisreadOK' BY <2>a DEF MisreadOK, Collection
  <2> QED BY <2>1, <2>2, <2>3, <2>4, <2>5
<1>10. ASSUME RunCallback PROVE IInv'
  <2> USE <1>10 DEF RunCallback, FinishedCb, Verdict
  <2> DEFINE k == Head(queue)
  <2>a. queue \in Seq(Futures) BY DEF TypeOK
  <2>b. /\ k \in Futures /\ queue' \in Seq(Futures)
        /\ Range(queue) = {k} \cup Range(queue')
    BY <2>a, PopFacts
  <2>c. IsInjective(queue') /\ k \notin Range(queue') BY <2>a, PopDistinct DEF CallsOK
  <2>d. Settled(k) /\ pc # "scan" /\ k \notin hooked
    BY <2>b DEF CallsOK, ScanOK
  <2>e. PICK s \in BOOLEAN :
          /\ FinishedCb(s)
          /\ misread' = IF result = "pending" /\ s # success[k]
                          THEN misread \cup {k} ELSE misread
    OBVIOUS
  <2> HIDE DEF k
  <2>f. k \in Outstanding /\ Outstanding' = Outstanding \ {k}
    <3>1. k \in Int BY <2>b
    <3>2. pc = "register" => k \notin i..size BY <2>b, <3>1 DEF CallsOK, TypeOK
    <3> QED BY <2>b, <2>c, <2>d, <3>2 DEF Outstanding
  <2>g. IsFiniteSet(Outstanding)
    <3>0. i..size \subseteq 1..size BY DEF TypeOK
    <3>1. Outstanding \subseteq 1..size BY <3>0 DEF Outstanding, CallsOK, Collection
    <3>2. IsFiniteSet(1..size) BY FS_Interval DEF TypeOK
    <3> QED BY <3>1, <3>2, FS_Subset
  <2>h. /\ Cardinality(Outstanding) \in Nat \ {0}
        /\ Cardinality(Outstanding') = Cardinality(Outstanding) - 1
    BY <2>f, <2>g, FS_CardinalityType, FS_RemoveElement, FS_EmptySet
  <2>1. TypeOK'
    <3>1. left' \in 0..N
      BY <2>d, <2>e, <2>h DEF TypeOK, CountIsExact
    <3>2. result' \in {"pending", "ok", "failed"} BY <2>e DEF TypeOK
    <3>3. misread' \in SUBSET Futures BY <2>b, <2>e DEF TypeOK
    <3> QED BY <2>b, <3>1, <3>2, <3>3 DEF TypeOK
  <2>2. ScanOK' BY <2>d DEF ScanOK
  <2>3. CallsOK' BY <2>b, <2>c DEF CallsOK, Collection
  <2>4. CountIsExact'
    <3>1. ASSUME mode = "all", result' = "pending"
          PROVE  /\ result = "pending" /\ left' = left - 1
                 /\ success[k] <=> k \notin misread'
      BY <2>b, <2>e, <2>f, <3>1 DEF TypeOK, MisreadOK
    <3>2. ASSUME mode = "all", result' = "pending", NEW m \in Collection \ Outstanding'
          PROVE  Settled(m) /\ (success[m] <=> m \notin misread')
      BY <2>d, <2>e, <2>f, <3>1, <3>2 DEF CountIsExact
    <3> QED BY <2>d, <2>h, <3>1, <3>2 DEF CountIsExact, Collection
  <2>5. MisreadOK' BY <2>b, <2>d, <2>e, <2>f DEF CallsOK, MisreadOK, Collection
  <2> QED BY <2>1, <2>2, <2>3, <2>4, <2>5
<1>11. ASSUME UNCHANGED vars PROVE IInv'
  <2> USE <1>11 DEF vars
  <2>1. TypeOK' BY DEF TypeOK
  <2>2. ScanOK' BY DEF TypeOK, ScanOK
  <2>3. CallsOK' BY DEF TypeOK, ScanOK, CallsOK, Collection
  <2>4. CountIsExact'
    BY DEF TypeOK, ScanOK, CallsOK, CountIsExact, Outstanding, Collection
  <2>5. MisreadOK' BY DEF TypeOK, ScanOK, CallsOK, MisreadOK, Outstanding, Collection
  <2> QED BY <2>1, <2>2, <2>3, <2>4, <2>5
<1> QED
  BY <1>1, <1>2, <1>3, <1>4, <1>5, <1>6, <1>7, <1>8, <1>9, <1>10, <1>11
  DEF Next, SetterRuns, Caller

\* The inductive invariant holds of every reachable state.
THEOREM Inductive == SafeSpec => []IInv
<1>1. Init => IInv BY InitIInv
<1>2. IInv /\ [Next]_vars => IInv' BY NextIInv
<1> QED BY <1>1, <1>2, PTL DEF SafeSpec

\* The state of the call and of its members keeps its types; in particular
\* count_left, an unsigned number in the code, is never counted below zero.
THEOREM TypeCorrect == SafeSpec => []TypeOK
<1>1. IInv => TypeOK BY DEF IInv
<1> QED BY <1>1, Inductive, PTL

\* Whatever members are resolved while all() walks through them, count_left is
\* the number of callbacks still to run, and all other members have succeeded.
THEOREM CountCorrect == SafeSpec => []CountIsExact
<1>1. IInv => CountIsExact BY DEF IInv
<1> QED BY <1>1, Inductive, PTL

Verdicts ==
  [k \in Futures |->
     IF Settled(k) THEN Verdict(success[k])
       ELSE IF setter[k] = "half" THEN "resolving" ELSE "pending"]

\* A settled member is heard with its outcome, unless it is misread.
LEMMA HeardFacts ==
  ASSUME TypeOK, NEW k \in Futures, Settled(k), NEW F
  PROVE  /\ Verdicts[k] = Verdict(success[k]) /\ Verdict(success[k]) \in {"ok", "failed"}
         /\ \A b \in BOOLEAN : (b = success[k] <=> k \notin F)
              => Together!Heard(F, k, Verdict(b))
<1>1. Verdicts[k] = Verdict(success[k]) /\ Verdict(success[k]) \in {"ok", "failed"}
  BY DEF Verdicts, Verdict
<1>2. success[k] \in BOOLEAN BY DEF TypeOK
<1>3. ASSUME NEW b \in BOOLEAN, b = success[k] <=> k \notin F
      PROVE  Together!Heard(F, k, Verdict(b))
  BY <1>1, <1>2, <1>3 DEF Together!Heard, Verdicts, Verdict
<1> QED BY <1>1, <1>3

\* A callback that decides decides what is heard of the members; one that hears the
\* opposite of its member's outcome hears it of a member that nobody kept.
LEMMA CallbackDecides ==
  ASSUME IInv, RunCallback, result = "pending",
         result' # result \/ misread' # misread
  PROVE  LET k == Head(queue) IN
         /\ k \in Collection /\ Settled(k)
         /\ misread' \in {misread, misread \cup {k}}
         /\ misread' # misread => ~kept
         /\ result' # result =>
              result' \in {"ok", "failed"} /\ Together!May(misread', result')
<1> USE AggregationAssumption DEF IInv, TypeOK, Futures
<1> DEFINE k == Head(queue)
<1>1. k \in Futures /\ Range(queue) = {k} \cup Range(queue')
  BY PopFacts DEF RunCallback
<1>2. k \in Collection /\ Settled(k) /\ k \in Outstanding /\ pc # "scan"
  BY <1>1 DEF RunCallback, CallsOK, ScanOK, Outstanding
<1>3. PICK s \in BOOLEAN :
        /\ Alive(k) => s = success[k]
        /\ FinishedCb(s)
        /\ misread' = IF s # success[k] THEN misread \cup {k} ELSE misread
  BY DEF RunCallback
<1> HIDE DEF k
<1>4. k \notin misread BY <1>2 DEF MisreadOK
<1>5. misread' # misread => ~kept BY <1>3 DEF Alive
<1>6. s = success[k] <=> k \notin misread' BY <1>3, <1>4
<1>7. Together!Heard(misread', k, Verdict(s)) BY <1>1, <1>2, <1>6, HeardFacts
<1>8. ASSUME result' # result
      PROVE  result' \in {"ok", "failed"} /\ Together!May(misread', result')
  <2>1. CASE mode = "any" \/ ~s
    <3>1. result' = Verdict(s) BY <1>3, <1>8, <2>1 DEF FinishedCb
    <3>2. result' \in {"ok", "failed"} BY <3>1 DEF Verdict
    <3>3. Together!May(misread', result')
      BY <1>2, <1>7, <2>1, <3>1 DEF Together!May, Verdict
    <3> QED BY <3>2, <3>3
  <2>2. CASE mode = "all" /\ s
    <3>1. left = 1 /\ result' = "ok" BY <1>3, <1>8, <2>2 DEF FinishedCb
    <3>2. Cardinality(Outstanding) = 1 BY <1>2, <2>2, <3>1 DEF CountIsExact
    <3>3. IsFiniteSet(Outstanding)
      <4>1. i..size \subseteq 1..size OBVIOUS
      <4>2. Outstanding \subseteq 1..size BY <4>1 DEF Outstanding, CallsOK, Collection
      <4>3. IsFiniteSet(1..size) BY FS_Interval
      <4> QED BY <4>2, <4>3, FS_Subset
    <3>4. Outstanding = {k} BY <1>2, <3>2, <3>3, FS_Singleton
    <3>5. ASSUME NEW m \in Collection PROVE Together!Heard(misread', m, "ok")
      <4>1. CASE m = k BY <1>7, <2>2, <4>1 DEF Verdict
      <4>2. CASE m # k
        <5>1. Settled(m) /\ (success[m] <=> m \notin misread)
          BY <1>2, <2>2, <3>4, <4>2 DEF CountIsExact
        <5>2. m \in Futures /\ success[m] \in BOOLEAN BY DEF Collection
        <5>3. TRUE = success[m] <=> m \notin misread' BY <1>3, <4>2, <5>1, <5>2
        <5>4. Together!Heard(misread', m, Verdict(TRUE)) BY <5>1, <5>2, <5>3, HeardFacts
        <5> QED BY <5>4 DEF Verdict
      <4> QED BY <4>1, <4>2
    <3>6. Together!May(misread', "ok") BY <1>2, <2>2, <3>5 DEF Together!May
    <3> QED BY <3>1, <3>6
  <2> QED BY <2>1, <2>2
<1> QED BY <1>2, <1>3, <1>5, <1>8 DEF k

\* Each step is a step of Joint or leaves it as it was: WriteFinished begins and
\* WriteSuccess settles a member; returning early, or the right callback, decides.
LEMMA StepRefines ==
  ASSUME IInv, [Next]_vars
  PROVE  [Together!Next]_(Together!vars)
<1> USE AggregationAssumption DEF IInv, TypeOK, members, caller, Futures, Together!vars
<1>1. ASSUME NEW k \in Futures, WriteFinished(k)
      PROVE  \E m \in Futures : Together!Begin(m)
  <2>1. Verdicts[k] = "pending" BY <1>1 DEF WriteFinished, Verdicts, Settled
  <2>2. Verdicts' = [Verdicts EXCEPT ![k] = "resolving"]
    BY <1>1 DEF WriteFinished, Verdicts, Settled
  <2> QED BY <1>1, <2>1, <2>2 DEF WriteFinished, Together!Begin, Verdicts, Collection
<1>2. ASSUME NEW k \in Futures, WriteSuccess(k)
      PROVE  \E m \in Futures : Together!Settle(m)
  <2>1. Verdicts[k] = "resolving" BY <1>2 DEF WriteSuccess, Verdicts, Settled
  <2>2. Verdict(success[k]) \in {"ok", "failed"} BY DEF Verdict
  <2>3. Verdicts' = [Verdicts EXCEPT ![k] = Verdict(success[k])]
    BY <1>2 DEF WriteSuccess, Verdicts, Settled
  <2> QED BY <1>2, <2>1, <2>2, <2>3
          DEF WriteSuccess, Together!Settle, Verdicts, Collection
<1>3. ASSUME NEW k \in Futures, Flush(k) PROVE UNCHANGED Together!vars
  BY <1>3 DEF Flush, Settled, Collection
<1>4. ASSUME ReturnEmpty PROVE Together!Decide
  BY <1>4 DEF ReturnEmpty, Return, ScanOK, Settled, Collection,
              Together!Decide, Together!May
<1>5. ASSUME Scan, result' # result
      PROVE  Together!Decide \/ \E k \in Futures : Together!Early(k)
  <2>1. /\ result = "pending" /\ result' = Seen(i) /\ i \in Collection /\ i \in Futures
        /\ UNCHANGED <<mode, size, kept, setter, success, misread>> /\ misread = {}
        /\ mode = "any" \/ result' = "failed"
        /\ setter[i] # "idle"
    BY <1>5 DEF Scan, Return, ScanOK, MisreadOK, Collection
  <2>2. CASE Settled(i)
    <3>1. result' = Verdict(success[i]) /\ result' \in {"ok", "failed"}
      BY <2>1, <2>2 DEF Seen, Verdict
    <3>2. Together!Heard(misread, i, result')
      <4>1. success[i] \in BOOLEAN /\ i \notin misread BY <2>1
      <4>2. Together!Heard(misread, i, Verdict(success[i]))
        BY <2>1, <2>2, <4>1, HeardFacts
      <4> QED BY <3>1, <4>2
    <3>3. Together!May(misread, result') BY <2>1, <3>2 DEF Together!May
    <3> QED BY <2>1, <3>1, <3>3 DEF Together!Decide, Settled, Collection
  <2>3. CASE ~Settled(i)
    <3>1. setter[i] = "half" /\ result' = "failed"
      BY <2>1, <2>3 DEF Seen, Verdict, Settled
    <3>2. Verdicts[i] = "resolving" BY <2>1, <2>3, <3>1 DEF Verdicts
    <3>3. Together!Early(i)
      BY <2>1, <3>1, <3>2 DEF Together!Early, Verdicts, Settled, Collection
    <3> QED BY <2>1, <3>3
  <2> QED BY <2>2, <2>3
<1>6. ASSUME Scan, result' = result PROVE UNCHANGED Together!vars
  BY <1>6 DEF Scan, Settled, Collection
<1>7. ASSUME ReturnDone PROVE Together!Decide
  <2>1. /\ result = "pending" /\ result' = "ok" /\ misread = {}
        /\ mode = "all" /\ Collection # {}
        /\ UNCHANGED <<mode, size, kept, setter, success, misread>>
    <3>1. 1 \in Collection BY <1>7 DEF ReturnDone, Collection
    <3> QED BY <1>7, <3>1 DEF ReturnDone, Return, ScanOK, MisreadOK
  <2>2. \A k \in Collection : k \in Futures /\ Settled(k) /\ success[k]
    BY <1>7 DEF ReturnDone, ScanOK, Collection
  <2>3. ASSUME NEW k \in Collection PROVE Together!Heard(misread, k, "ok")
    <3>1. Together!Heard(misread, k, Verdict(TRUE)) BY <2>1, <2>2, HeardFacts
    <3> QED BY <3>1 DEF Verdict
  <2>4. Together!May(misread, "ok") BY <2>1, <2>3 DEF Together!May
  <2> QED BY <2>1, <2>4 DEF Together!Decide, Settled, Collection
<1>8. ASSUME BeginRegister \/ Register \/ EndRegister PROVE UNCHANGED Together!vars
  BY <1>8 DEF BeginRegister, Register, EndRegister, Settled, Collection
<1>9. ASSUME RunCallback
      PROVE  \/ UNCHANGED Together!vars
             \/ Together!Decide
             \/ \E k \in Futures : Together!Stray(k)
  <2> DEFINE k == Head(queue)
  <2>1. UNCHANGED <<mode, size, kept, setter, success, Verdicts>>
    BY <1>9 DEF RunCallback, Verdicts, Settled
  <2>2. CASE UNCHANGED <<result, misread>>
    BY <2>1, <2>2 DEF Verdicts, Collection
  <2>3. CASE result' # result \/ misread' # misread
    <3>1. result = "pending" BY <1>9, <2>3 DEF RunCallback, FinishedCb
    <3>2. /\ k \in Collection /\ k \in Futures /\ Settled(k)
          /\ misread' \in {misread, misread \cup {k}}
          /\ misread' # misread => ~kept
          /\ result' # result =>
               result' \in {"ok", "failed"} /\ Together!May(misread', result')
      BY <1>9, <2>3, <3>1, CallbackDecides DEF Collection
    <3> HIDE DEF k
    <3>3. CASE misread' = misread
      BY <2>1, <2>3, <3>1, <3>2, <3>3 DEF Together!Decide, Verdicts, Collection
    <3>4. CASE misread' # misread
      <4>1. misread' = misread \cup {k} /\ ~kept BY <3>2, <3>4
      <4>2. Verdicts[k] \in {"ok", "failed"} BY <3>2, HeardFacts
      <4>3. Together!Stray(k)
        BY <2>1, <3>1, <3>2, <4>1, <4>2 DEF Together!Stray, Verdicts, Collection
      <4> QED BY <3>2, <4>3
    <3> QED BY <3>3, <3>4
  <2> QED BY <2>2, <2>3
<1>10. CASE UNCHANGED vars BY <1>10 DEF vars, Settled, Collection
<1> QED
  BY <1>1, <1>2, <1>3, <1>4, <1>5, <1>6, <1>7, <1>8, <1>9, <1>10
  DEF Next, SetterRuns, Caller, Together!Next

\* The future that all() or any() returns is decided once, and the way Joint demands,
\* on however many cores members are resolved and whoever keeps them.
THEOREM RefinesJoint == SafeSpec => JointSafety
<1>1. Init => Together!Init
  BY AggregationAssumption DEF Init, Together!Init, Settled, Collection, Futures
<1>2. IInv /\ [Next]_vars => [Together!Next]_(Together!vars) BY StepRefines
<1> QED BY <1>1, <1>2, Inductive, PTL DEF SafeSpec, JointSafety, Together!SafeSpec

(***************************************************************************)
(* Combinators.                                                            *)
(***************************************************************************)
\* A promise that is not made yet has no outcome and no past; a source has none
\* but its outcome.
ShapeOK ==
  \A p \in Promises :
    /\ p > made => outcome[p] = Pending /\ by[p].kind = "source"
    /\ IF by[p].kind = "source" THEN via[p] = None /\ calls[p] = 0 ELSE by[p].on # None
    /\ timers[p] # "none" => by[p].kind = "with_timeout"

\* What is hung on a promise is the reaction of its combinator, at the stage that
\* the calls of the handler and the future that it returned tell, and the promise
\* to be resolved is open, unless a timer may have been faster.
HungFits(r) ==
  /\ r.to <= made
  /\ IF r.kind = "relay"
       THEN by[r.to].kind \in {"then_future", "on_error"} /\ via[r.to] = r.on /\
         calls[r.to] = 1
       ELSE by[r.to].kind = r.kind
  /\ r.kind = "sequential" => r.on = IF via[r.to] = None THEN by[r.to].on ELSE via[r.to]
  /\ r.kind \notin {"relay", "sequential"} =>
       r.on = by[r.to].on /\ via[r.to] = None /\ calls[r.to] = 0
  /\ r.kind # "with_timeout" => outcome[r.to] = Pending

HungOK == \A r \in hung : HungFits(r)

\* One reaction at a time is to resolve a promise.
AloneOK == \A r, s \in hung : r.to = s.to => r = s

\* The two parties to with_timeout, between test and resolution.
PartiesOK ==
  /\ tested # None =>
       /\ by[tested.to].kind = "with_timeout" /\ tested.on = by[tested.to].on
       /\ outcome[tested.on] # Pending
  /\ expiring # None => timers[expiring] = "gone"

\* Outcomes and calls are accounted for by outcomes that are there to stay.
Fits(p) ==
  /\ outcome[p] # Pending => OutcomeFits(p) /\ (Is(p, "then") => On(p) # Pending)
  /\ calls[p] > 0 => HandlerFits(p)

FitsOK == \A p \in Promises : Fits(p)

FuturesIInv == FuturesTypeOK /\ ShapeOK /\ HungOK /\ AloneOK /\ PartiesOK /\ FitsOK

\* Constants, and what Pending is not.
LEMMA ConstantFacts ==
  /\ MaxPromises \in Nat /\ None \notin Promises /\ Pending \notin Values
  /\ Pending # Failed
  /\ 0 \in 0..MaxSteps /\ 1 \in 0..MaxSteps /\ Failed \notin Values
BY FuturesAssumption DEF Outcomes

\* Resolving a promise decides it if it was open, and changes no outcome.
LEMMA SettleFacts ==
  ASSUME FuturesTypeOK, NEW p \in Promises, NEW o \in Outcomes, Settle(p, o)
  PROVE  /\ outcome' \in [Promises -> Outcomes \cup {Pending}]
         /\ \A q \in Promises : outcome[q] # Pending => outcome'[q] = outcome[q]
         /\ \A q \in Promises \ {p} : outcome'[q] = outcome[q]
         /\ outcome[p] = Pending => outcome'[p] = o
         /\ outcome'[p] # Pending
<1>1. outcome \in [Promises -> Outcomes \cup {Pending}] /\ o # Pending
  BY FuturesAssumption DEF FuturesTypeOK
<1>2. CASE outcome[p] = Pending BY <1>1, <1>2 DEF Settle
<1>3. CASE outcome[p] # Pending BY <1>1, <1>3 DEF Settle
<1> QED BY <1>2, <1>3

\* A resolved promise has an outcome.
LEMMA Resolved ==
  ASSUME FuturesTypeOK, NEW p \in Promises, outcome[p] # Pending
  PROVE  outcome[p] \in Outcomes
BY DEF FuturesTypeOK

\* A promise that a step leaves alone stays accounted for, since what accounts for
\* it stays.
LEMMA FitsStays ==
  ASSUME FuturesTypeOK, ShapeOK, NEW p \in Promises, Fits(p), made' \in Nat,
         made <= made',
         \A q \in Promises : outcome[q] # Pending => outcome'[q] = outcome[q],
         outcome'[p] = outcome[p], via'[p] = via[p], calls'[p] = calls[p],
         p <= made => by'[p] = by[p] /\ (timers[p] = "gone" => timers'[p] = "gone")
  PROVE  Fits(p)'
<1> USE ConstantFacts
<1>0. p \in Nat /\ made \in Nat BY DEF FuturesTypeOK, Promises
<1>1. CASE p > made
  <2>1. outcome[p] = Pending /\ calls[p] = 0 BY <1>1 DEF ShapeOK
  <2> QED BY <2>1 DEF Fits
<1>2. CASE p <= made /\ by[p].kind = "source"
  <2>1. calls[p] = 0 /\ by'[p].kind = "source" BY <1>2 DEF ShapeOK
  <2> QED BY <2>1 DEF Fits, OutcomeFits, Is
<1>3. CASE p <= made /\ by[p].kind # "source"
  <2> DEFINE last == IF via[p] = None THEN by[p].on ELSE via[p]
  <2>1. by[p].on \in Promises /\ last \in Promises BY <1>3 DEF ShapeOK, FuturesTypeOK
  <2>2. by'[p] = by[p] /\ p <= made' /\ (timers[p] = "gone" => timers'[p] = "gone")
    BY <1>0, <1>3
  <2>3. /\ On(p) # Pending => On(p)' = On(p)
        /\ Last(p) # Pending => Last(p)' = Last(p)
        /\ \A kind \in Kinds : Is(p, kind)' <=> Is(p, kind)
    BY <1>3, <2>1, <2>2 DEF On, Last, Is
  <2>4. ASSUME outcome[p] # Pending
        PROVE  OutcomeFits(p)' /\ (Is(p, "then") => On(p) # Pending)'
    BY <2>2, <2>3, <2>4 DEF Fits, OutcomeFits, Kinds
  <2>5. ASSUME calls[p] > 0 PROVE HandlerFits(p)'
    BY <2>3, <2>5 DEF Fits, HandlerFits, Kinds
  <2> QED BY <2>4, <2>5 DEF Fits
<1> QED BY <1>0, <1>1, <1>2, <1>3

\* The initial state satisfies the inductive invariant.
LEMMA FuturesInitIInv == FuturesInit => FuturesIInv
<1> SUFFICES ASSUME FuturesInit PROVE FuturesIInv OBVIOUS
<1> USE ConstantFacts DEF FuturesInit
<1>1. FuturesTypeOK BY DEF FuturesTypeOK
<1>2. ShapeOK /\ HungOK /\ AloneOK /\ PartiesOK
  BY DEF ShapeOK, HungOK, AloneOK, PartiesOK
<1>3. FitsOK BY DEF FitsOK, Fits
<1> QED BY <1>1, <1>2, <1>3 DEF FuturesIInv

\* What is hung is a reaction on a promise that was made, and belongs to a
\* combinator.
LEMMA ReactionFacts ==
  ASSUME FuturesTypeOK, HungOK, NEW r \in hung
  PROVE  /\ r.kind \in Kinds \cup {"relay"} /\ r.on \in Promises /\ r.to \in Promises
         /\ r.to <= made /\ by[r.to].kind # "source" /\ HungFits(r)
<1>1. r \in Reactions BY DEF FuturesTypeOK
<1>2. HungFits(r) BY DEF HungOK
<1> QED BY <1>1, <1>2 DEF Reactions, HungFits, Kinds

\* The dispatcher runs a reaction, which is gone or has another in its place: what
\* has nothing to do with its promise stays.
LEMMA ReactStays ==
  ASSUME FuturesIInv, NEW r \in hung, NEW s, UNCHANGED <<tree, timers, expiring>>,
         tested = None, tested' = None,
         \A q \in Promises : outcome[q] # Pending => outcome'[q] = outcome[q],
         \A q \in Promises \ {r.to} :
           outcome'[q] = outcome[q] /\ via'[q] = via[q] /\ calls'[q] = calls[q],
         \/ hung' = hung \ {r}
         \/ hung' = (hung \ {r}) \cup {s} /\ s.to = r.to /\ HungFits(s)'
  PROVE  /\ ShapeOK' /\ HungOK' /\ AloneOK' /\ PartiesOK'
         /\ \A q \in Promises \ {r.to} : Fits(q)'
<1> USE ConstantFacts DEF FuturesIInv
<1>0. /\ made \in Nat /\ Promises \subseteq Nat
      /\ r.to \in Promises /\ r.to <= made /\ by[r.to].kind # "source"
      /\ made' = made /\ by' = by
  BY ReactionFacts DEF FuturesTypeOK, Promises, tree
<1>1. ShapeOK' BY <1>0 DEF ShapeOK
<1>2. ASSUME NEW t \in hung \ {r} PROVE t.to # r.to /\ HungFits(t)'
  <2>1. t.to # r.to /\ t.to \in Promises /\ HungFits(t)
    BY ReactionFacts DEF AloneOK
  <2> QED BY <1>0, <2>1 DEF HungFits
<1>3. HungOK' BY <1>2 DEF HungOK
<1>4. AloneOK' BY <1>2 DEF AloneOK
<1>5. PartiesOK' BY DEF PartiesOK
<1>6. ASSUME NEW q \in Promises \ {r.to} PROVE Fits(q)'
  BY <1>0, FitsStays DEF FitsOK
<1> QED BY <1>1, <1>3, <1>4, <1>5, <1>6

\* A reaction that resolves its promise and is gone.
LEMMA PassKeeps ==
  ASSUME FuturesIInv, NEW r \in hung,
         r.kind \in {"then_future", "on_error", "relay", "sequential"},
         tested = None, outcome[r.on] # Pending, UNCHANGED <<tree, tested, timerTask>>,
         r.kind = "then_future" => outcome[r.on] = Failed,
         r.kind = "on_error" => outcome[r.on] # Failed,
         Pass(r)
  PROVE  FuturesIInv'
<1> USE ConstantFacts DEF FuturesIInv
<1>0. /\ r.kind \in Kinds \cup {"relay"} /\ r.on \in Promises /\ r.to \in Promises
      /\ r.to <= made /\ by[r.to].kind # "source" /\ HungFits(r)
  BY ReactionFacts
<1>1. /\ hung' = hung \ {r}
      /\ UNCHANGED <<calls, via, made, by, timers, expiring, tested>>
      /\ Settle(r.to, outcome[r.on]) /\ outcome[r.on] \in Outcomes
  BY <1>0, Resolved DEF Pass, tree, timerTask
<1>2. /\ outcome' \in [Promises -> Outcomes \cup {Pending}]
      /\ \A q \in Promises : outcome[q] # Pending => outcome'[q] = outcome[q]
      /\ \A q \in Promises \ {r.to} : outcome'[q] = outcome[q]
      /\ outcome[r.to] = Pending => outcome'[r.to] = outcome[r.on]
  BY <1>0, <1>1, SettleFacts
<1>3. FuturesTypeOK' BY <1>1, <1>2 DEF FuturesTypeOK
<1>4. /\ ShapeOK' /\ HungOK' /\ AloneOK' /\ PartiesOK'
      /\ \A q \in Promises \ {r.to} : Fits(q)'
  BY <1>1, <1>2, ReactStays DEF tree
<1>5. Fits(r.to)'
  <2> DEFINE p == r.to
  <2>1. /\ outcome'[p] = outcome[r.on] /\ outcome'[r.on] = outcome[r.on]
        /\ by' = by /\ via' = via /\ calls' = calls /\ made' = made
        /\ by[p].on \in Promises /\ p <= made
    BY <1>0, <1>1, <1>2 DEF HungFits, ShapeOK, FuturesTypeOK
  <2>2. r.on = IF via[p] = None THEN by[p].on ELSE via[p] BY <1>0 DEF HungFits
  <2>3. Last(p)' = outcome'[p] BY <2>1, <2>2 DEF Last
  <2>4. Fits(p) BY <1>0 DEF FitsOK
  <2>5. /\ r.kind = "relay"
             => by[p].kind \in {"then_future", "on_error"} /\ calls[p] = 1
        /\ r.kind # "relay" => by[p].kind = r.kind
        /\ r.kind \in {"then_future", "on_error"} => r.on = by[p].on /\ calls[p] = 0
    BY <1>0 DEF HungFits
  <2> HIDE DEF p
  <2>6. On(p) # Pending \/ by[p].kind = "sequential"
    <3>1. CASE r.kind = "relay"
      BY <2>1, <2>4, <2>5, <3>1 DEF Fits, HandlerFits, Is
    <3>2. CASE r.kind # "relay" BY <2>5, <3>2 DEF On
    <3> QED BY <3>1, <3>2
  <2>7. On(p) # Pending => On(p)' = On(p) BY <1>2, <2>1 DEF On
  <2>8. OutcomeFits(p)' BY <2>1, <2>3, <2>5, <2>6, <2>7 DEF OutcomeFits, Is
  <2>9. calls[p] > 0 => HandlerFits(p)'
    BY <2>1, <2>4, <2>5, <2>6, <2>7 DEF Fits, HandlerFits, Is
  <2>10. by[p].kind # "then" BY <2>5
  <2> QED BY <2>1, <2>8, <2>9, <2>10 DEF Fits, Is, p
<1> QED BY <1>3, <1>4, <1>5 DEF FitsOK

\* A handler that is called and returns a future to be waited for.
LEMMA FollowKeeps ==
  ASSUME FuturesIInv, NEW r \in hung, NEW kind, tested = None, outcome[r.on] # Pending,
         UNCHANGED <<tree, tested, timerTask>>,
         \/ r.kind = "then_future" /\ kind = "relay" /\ outcome[r.on] # Failed
         \/ r.kind = "on_error" /\ kind = "relay" /\ outcome[r.on] = Failed
         \/ r.kind = "sequential" /\ kind = "sequential" /\ calls[r.to] < MaxSteps,
         Follow(r, kind)
  PROVE  FuturesIInv'
<1> USE ConstantFacts DEF FuturesIInv
<1> DEFINE p == r.to
<1>0. /\ r.kind \in Kinds \cup {"relay"} /\ r.on \in Promises /\ p \in Promises
      /\ p <= made /\ by[p].kind # "source" /\ HungFits(r) /\ outcome[r.on] \in Outcomes
  BY ReactionFacts, Resolved
<1>1. PICK ret \in Returnable(p) :
        /\ via' = [via EXCEPT ![p] = ret]
        /\ hung' = (hung \ {r}) \cup {Reaction(kind, ret, p)}
  BY DEF Follow
<1>2. /\ calls' = [calls EXCEPT ![p] = @ + 1] /\ outcome' = outcome
      /\ UNCHANGED <<made, by, timers, expiring, tested>>
  BY DEF Follow, Called, tree, timerTask
<1>3. ret \in Promises BY DEF Returnable, FuturesTypeOK, Promises
<1> DEFINE s == Reaction(kind, ret, p)
<1>4. s \in Reactions /\ s.kind = kind /\ s.on = ret /\ s.to = p
  BY <1>0, <1>3 DEF Reaction, Reactions, Kinds
<1>5. /\ via' \in [Promises -> Promises \cup {None}] /\ via'[p] = ret
      /\ calls[p] \in 0..MaxSteps /\ calls'[p] = calls[p] + 1
      /\ \A q \in Promises \ {p} : via'[q] = via[q] /\ calls'[q] = calls[q]
  BY <1>0, <1>1, <1>2, <1>3 DEF FuturesTypeOK
<1>6. /\ r.kind # "sequential" => calls[p] = 0 /\ r.on = by[p].on
      /\ r.kind = "sequential" => calls[p] < MaxSteps
      /\ by[p].kind = r.kind /\ outcome[p] = Pending
  BY <1>0 DEF HungFits
<1> HIDE DEF p, s
<1>7. calls'[p] \in 0..MaxSteps BY <1>5, <1>6, FuturesAssumption
<1>8. FuturesTypeOK'
  <2>1. calls' \in [Promises -> 0..MaxSteps] BY <1>0, <1>2, <1>7 DEF FuturesTypeOK, p
  <2>2. hung' \in SUBSET Reactions BY <1>1, <1>4 DEF FuturesTypeOK, s, p
  <2> QED BY <1>2, <1>5, <2>1, <2>2 DEF FuturesTypeOK
<1>9. HungFits(s)'
  BY <1>0, <1>2, <1>3, <1>4, <1>5, <1>6 DEF HungFits
<1>10. /\ ShapeOK' /\ HungOK' /\ AloneOK' /\ PartiesOK'
       /\ \A q \in Promises \ {p} : Fits(q)'
  BY <1>1, <1>2, <1>4, <1>5, <1>9, ReactStays DEF tree, p, s
<1>11. Fits(p)'
  <2>1. outcome'[p] = Pending /\ by'[p] = by[p] BY <1>2, <1>6
  <2>2. r.kind # "sequential" => On(p)' = outcome[r.on] BY <1>2, <1>6 DEF On
  <2>3. HandlerFits(p)'
    BY <1>0, <1>5, <1>6, <2>1, <2>2 DEF HandlerFits, Is, Outcomes
  <2> QED BY <2>1, <2>3 DEF Fits
<1> QED BY <1>8, <1>10, <1>11 DEF FitsOK

\* then(): with the outcome of what it hangs on, or of its handler.
LEMMA ThenKeeps ==
  ASSUME FuturesIInv, NEW r \in hung, RunThen(r)
  PROVE  FuturesIInv'
<1> USE ConstantFacts DEF FuturesIInv
<1> DEFINE p == r.to
<1>0. /\ r.on \in Promises /\ p \in Promises /\ p <= made /\ HungFits(r)
      /\ r.kind = "then" /\ tested = None /\ outcome[r.on] # Pending
      /\ outcome[r.on] \in Outcomes
  BY ReactionFacts, Resolved DEF RunThen, Due
<1>1. /\ by[p].kind = "then" /\ r.on = by[p].on /\ calls[p] = 0 /\ outcome[p] = Pending
  BY <1>0 DEF HungFits
<1>2. /\ hung' = hung \ {r}
      /\ UNCHANGED <<made, by, via, tested, timers, expiring>>
  BY DEF RunThen, tree, timerTask
<1>3. PICK o \in Outcomes :
        /\ Settle(p, o)
        /\ \/ outcome[r.on] = Failed /\ o = Failed /\ calls' = calls
           \/ /\ outcome[r.on] \in Values /\ o \in Values
              /\ calls' = [calls EXCEPT ![p] = @ + 1]
  BY <1>0 DEF RunThen, Called, Outcomes
<1> HIDE DEF p
<1>4. /\ outcome' \in [Promises -> Outcomes \cup {Pending}]
      /\ \A q \in Promises : outcome[q] # Pending => outcome'[q] = outcome[q]
      /\ \A q \in Promises \ {p} : outcome'[q] = outcome[q]
      /\ outcome'[p] = o
  BY <1>0, <1>1, <1>3, SettleFacts
<1>5. /\ calls' \in [Promises -> 0..MaxSteps]
      /\ \A q \in Promises \ {p} : calls'[q] = calls[q]
      /\ calls'[p] = IF o = Failed THEN 0 ELSE 1
  BY <1>0, <1>1, <1>3 DEF FuturesTypeOK
<1>6. FuturesTypeOK' BY <1>2, <1>4, <1>5 DEF FuturesTypeOK
<1>7. /\ ShapeOK' /\ HungOK' /\ AloneOK' /\ PartiesOK'
      /\ \A q \in Promises \ {p} : Fits(q)'
  BY <1>0, <1>2, <1>4, <1>5, ReactStays DEF tree, p
<1>8. Fits(p)'
  <2>1. by'[p] = by[p] /\ On(p)' = outcome[r.on] BY <1>0, <1>1, <1>2, <1>4 DEF On
  <2> QED BY <1>0, <1>1, <1>3, <1>4, <1>5, <2>1 DEF Fits, OutcomeFits, HandlerFits, Is
<1> QED BY <1>6, <1>7, <1>8 DEF FitsOK

\* finally(): the handler is called and the promise dropped.
LEMMA FinallyKeeps ==
  ASSUME FuturesIInv, NEW r \in hung, RunFinally(r)
  PROVE  FuturesIInv'
<1> USE ConstantFacts DEF FuturesIInv
<1> DEFINE p == r.to
<1>0. /\ r.on \in Promises /\ p \in Promises /\ p <= made /\ HungFits(r)
      /\ r.kind = "finally" /\ tested = None /\ outcome[r.on] # Pending
  BY ReactionFacts DEF RunFinally, Due
<1>1. /\ by[p].kind = "finally" /\ r.on = by[p].on /\ calls[p] = 0
      /\ outcome[p] = Pending
  BY <1>0 DEF HungFits
<1>2. /\ hung' = hung \ {r} /\ calls' = [calls EXCEPT ![p] = @ + 1]
      /\ UNCHANGED <<made, by, outcome, via, tested, timers, expiring>>
  BY DEF RunFinally, Called, tree, timerTask
<1> HIDE DEF p
<1>3. /\ calls' \in [Promises -> 0..MaxSteps]
      /\ \A q \in Promises \ {p} : calls'[q] = calls[q]
      /\ calls'[p] = 1
  BY <1>0, <1>1, <1>2 DEF FuturesTypeOK
<1>4. FuturesTypeOK' BY <1>2, <1>3 DEF FuturesTypeOK
<1>5. /\ ShapeOK' /\ HungOK' /\ AloneOK' /\ PartiesOK'
      /\ \A q \in Promises \ {p} : Fits(q)'
  BY <1>0, <1>2, <1>3, ReactStays DEF tree, p
<1>6. Fits(p)'
  BY <1>0, <1>1, <1>2, <1>3 DEF Fits, HandlerFits, Is, On
<1> QED BY <1>4, <1>5, <1>6 DEF FitsOK

\* with_timeout() tests its promise.
LEMMA TestKeeps ==
  ASSUME FuturesIInv, NEW r \in hung, TestTimeout(r)
  PROVE  FuturesIInv'
<1> USE ConstantFacts DEF FuturesIInv
<1>0. /\ r.on \in Promises /\ r.to \in Promises /\ HungFits(r) /\ r \in Reactions
      /\ r.kind = "with_timeout" /\ outcome[r.on] # Pending
  BY ReactionFacts DEF TestTimeout, Due, FuturesTypeOK
<1>1. /\ hung' = hung \ {r} /\ tested' \in {r, None}
      /\ UNCHANGED <<made, by, outcome, via, calls, timers, expiring>>
  BY DEF TestTimeout, tree, timerTask
<1>2. FuturesTypeOK' BY <1>0, <1>1 DEF FuturesTypeOK
<1>3. ShapeOK' /\ AloneOK' BY <1>1 DEF ShapeOK, AloneOK
<1>4. HungOK' BY <1>1 DEF HungOK, HungFits
<1>5. PartiesOK' BY <1>0, <1>1 DEF PartiesOK, HungFits
<1>6. FitsOK' BY <1>1 DEF FitsOK, Fits, OutcomeFits, HandlerFits, Is, On, Last
<1> QED BY <1>2, <1>3, <1>4, <1>5, <1>6

\* A party to with_timeout, past its test, resolves a promise: with what it hangs
\* on, or with the failure of the timer.
LEMMA PartyKeeps ==
  ASSUME FuturesIInv, NEW p \in Promises, NEW o \in Outcomes, Settle(p, o),
         by[p].kind = "with_timeout",
         \/ by[p].on \in Promises /\ o = outcome[by[p].on]
         \/ o = Failed /\ timers[p] = "gone",
         UNCHANGED <<made, by, via, calls, hung, timers>>,
         tested' \in {tested, None}, expiring' \in {expiring, None}
  PROVE  FuturesIInv'
<1> USE ConstantFacts DEF FuturesIInv
<1>1. /\ outcome' \in [Promises -> Outcomes \cup {Pending}]
      /\ \A q \in Promises : outcome[q] # Pending => outcome'[q] = outcome[q]
      /\ \A q \in Promises \ {p} : outcome'[q] = outcome[q]
      /\ outcome[p] = Pending => outcome'[p] = o
      /\ o # Pending
  BY SettleFacts, FuturesAssumption
<1>2. FuturesTypeOK' BY <1>1 DEF FuturesTypeOK
<1>3. p <= made /\ made \in Nat /\ p \in Nat
  BY DEF ShapeOK, FuturesTypeOK, Promises
<1>4. ShapeOK' /\ AloneOK' BY <1>1, <1>3 DEF ShapeOK, AloneOK
<1>5. HungOK'
  <2> SUFFICES ASSUME NEW s \in hung PROVE HungFits(s)' BY DEF HungOK
  <2>1. HungFits(s) /\ s.to \in Promises BY ReactionFacts
  <2>2. s.to = p => s.kind = "with_timeout" BY <2>1 DEF HungFits
  <2> QED BY <1>1, <2>1, <2>2 DEF HungFits
<1>6. PartiesOK'
  <2>1. tested' # None => tested' = tested /\ tested.on \in Promises
    BY DEF FuturesTypeOK, Reactions
  <2> QED BY <1>1, <2>1 DEF PartiesOK
<1>7. ASSUME NEW q \in Promises, q # p \/ outcome[p] # Pending PROVE Fits(q)'
  <2>1. outcome'[q] = outcome[q] BY <1>1, <1>7
  <2>2. FuturesTypeOK /\ ShapeOK /\ Fits(q) BY DEF FitsOK
  <2>3. made' \in Nat /\ made <= made' BY <1>3
  <2>4. \A x \in Promises : outcome[x] # Pending => outcome'[x] = outcome[x] BY <1>1
  <2> QED BY <2>1, <2>2, <2>3, <2>4, FitsStays
<1>8. ASSUME outcome[p] = Pending PROVE Fits(p)'
  <2>1. Fits(p) BY DEF FitsOK
  <2>2. On(p) # Pending => On(p)' = On(p)
    <3>1. by[p].on \in Promises BY DEF ShapeOK, FuturesTypeOK
    <3> QED BY <1>1, <3>1 DEF On
  <2>3. OutcomeFits(p)'
    <3>1. o = On(p) \/ (o = Failed /\ timers[p] = "gone") BY DEF On
    <3> QED BY <1>1, <1>8, <2>2, <3>1 DEF OutcomeFits, Is
  <2>4. HandlerFits(p)' BY DEF HandlerFits, Is
  <2> QED BY <2>3, <2>4 DEF Fits, Is
<1> QED BY <1>2, <1>4, <1>5, <1>6, <1>7, <1>8 DEF FitsOK

\* A combinator is applied to a promise.
LEMMA ChainKeeps ==
  ASSUME FuturesIInv, NEW kind \in Kinds, NEW p \in Promises, Chain(kind, p)
  PROVE  FuturesIInv'
<1> USE ConstantFacts DEF FuturesIInv
<1>n. PICK n \in Promises : n = made + 1 BY DEF Chain, FuturesTypeOK, Promises
<1>s. PICK s \in Reactions : s = Reaction(kind, p, n) BY DEF Reaction, Reactions
<1>0. /\ made \in 0..MaxPromises /\ made < MaxPromises /\ p <= made
      /\ Promises \subseteq Nat /\ n > made
  BY <1>n DEF Chain, FuturesTypeOK, Promises
<1>1. /\ made' = n /\ by' = [by EXCEPT ![n] = [kind |-> kind, on |-> p]]
      /\ hung' = hung \cup {s}
      /\ UNCHANGED <<outcome, via, calls, tested, expiring>>
  BY <1>n, <1>s DEF Chain
<1>2. /\ timers' \in [Promises -> {"none", "armed", "gone"}]
      /\ \A q \in Promises \ {n} : timers'[q] = timers[q]
      /\ kind # "with_timeout" => timers' = timers
  BY <1>0, <1>1 DEF Chain, FuturesTypeOK
<1>3. s.kind = kind /\ s.on = p /\ s.to = n BY <1>s DEF Reaction
<1>4. /\ outcome[n] = Pending /\ via[n] = None /\ calls[n] = 0 /\ by[n].kind = "source"
      /\ timers[n] = "none"
  BY <1>0 DEF ShapeOK, Kinds
<1>5. /\ by' \in [Promises -> [kind : Kinds \cup {"source"}, on : Promises \cup {None}]]
      /\ by'[n].kind = kind /\ by'[n].on = p
      /\ \A q \in Promises \ {n} : by'[q] = by[q]
  BY <1>0, <1>1 DEF FuturesTypeOK
<1>6. made' \in 0..MaxPromises /\ made' \in Nat /\ made <= made' BY <1>0, <1>n, <1>1
<1>7. \A q \in Promises : q <= made => q # n /\ q <= made' BY <1>0, <1>n, <1>1
<1>8. \A q \in Promises : q > made' => q > made /\ q # n BY <1>0, <1>n, <1>1
<1>9. FuturesTypeOK' BY <1>1, <1>2, <1>3, <1>5, <1>6 DEF FuturesTypeOK
<1>10. ShapeOK'
  <2> SUFFICES ASSUME NEW q \in Promises
               PROVE  /\ q > made' => outcome[q] = Pending /\ by'[q].kind = "source"
                      /\ IF by'[q].kind = "source" THEN via[q] = None /\ calls[q] = 0
                           ELSE by'[q].on # None
                      /\ timers'[q] # "none" => by'[q].kind = "with_timeout"
    BY <1>1 DEF ShapeOK
  <2>1. CASE q = n BY <1>2, <1>4, <1>5, <1>8, <2>1 DEF Kinds
  <2>2. CASE q # n BY <1>2, <1>5, <1>8, <2>2 DEF ShapeOK
  <2> QED BY <2>1, <2>2
<1>11. ASSUME NEW t \in hung PROVE t.to # n /\ HungFits(t)'
  <2>1. t.to \in Promises /\ t.to <= made /\ HungFits(t) BY ReactionFacts
  <2>2. t.to # n /\ t.to <= made' BY <1>7, <2>1
  <2> QED BY <1>1, <1>5, <2>1, <2>2 DEF HungFits
<1>12. HungFits(s)'
  <2>1. kind # "relay" /\ n <= made' BY <1>0, <1>1, <1>n DEF Kinds
  <2> QED BY <1>1, <1>3, <1>4, <1>5, <2>1 DEF HungFits
<1>13. HungOK' BY <1>1, <1>11, <1>12 DEF HungOK
<1>14. AloneOK' BY <1>1, <1>3, <1>11 DEF AloneOK
<1>15. PartiesOK'
  <2>1. tested # None => tested.to \in Promises /\ tested.to # n
    BY <1>4 DEF FuturesTypeOK, Reactions, PartiesOK
  <2>2. expiring # None => expiring \in Promises /\ expiring # n
    BY <1>4 DEF FuturesTypeOK, PartiesOK
  <2> QED BY <1>1, <1>2, <1>5, <2>1, <2>2 DEF PartiesOK
<1>16. FitsOK'
  <2> SUFFICES ASSUME NEW q \in Promises PROVE Fits(q)' BY DEF FitsOK
  <2>1. Fits(q) BY DEF FitsOK
  <2>2. q <= made => by'[q] = by[q] /\ timers'[q] = timers[q] BY <1>2, <1>5, <1>7
  <2> QED BY <1>1, <1>6, <2>1, <2>2, FitsStays
<1> QED BY <1>9, <1>10, <1>13, <1>14, <1>15, <1>16

\* Every step preserves the inductive invariant.
LEMMA FuturesNextIInv == FuturesIInv /\ [FuturesNext]_futuresVars => FuturesIInv'
<1> SUFFICES ASSUME FuturesIInv, [FuturesNext]_futuresVars PROVE FuturesIInv' OBVIOUS
<1> USE ConstantFacts
<1>0. FuturesTypeOK /\ ShapeOK /\ HungOK /\ AloneOK /\ PartiesOK /\ FitsOK
  BY DEF FuturesIInv
<1>1. ASSUME Create PROVE FuturesIInv'
  <2>1. /\ made \in 0..MaxPromises /\ made' = made + 1 /\ made' \in 0..MaxPromises
        /\ Promises \subseteq Nat
        /\ UNCHANGED <<outcome, by, via, calls, hung, tested, timers, expiring>>
    BY <1>0, <1>1 DEF Create, FuturesTypeOK, timerTask, Promises
  <2>2. FuturesTypeOK' BY <1>0, <2>1 DEF FuturesTypeOK
  <2>3. ShapeOK'
    <3>1. \A p \in Promises : p > made' => p > made BY <2>1
    <3> QED BY <1>0, <2>1, <3>1 DEF ShapeOK
  <2>4. HungOK'
    <3> SUFFICES ASSUME NEW t \in hung PROVE HungFits(t)' BY <2>1 DEF HungOK
    <3>1. t.to \in Promises /\ HungFits(t) BY <1>0, ReactionFacts
    <3>2. t.to <= made BY <3>1 DEF HungFits
    <3>3. \A p \in Promises : p <= made => p <= made' BY <2>1
    <3> QED BY <2>1, <3>1, <3>2, <3>3 DEF HungFits
  <2>5. AloneOK' /\ PartiesOK' BY <1>0, <2>1 DEF AloneOK, PartiesOK
  <2>6. FitsOK' BY <1>0, <2>1, FitsStays DEF FitsOK
  <2> QED BY <2>2, <2>3, <2>4, <2>5, <2>6 DEF FuturesIInv
<1>2. ASSUME NEW p \in Promises, NEW o \in Outcomes, Resolve(p, o) PROVE FuturesIInv'
  <2>1. /\ by[p].kind = "source" /\ Settle(p, o) /\ p <= made
        /\ UNCHANGED <<made, by, via, calls, hung, tested, timers, expiring>>
    BY <1>2 DEF Resolve, tree, timerTask
  <2>2. /\ outcome' \in [Promises -> Outcomes \cup {Pending}]
        /\ \A q \in Promises : outcome[q] # Pending => outcome'[q] = outcome[q]
        /\ \A q \in Promises \ {p} : outcome'[q] = outcome[q]
    BY <1>0, <2>1, SettleFacts
  <2>3. FuturesTypeOK' BY <1>0, <2>1, <2>2 DEF FuturesTypeOK
  <2>4. p \in Nat /\ made \in Nat BY <1>0 DEF FuturesTypeOK, Promises
  <2>5. ShapeOK' BY <1>0, <2>1, <2>2, <2>4 DEF ShapeOK
  <2>6. HungOK'
    <3> SUFFICES ASSUME NEW t \in hung PROVE HungFits(t)' BY <2>1 DEF HungOK
    <3>1. t.to \in Promises /\ HungFits(t) /\ t.to # p BY <1>0, <2>1, ReactionFacts
    <3> QED BY <2>1, <2>2, <3>1 DEF HungFits
  <2>7. AloneOK' BY <1>0, <2>1 DEF AloneOK
  <2>8. PartiesOK'
    <3>1. tested # None => tested.on \in Promises BY <1>0 DEF FuturesTypeOK, Reactions
    <3> QED BY <1>0, <2>1, <2>2, <3>1 DEF PartiesOK
  <2>9. FitsOK'
    <3> SUFFICES ASSUME NEW q \in Promises PROVE Fits(q)' BY DEF FitsOK
    <3>1. CASE q = p
      <4>1. by'[p].kind = "source" /\ calls'[p] = 0 BY <1>0, <2>1 DEF ShapeOK
      <4> QED BY <3>1, <4>1 DEF Fits, OutcomeFits, Is
    <3>2. CASE q # p BY <1>0, <2>1, <2>2, <2>4, <3>2, FitsStays DEF FitsOK
    <3> QED BY <3>1, <3>2
  <2> QED BY <2>3, <2>5, <2>6, <2>7, <2>8, <2>9 DEF FuturesIInv
<1>3. ASSUME NEW kind \in Kinds, NEW p \in Promises, Chain(kind, p) PROVE FuturesIInv'
  BY <1>3, ChainKeeps
<1>4. ASSUME NEW p \in Promises, Expire(p) PROVE FuturesIInv'
  <2>1. /\ timers[p] = "armed" /\ timers' = [timers EXCEPT ![p] = "gone"]
        /\ expiring' \in {p, None}
        /\ UNCHANGED <<made, by, outcome, via, calls, hung, tested>>
    BY <1>4 DEF Expire, tree
  <2>2. /\ timers' \in [Promises -> {"none", "armed", "gone"}] /\ timers'[p] = "gone"
        /\ \A q \in Promises \ {p} : timers'[q] = timers[q]
    BY <1>0, <2>1 DEF FuturesTypeOK
  <2>3. FuturesTypeOK' BY <1>0, <2>1, <2>2 DEF FuturesTypeOK
  <2>4. ShapeOK' BY <1>0, <2>1, <2>2 DEF ShapeOK
  <2>5. HungOK' /\ AloneOK' BY <1>0, <2>1 DEF HungOK, HungFits, AloneOK
  <2>6. PartiesOK' BY <1>0, <2>1, <2>2 DEF PartiesOK
  <2>7. FitsOK'
    <3>1. made \in Nat /\ made' \in Nat /\ made <= made' BY <1>0, <2>1 DEF FuturesTypeOK
    <3>2. \A q \in Promises : timers[q] = "gone" => timers'[q] = "gone" BY <2>2
    <3> QED BY <1>0, <2>1, <3>1, <3>2, FitsStays DEF FitsOK
  <2> QED BY <2>3, <2>4, <2>5, <2>6, <2>7 DEF FuturesIInv
<1>5. ASSUME NEW r \in hung, React(r) PROVE FuturesIInv'
  <2>1. CASE RunThen(r) BY <2>1, ThenKeeps
  <2>2. CASE RunThenFuture(r)
    BY <2>2, PassKeeps, FollowKeeps DEF RunThenFuture, Due
  <2>3. CASE RunOnError(r)
    BY <2>3, PassKeeps, FollowKeeps DEF RunOnError, Due
  <2>4. CASE RunRelay(r) BY <2>4, PassKeeps DEF RunRelay, Due
  <2>5. CASE RunFinally(r) BY <2>5, FinallyKeeps
  <2>6. CASE RunSequential(r)
    BY <2>6, PassKeeps, FollowKeeps DEF RunSequential, Due
  <2>7. CASE TestTimeout(r) BY <2>7, TestKeeps
  <2> QED BY <1>5, <2>1, <2>2, <2>3, <2>4, <2>5, <2>6, <2>7 DEF React
<1>6. CASE SettleTested
  <2>1. tested \in Reactions /\ by[tested.to].kind = "with_timeout"
    BY <1>0, <1>6 DEF SettleTested, FuturesTypeOK, PartiesOK
  <2>2. /\ tested.to \in Promises /\ tested.on \in Promises
        /\ tested.on = by[tested.to].on /\ outcome[tested.on] \in Outcomes
    BY <1>0, <1>6, <2>1, Resolved DEF SettleTested, PartiesOK, Reactions
  <2> QED BY <1>6, <2>1, <2>2, PartyKeeps DEF SettleTested, tree, timerTask
<1>7. CASE SettleExpired
  <2>1. /\ expiring \in Promises /\ timers[expiring] = "gone"
        /\ by[expiring].kind = "with_timeout"
    BY <1>0, <1>7 DEF SettleExpired, FuturesTypeOK, PartiesOK, ShapeOK
  <2> QED BY <1>7, <2>1, PartyKeeps DEF SettleExpired, tree, Outcomes
<1>8. CASE UNCHANGED futuresVars
  BY <1>0, <1>8
  DEF FuturesIInv, futuresVars, tree, timerTask, FuturesTypeOK, ShapeOK, HungOK,
      HungFits, AloneOK, PartiesOK,
                    FitsOK, Fits, OutcomeFits, HandlerFits, Is, On, Last
<1> QED BY <1>1, <1>2, <1>3, <1>4, <1>5, <1>6, <1>7, <1>8 DEF FuturesNext

\* The invariant holds in every reachable state.
LEMMA FuturesInductive == FuturesSafeSpec => []FuturesIInv
BY FuturesInitIInv, FuturesNextIInv, PTL DEF FuturesSafeSpec

\* Promises, reactions and timers keep their types, for any number of promises.
THEOREM FuturesTypeCorrect == FuturesSafeSpec => []FuturesTypeOK
<1>1. FuturesIInv => FuturesTypeOK BY DEF FuturesIInv
<1> QED BY <1>1, FuturesInductive, PTL

\* A set without two elements has at most one.
LEMMA AtMostOne ==
  ASSUME NEW S, \A x, y \in S : x = y
  PROVE  Cardinality(S) <= 1
<1>1. CASE S = {} BY <1>1, FS_EmptySet
<1>2. CASE S # {}
  <2>1. PICK x \in S : TRUE BY <1>2
  <2>2. S = {x} BY <2>1
  <2> QED BY <2>2, FS_Singleton
<1> QED BY <1>1, <1>2

\* Outcomes and calls of handlers are what the combinators promise, for trees of
\* futures of any size and whatever handlers return and timers do.
THEOREM FuturesExplained == FuturesSafeSpec => []Explained
<1>1. FuturesIInv => Explained
  <2> SUFFICES ASSUME FuturesIInv, NEW p \in Promises
               PROVE  /\ outcome[p] # Pending => OutcomeFits(p)
                      /\ calls[p] > 0 => HandlerFits(p)
                      /\ Cardinality({r \in hung : r.to = p}) <= 1
    BY DEF Explained
  <2>1. Fits(p) BY DEF FuturesIInv, FitsOK
  <2>2. Cardinality({r \in hung : r.to = p}) <= 1 BY AtMostOne DEF FuturesIInv, AloneOK
  <2> QED BY <2>1, <2>2 DEF Fits
<1> QED BY <1>1, FuturesInductive, PTL
=============================================================================
