------------------------------ MODULE SeqFacts ------------------------------
(***************************************************************************)
(* Queues as sequences: which elements a push and a pop leave in the queue, *)
(* and that neither repeats an element.                                    *)
(***************************************************************************)
EXTENDS Naturals, Sequences, SequenceTheorems, TLAPS

\* Range and IsInjective of a sequence, by its indices.
LEMMA SeqRange ==
  ASSUME NEW S, NEW q \in Seq(S)
  PROVE  /\ Range(q) = {q[i] : i \in 1..Len(q)}
         /\ IsInjective(q) <=> \A i, k \in 1..Len(q) : q[i] = q[k] => i = k
BY LenProperties DEF Range, IsInjective

\* The elements of a non-empty queue, by index.
LEMMA PopIndices ==
  ASSUME NEW S, NEW q \in Seq(S), q # <<>>
  PROVE  /\ Len(q) \in Nat \ {0}
         /\ Head(q) = q[1] /\ Head(q) \in S
         /\ Tail(q) \in Seq(S)
         /\ Len(Tail(q)) = Len(q) - 1
         /\ \A i \in 1..Len(Tail(q)) : Tail(q)[i] = q[i + 1]
BY HeadTailProperties, LenProperties, ElementOfSeq

\* A pop takes the oldest element and loses no other.
LEMMA PopFacts ==
  ASSUME NEW S, NEW q \in Seq(S), q # <<>>
  PROVE  /\ Head(q) \in S
         /\ Tail(q) \in Seq(S)
         /\ Range(q) = {Head(q)} \cup Range(Tail(q))
<1> DEFINE r == Tail(q)
<1>1. /\ Len(q) \in Nat \ {0} /\ Head(q) = q[1] /\ Head(q) \in S
      /\ r \in Seq(S) /\ Len(r) = Len(q) - 1
      /\ \A i \in 1..Len(r) : r[i] = q[i + 1]
  BY PopIndices
<1>2. /\ Range(q) = {q[i] : i \in 1..Len(q)}
      /\ Range(r) = {r[i] : i \in 1..Len(r)}
  <2>1. Range(q) = {q[i] : i \in 1..Len(q)} BY SeqRange
  <2>2. ASSUME NEW t \in Seq(S) PROVE Range(t) = {t[i] : i \in 1..Len(t)}
    BY SeqRange
  <2> QED BY <1>1, <2>1, <2>2
<1> HIDE DEF r
<1>3. ASSUME NEW i \in 1..Len(q) PROVE q[i] \in {Head(q)} \cup Range(r)
  <2>1. CASE i = 1 BY <2>1, <1>1
  <2>2. CASE i # 1
    <3>1. i - 1 \in 1..Len(r) BY <2>2, <1>1
    <3>2. r[i - 1] = q[i] BY <3>1, <1>1
    <3> QED BY <3>1, <3>2, <1>2
  <2> QED BY <2>1, <2>2
<1>4. ASSUME NEW k \in 1..Len(r) PROVE r[k] \in Range(q)
  <2>1. k + 1 \in 1..Len(q) BY <1>1
  <2> QED BY <2>1, <1>1, <1>2
<1>5. Head(q) \in Range(q)
  <2>1. 1 \in 1..Len(q) BY <1>1
  <2> QED BY <2>1, <1>1, <1>2
<1>6. Range(q) = {Head(q)} \cup Range(r) BY <1>2, <1>3, <1>4, <1>5
<1> QED BY <1>1, <1>6 DEF r

\* What was popped from a queue without repetitions is not in it any more.
LEMMA PopDistinct ==
  ASSUME NEW S, NEW q \in Seq(S), q # <<>>, IsInjective(q)
  PROVE  IsInjective(Tail(q)) /\ Head(q) \notin Range(Tail(q))
<1> DEFINE r == Tail(q)
<1>1. /\ Len(q) \in Nat \ {0} /\ Head(q) = q[1]
      /\ r \in Seq(S) /\ Len(r) = Len(q) - 1
      /\ \A i \in 1..Len(r) : r[i] = q[i + 1]
  BY PopIndices
<1>2. /\ \A i, k \in 1..Len(q) : q[i] = q[k] => i = k
      /\ Range(r) = {r[i] : i \in 1..Len(r)}
      /\ IsInjective(r) <=> \A i, k \in 1..Len(r) : r[i] = r[k] => i = k
  BY <1>1, SeqRange
<1> HIDE DEF r
<1>3. ASSUME NEW i \in 1..Len(r), NEW k \in 1..Len(r), r[i] = r[k]
      PROVE  i = k
  <2>1. i + 1 \in 1..Len(q) /\ k + 1 \in 1..Len(q) BY <1>1
  <2>2. i + 1 = k + 1 BY <2>1, <1>1, <1>2, <1>3
  <2> QED BY <2>2
<1>4. ASSUME NEW k \in 1..Len(r), Head(q) = r[k] PROVE FALSE
  <2>1. 1 \in 1..Len(q) /\ k + 1 \in 1..Len(q) /\ 1 # k + 1 BY <1>1
  <2> QED BY <2>1, <1>1, <1>2, <1>4
<1>5. IsInjective(r) /\ Head(q) \notin Range(r) BY <1>2, <1>3, <1>4
<1> QED BY <1>5 DEF r

\* A push adds its element and nothing else.
LEMMA PushFacts ==
  ASSUME NEW S, NEW q \in Seq(S), NEW x \in S
  PROVE  /\ Append(q, x) \in Seq(S)
         /\ Append(q, x) # <<>>
         /\ Range(Append(q, x)) = Range(q) \cup {x}
         /\ IsInjective(q) /\ x \notin Range(q) => IsInjective(Append(q, x))
<1> DEFINE r == Append(q, x)
<1>1. /\ r \in Seq(S) /\ Len(q) \in Nat /\ Len(r) = Len(q) + 1
      /\ \A i \in 1..Len(q) : r[i] = q[i]
      /\ r[Len(q) + 1] = x
  BY AppendProperties, LenProperties
<1>2. /\ Range(q) = {q[i] : i \in 1..Len(q)}
      /\ IsInjective(q) <=> \A i, k \in 1..Len(q) : q[i] = q[k] => i = k
      /\ Range(r) = {r[i] : i \in 1..Len(r)}
      /\ IsInjective(r) <=> \A i, k \in 1..Len(r) : r[i] = r[k] => i = k
  BY <1>1, SeqRange
<1> HIDE DEF r
<1>3. /\ \A i \in 1..Len(r) : i \in 1..Len(q) \/ i = Len(q) + 1
      /\ \A i \in 1..Len(q) : i \in 1..Len(r)
      /\ Len(q) + 1 \in 1..Len(r)
  BY <1>1
<1>4. Range(r) = Range(q) \cup {x} BY <1>1, <1>2, <1>3
<1>5. IsInjective(q) /\ x \notin Range(q) => IsInjective(r)
  BY <1>1, <1>2, <1>3
<1>6. r # <<>> BY <1>1
<1> QED BY <1>1, <1>4, <1>5, <1>6 DEF r

\* The empty queue.
LEMMA EmptyFacts ==
  ASSUME NEW S
  PROVE  <<>> \in Seq(S) /\ Range(<<>>) = {} /\ IsInjective(<<>>)
BY EmptySeq DEF Range, IsInjective
=============================================================================
