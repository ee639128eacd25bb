---------------------------- MODULE TimerProofs ----------------------------
(***************************************************************************)
(* Proofs about Timer, for any number of timers, a table of any size that  *)
(* grows, any nesting of handle_timers and any modulus of the clock: types,*)
(* that the table stays sound, and that no callback is called early.       *)
(***************************************************************************)
EXTENDS Timer, FiniteSetTheorems, SequenceTheorems, WellFoundedInduction, TLAPS

Entry == [active : BOOLEAN, repeat : BOOLEAN, fn : Timers \cup {NoFn},
          interval : Nat, created : 0..(W - 1)]
Frame == [at : Nat \ {0}, running : Timers \cup {NoFn}, dangling : BOOLEAN]

\* The entry of a timer in its slot, which no other timer's is: due as it was
\* asked for since it was added or last called, or, a one-shot that has been
\* called, never.
EntryOK(k) ==
  entries[k].active =>
    LET e == entries[k]
        t == entries[k].fn
    IN  /\ t \in Timers /\ slot[t] = k
        /\ status[t] \notin {"new", "refused"}
        /\ e.repeat = asked[t].repeat
        /\ \/ /\ e.interval = asked[t].interval
              /\ e.created = (start + since[t]) % W
              /\ e.repeat \/ calls[t] = 0
           \/ /\ e.interval = Never
              /\ ~e.repeat /\ status[t] = "fired"
              /\ \E s \in 0..ticks : e.created = (start + s) % W

\* A timer that was added has a slot, and one that was not has not been called.
OwnerOK(t) ==
  /\ since[t] <= ticks
  /\ IF status[t] \in {"new", "refused"} THEN calls[t] = 0
       ELSE slot[t] \in Slots(entries)

\* A frame inside of a callback is at a slot, and its timer has been called.
FrameOK(j) ==
  stack[j].running # NoFn
    => stack[j].at \in Slots(entries) /\ calls[stack[j].running] > 0

\* What holds as long as callers do not misuse the table: a slot belongs to an
\* armed timer or to the one frame that runs a one-shot; a frame's slot is its
\* timer's still, and its reference does not dangle.
Proper ==
  /\ \A t \in Timers : status[t] = "armed" => Holds(t)
  /\ \A k \in Slots(entries) : entries[k].active =>
       \/ status[entries[k].fn] = "armed"
       \/ ~entries[k].repeat /\ entries[k].fn \in Running
  /\ \A j \in 1..Len(stack) :
       /\ ~stack[j].dangling
       /\ stack[j].running # NoFn =>
            entries[stack[j].at].active /\ entries[stack[j].at].fn = stack[j].running
  /\ \A i, j \in 1..Len(stack) :
       i # j /\ stack[i].running = stack[j].running /\ stack[i].running # NoFn =>
         asked[stack[i].running].repeat

\* The slots and the frames, as far as the callers' discipline does not matter.
TableOK ==
  /\ \A k \in Slots(entries) : EntryOK(k)
  /\ \A t \in Timers : OwnerOK(t)
  /\ \A j \in 1..Len(stack) : FrameOK(j)

\* One-shots are called once even if callers misuse the table, and so that part
\* of TableSound stands outside of Proper.
IInv ==
  /\ TypeOK /\ FreeCountIsExact /\ TableOK /\ OneShotOnce
  /\ misused \/ Proper
\* A set of natural numbers has a least one.
LEMMA LeastElement ==
  ASSUME NEW T \in SUBSET Nat, T # {}
  PROVE  \E x \in T : \A y \in T : x <= y
<1> DEFINE R == {ss \in Nat \X Nat : ss[1] < ss[2]}
<1>1. IsWellFoundedOn(R, Nat) BY NatLessThanWellFounded DEF OpToRel
<1>2. \A x, y \in Nat : x < y => <<x, y>> \in R OBVIOUS
<1> HIDE DEF R
<1>3. PICK x \in T : \A y \in T : ~(<<y, x>> \in R) BY <1>1, WFMin
<1>4. ASSUME NEW y \in T PROVE x <= y
  <2>1. x \in Nat /\ y \in Nat OBVIOUS
  <2>2. ~(y < x) BY <1>2, <1>3, <2>1
  <2> QED BY <2>1, <2>2
<1> QED BY <1>4

\* What _add's loop finds, if anything is free.
LEMMA FirstFreeFacts ==
  ASSUME NEW e, NEW n \in Nat, Slots(e) = 1..n, FreeSlots(e) # {}
  PROVE  /\ FirstFree(e) \in 1..n /\ ~e[FirstFree(e)].active
         /\ \A j \in FreeSlots(e) : FirstFree(e) <= j
<1>1. FreeSlots(e) \in SUBSET Nat BY DEF FreeSlots
<1>2. \E k \in FreeSlots(e) : \A j \in FreeSlots(e) : k <= j BY <1>1, LeastElement
<1>3. FirstFree(e) \in FreeSlots(e) /\ \A j \in FreeSlots(e) : FirstFree(e) <= j
  BY <1>2 DEF FirstFree
<1> QED BY <1>3 DEF FreeSlots

\* Below the modulus a number is its own remainder, and below its double the
\* remainder is the difference.
LEMMA ModOnce ==
  ASSUME NEW a \in Nat, NEW b \in Nat \ {0}, a < b + b
  PROVE  a % b = IF a < b THEN a ELSE a - b
BY SMT


\* The table's slots are finitely many.
LEMMA SlotsFacts ==
  ASSUME NEW e \in Seq(Entry)
  PROVE  /\ Len(e) \in Nat /\ Slots(e) = 1..Len(e)
         /\ \A k \in Slots(e) : e[k] \in Entry
         /\ IsFiniteSet(FreeSlots(e)) /\ Cardinality(FreeSlots(e)) \in 0..Len(e)
         /\ FreeSlots(e) # {} <=> Cardinality(FreeSlots(e)) > 0
<1>1. Len(e) \in Nat /\ Slots(e) = 1..Len(e) BY LenProperties DEF Slots
<1>2. \A k \in Slots(e) : e[k] \in Entry BY <1>1, ElementOfSeq
<1>3. IsFiniteSet(1..Len(e)) /\ Cardinality(1..Len(e)) = Len(e)
  <2>1. IsFiniteSet(1..Len(e)) BY <1>1, FS_Interval
  <2>2. Cardinality(1..Len(e)) = IF 1 > Len(e) THEN 0 ELSE Len(e) - 1 + 1
    BY <1>1, FS_Interval
  <2> QED BY <2>1, <2>2, <1>1
<1>4. FreeSlots(e) \subseteq 1..Len(e) BY <1>1 DEF FreeSlots
<1>5. IsFiniteSet(FreeSlots(e)) /\ Cardinality(FreeSlots(e)) <= Len(e)
  BY <1>3, <1>4, FS_Subset
<1>6. Cardinality(FreeSlots(e)) \in Nat BY <1>5, FS_CardinalityType
<1>7. FreeSlots(e) = {} <=> Cardinality(FreeSlots(e)) = 0 BY <1>5, FS_EmptySet
<1> QED BY <1>1, <1>2, <1>5, <1>6, <1>7

\* Growth adds free slots behind those there are.
LEMMA GrownFacts ==
  ASSUME NEW e \in Seq(Entry)
  PROVE  /\ Grown(e) \in Seq(Entry) /\ Len(Grown(e)) = Len(e) + Amount
         /\ \A k \in Slots(e) : k \in Slots(Grown(e)) /\ Grown(e)[k] = e[k]
         /\ \A k \in Slots(Grown(e)) \ Slots(e) : ~Grown(e)[k].active
<1> USE TimerTableAssumption
<1> DEFINE b == [k \in 1..Amount |-> Blank]
<1>1. Blank \in Entry /\ ~Blank.active BY DEF Blank, Entry
<1>2. b \in Seq(Entry) /\ Len(b) = Amount
  <2>1. b \in [1..Amount -> Entry] BY <1>1
  <2>2. b \in Seq(Entry) BY <2>1, SeqDef
  <2>3. Len(b) \in Nat /\ DOMAIN b = 1..Len(b) BY <2>2, LenProperties
  <2>4. 1..Len(b) = 1..Amount BY <2>3
  <2> QED BY <2>2, <2>3, <2>4
<1>3. \A k \in 1..Amount : ~b[k].active BY <1>1
<1> HIDE DEF b
<1>4. Len(e) \in Nat BY LenProperties
<1>5. /\ e \o b \in Seq(Entry) /\ Len(e \o b) = Len(e) + Amount
      /\ \A k \in 1..(Len(e) + Amount) :
           (e \o b)[k] = IF k <= Len(e) THEN e[k] ELSE b[k - Len(e)]
  BY <1>2, ConcatProperties
<1>6. Grown(e) = e \o b BY DEF Grown, b
<1>7. ASSUME NEW k \in 1..(Len(e) + Amount), k > Len(e) PROVE ~(e \o b)[k].active
  <2>1. k - Len(e) \in 1..Amount BY <1>4, <1>7
  <2> QED BY <1>3, <1>4, <1>5, <1>7, <2>1
<1> QED BY <1>4, <1>5, <1>6, <1>7 DEF Slots

\* _clear leaves a free slot and the right count of them, whether the slot was in
\* use or not.
LEMMA WipeFacts ==
  ASSUME entries \in Seq(Entry), FreeCountIsExact, NEW k \in Slots(entries), Wipe(k)
  PROVE  /\ entries' \in Seq(Entry) /\ Slots(entries') = Slots(entries)
         /\ Len(entries') = Len(entries)
         /\ ~entries'[k].active
         /\ \A j \in Slots(entries) : j # k => entries'[j] = entries[j]
         /\ FreeCountIsExact'
<1>1. CASE entries[k].active
  <2>1. entries' = [entries EXCEPT ![k] = Blank] /\ freeCount' = freeCount + 1
    BY <1>1 DEF Wipe
  <2>2. Blank \in Entry /\ ~Blank.active BY TimerTableAssumption DEF Blank, Entry
  <2>3. k \in 1..Len(entries) BY DEF Slots
  <2>4. /\ entries' \in Seq(Entry) /\ Len(entries') = Len(entries)
        /\ \A j \in 1..Len(entries) : entries'[j] = IF j = k THEN Blank ELSE entries[j]
    BY <2>1, <2>2, <2>3, ExceptSeq
  <2>5. FreeSlots(entries') = FreeSlots(entries) \cup {k}
    BY <2>2, <2>3, <2>4 DEF FreeSlots, Slots
  <2>6. k \notin FreeSlots(entries) BY <1>1 DEF FreeSlots
  <2>7. Cardinality(FreeSlots(entries) \cup {k})
          = Cardinality(FreeSlots(entries)) + 1
    BY <2>6, SlotsFacts, FS_AddElement
  <2>8. FreeCountIsExact' BY <2>1, <2>5, <2>7 DEF FreeCountIsExact
  <2> QED BY <2>2, <2>3, <2>4, <2>8 DEF Slots
<1>2. CASE ~entries[k].active
  <2>1. entries' = entries /\ freeCount' = freeCount BY <1>2 DEF Wipe, table
  <2> QED BY <1>2, <2>1 DEF FreeCountIsExact
<1> QED BY <1>1, <1>2

\* The top of the stack, and what replacing it does.
LEMMA TopFacts ==
  ASSUME stack \in Seq(Frame), stack # <<>>
  PROVE  /\ Len(stack) \in Nat \ {0} /\ Len(stack) \in 1..Len(stack) /\ top \in Frame
         /\ \A j \in 1..Len(stack) : stack[j] \in Frame
<1>1. Len(stack) \in Nat \ {0} BY EmptySeq
<1>2. \A j \in 1..Len(stack) : stack[j] \in Frame BY ElementOfSeq
<1> QED BY <1>1, <1>2 DEF top

\* Replacing the frame on top leaves those below.
LEMMA ReplaceFacts ==
  ASSUME stack \in Seq(Frame), stack # <<>>, NEW f \in Frame, Replace(f)
  PROVE  /\ stack' \in Seq(Frame) /\ Len(stack') = Len(stack)
         /\ stack'[Len(stack)] = f
         /\ \A j \in 1..Len(stack) : j # Len(stack) => stack'[j] = stack[j]
<1>1. Len(stack) \in 1..Len(stack) BY TopFacts
<1>2. stack' = [stack EXCEPT ![Len(stack)] = f] BY DEF Replace
<1>3. /\ stack' \in Seq(Frame) /\ Len(stack') = Len(stack)
      /\ \A j \in 1..Len(stack) : stack'[j] = IF j = Len(stack) THEN f ELSE stack[j]
  BY <1>1, <1>2, ExceptSeq
<1> QED BY <1>1, <1>3

\* Which timers are running, frame by frame.
LEMMA RunningFacts ==
  \A t : t \in Running <=> t # NoFn /\ \E j \in 1..Len(stack) : stack[j].running = t
BY DEF Running

\* The time gone by, in arithmetic modulo W, since a tick of the clock.
LEMMA Elapsed ==
  ASSUME TypeOK, NEW s \in 0..ticks, NEW c, c = (start + s) % W
  PROVE  /\ millis \in 0..(W - 1) /\ c \in 0..(W - 1)
         /\ (millis + W - c) % W = ticks - s
<1> USE TimerTableAssumption, TimerAssumption
<1>1. start \in 0..(W - 1) /\ ticks \in Nat /\ ticks < W - 1
  BY DEF TypeOK, Never
<1> DEFINE a == start + ticks
           b == start + s
<1>2. a \in Nat /\ b \in Nat /\ b <= a /\ a < W + W /\ b < W + W /\ a - b = ticks - s
      /\ a - b < W
  BY <1>1
<1> HIDE DEF a, b
<1>3. a % W = (IF a < W THEN a ELSE a - W) /\ b % W = (IF b < W THEN b ELSE b - W)
  BY <1>2, ModOnce
<1>4. millis = a % W /\ c = b % W BY DEF millis, a, b
<1> DEFINE m == millis
           d == m + W - c
<1>5. m = (IF a < W THEN a ELSE a - W) /\ c = (IF b < W THEN b ELSE b - W) BY <1>3, <1>4
<1> HIDE DEF m
<1>6. m \in 0..(W - 1) /\ c \in 0..(W - 1) BY <1>2, <1>5
<1>7. d \in Nat /\ d < W + W /\ (d = a - b \/ d = a - b + W) BY <1>2, <1>5
<1> HIDE DEF d
<1>8. d % W = IF d < W THEN d ELSE d - W BY <1>7, ModOnce
<1>9. d % W = a - b BY <1>2, <1>7, <1>8
<1>10. (m + W - c) % W = a - b BY <1>9 DEF d
<1> QED BY <1>2, <1>6, <1>10 DEF m

\* An empty table satisfies the invariant.
LEMMA InitKeeps == Init => IInv
<1> USE TimerTableAssumption, TimerAssumption
<1> SUFFICES ASSUME Init PROVE IInv OBVIOUS
<1>1. /\ entries \in Seq(Entry) /\ stack \in Seq(Frame) /\ Len(entries) = 0
      /\ Len(stack) = 0
  BY EmptySeq DEF Init
<1>2. Slots(entries) = {} /\ 1..Len(stack) = {} BY <1>1 DEF Slots
<1>3. TypeOK
  <2>1. start \in 0..(W - 1) /\ ticks \in 0..MaxTicks /\ freeCount \in 0..Len(entries)
    BY <1>1 DEF Init
  <2>2. status \in [Timers -> {"new", "refused", "armed", "fired", "cleared"}]
    BY DEF Init
  <2>3. /\ slot \in [Timers -> Nat] /\ since \in [Timers -> 0..MaxTicks]
        /\ calls \in [Timers -> Nat]
    BY DEF Init
  <2>4. asked \in [Timers -> [interval : Nat, repeat : BOOLEAN]] BY DEF Init
  <2>5. misused \in BOOLEAN BY DEF Init
  <2> QED BY <1>1, <2>1, <2>2, <2>3, <2>4, <2>5 DEF TypeOK, Entry, Frame
<1>4. FreeCountIsExact
  <2>1. FreeSlots(entries) = {} BY <1>2 DEF FreeSlots
  <2> QED BY <2>1, FS_EmptySet DEF Init, FreeCountIsExact
<1>5. TableOK
  <2>1. \A t \in Timers : OwnerOK(t) BY DEF Init, OwnerOK
  <2> QED BY <1>2, <2>1 DEF TableOK
<1>6. OneShotOnce BY DEF Init, OneShotOnce
<1>7. Proper BY <1>2 DEF Init, Proper
<1> QED BY <1>3, <1>4, <1>5, <1>6, <1>7 DEF IInv

\* The clock makes timers older.
LEMMA TickKeeps == ASSUME IInv, Tick PROVE IInv'
<1> USE TimerAssumption
<1>1. /\ ticks \in Nat /\ ticks' = ticks + 1 /\ ticks' \in 0..MaxTicks
      /\ UNCHANGED <<entries, freeCount, start, stack, status, slot, asked, since,
           calls, misused>>
  BY DEF Tick, table, owners, history, IInv, TypeOK
<1>2. TypeOK' BY <1>1 DEF IInv, TypeOK
<1>3. FreeCountIsExact' BY <1>1 DEF IInv, FreeCountIsExact
<1>4. TableOK'
  <2>1. ASSUME NEW k \in Slots(entries) PROVE EntryOK(k)'
    <3>1. EntryOK(k) BY DEF IInv, TableOK
    <3>2. 0..ticks \subseteq 0..ticks' BY <1>1
    <3> QED BY <1>1, <3>1, <3>2 DEF EntryOK
  <2>2. ASSUME NEW t \in Timers PROVE OwnerOK(t)'
    <3>1. OwnerOK(t) BY DEF IInv, TableOK
    <3>2. since[t] \in Nat BY DEF IInv, TypeOK
    <3>3. since[t] <= ticks BY <3>1 DEF OwnerOK
    <3>4. since'[t] <= ticks' BY <1>1, <3>2, <3>3
    <3> QED BY <1>1, <3>1, <3>4 DEF OwnerOK
  <2>3. ASSUME NEW j \in 1..Len(stack) PROVE FrameOK(j)'
    BY <1>1 DEF IInv, TableOK, FrameOK
  <2>4. Slots(entries)' = Slots(entries) /\ Len(stack)' = Len(stack) BY <1>1
  <2> QED BY <2>1, <2>2, <2>3, <2>4 DEF TableOK
<1>5. OneShotOnce' BY <1>1 DEF IInv, OneShotOnce
<1>6. (misused \/ Proper)' BY <1>1 DEF IInv, Proper, Holds, Running
<1> QED BY <1>2, <1>3, <1>4, <1>5, <1>6 DEF IInv

\* The frames are the same but for the references that dangle now.
SameFrames ==
  /\ stack' \in Seq(Frame) /\ Len(stack') = Len(stack)
  /\ \A j \in 1..Len(stack) :
       stack'[j].at = stack[j].at /\ stack'[j].running = stack[j].running
  /\ misused' \in BOOLEAN /\ (~misused' => ~misused /\ stack' = stack)

\* A timer is added to the table e: the one there is, or the one that has grown.
LEMMA PlaceKeeps ==
  ASSUME IInv, NEW t \in Timers, NEW interval \in Intervals, NEW repeat \in BOOLEAN,
         status[t] = "new", NEW e \in Seq(Entry),
         \A k \in Slots(entries) : k \in Slots(e) /\ e[k] = entries[k],
         \A k \in Slots(e) \ Slots(entries) : ~e[k].active,
         FreeSlots(e) # {}, Place(t, e, interval, repeat),
         freeCount' = Cardinality(FreeSlots(e)) - 1,
         SameFrames, UNCHANGED <<start, ticks, calls>>
  PROVE  IInv'
<1> USE TimerTableAssumption, TimerAssumption
<1> DEFINE f == FirstFree(e)
           x == Active(t, interval, repeat, millis)
<1>1. TypeOK /\ interval \in Nat /\ ticks \in 0..MaxTicks BY DEF IInv, TypeOK
<1>2. millis \in 0..(W - 1) /\ millis = (start + ticks) % W
  <2>1. ticks \in 0..ticks BY <1>1
  <2> QED BY <1>1, <2>1, Elapsed DEF millis
<1>3. /\ x \in Entry /\ x.active /\ x.fn = t /\ x.repeat = repeat
      /\ x.interval = interval
      /\ x.created = millis
  BY <1>1, <1>2 DEF Active, Entry
<1>4. f \in Slots(e) /\ ~e[f].active
  <2>1. Len(e) \in Nat /\ Slots(e) = 1..Len(e) BY SlotsFacts
  <2> QED BY <2>1, FirstFreeFacts
<1>5. /\ entries' = [e EXCEPT ![f] = x]
      /\ slot' = [slot EXCEPT ![t] = f]
      /\ asked' = [asked EXCEPT ![t] = [interval |-> interval, repeat |-> repeat]]
      /\ since' = [since EXCEPT ![t] = ticks]
      /\ status' = [status EXCEPT ![t] = "armed"]
  BY DEF Place, Mark
<1> HIDE DEF f, x
<1>6. /\ entries' \in Seq(Entry) /\ Len(entries') = Len(e) /\ Slots(entries') = Slots(e)
      /\ entries'[f] = x /\ \A k \in Slots(e) : k # f => entries'[k] = e[k]
  <2>1. f \in 1..Len(e) BY <1>4 DEF Slots
  <2>2. /\ entries' \in Seq(Entry) /\ Len(entries') = Len(e)
        /\ \A j \in 1..Len(e) : entries'[j] = IF j = f THEN x ELSE e[j]
    BY <1>3, <1>5, <2>1, ExceptSeq
  <2> QED BY <2>1, <2>2 DEF Slots
<1>7. /\ slot'[t] = f /\ asked'[t].interval = interval /\ asked'[t].repeat = repeat
      /\ since'[t] = ticks /\ status'[t] = "armed"
      /\ \A u \in Timers : u # t =>
           /\ slot'[u] = slot[u] /\ asked'[u] = asked[u] /\ since'[u] = since[u]
           /\ status'[u] = status[u]
  BY <1>1, <1>5 DEF TypeOK
<1>8. calls[t] = 0 BY DEF IInv, TableOK, OwnerOK
<1>9. f \in Nat BY <1>4, SlotsFacts
<1>10. ASSUME NEW k \in Slots(e), k # f, entries'[k].active
       PROVE  /\ k \in Slots(entries) /\ entries'[k] = entries[k]
              /\ entries[k].fn \in Timers /\ entries[k].fn # t /\ EntryOK(k)
  <2>1. entries'[k] = e[k] BY <1>6, <1>10
  <2>2. k \in Slots(entries) /\ e[k] = entries[k] BY <1>10, <2>1
  <2>3. EntryOK(k) BY <2>2 DEF IInv, TableOK
  <2> QED BY <1>10, <2>1, <2>2, <2>3 DEF EntryOK
<1>11. FreeCountIsExact'
  <2>1. FreeSlots(entries') = FreeSlots(e) \ {f}
    BY <1>3, <1>4, <1>6 DEF FreeSlots
  <2>2. f \in FreeSlots(e) BY <1>4 DEF FreeSlots
  <2>3. Cardinality(FreeSlots(e) \ {f}) = Cardinality(FreeSlots(e)) - 1
    BY <2>2, SlotsFacts, FS_RemoveElement
  <2> QED BY <2>1, <2>3 DEF FreeCountIsExact
<1>12. TypeOK'
  <2>1. freeCount' \in 0..Len(entries')
    BY <1>6, <1>11, SlotsFacts DEF FreeCountIsExact
  <2>2. asked' \in [Timers -> [interval : Nat, repeat : BOOLEAN]]
    BY <1>1, <1>5 DEF TypeOK
  <2>3. slot' \in [Timers -> Nat] BY <1>1, <1>5, <1>9 DEF TypeOK
  <2>4. since' \in [Timers -> 0..MaxTicks] BY <1>1, <1>5 DEF TypeOK
  <2>5. status' \in [Timers -> {"new", "refused", "armed", "fired", "cleared"}]
    BY <1>1, <1>5 DEF TypeOK
  <2>6. stack' \in Seq(Frame) /\ misused' \in BOOLEAN BY DEF SameFrames
  <2> QED BY <1>1, <1>6, <2>1, <2>2, <2>3, <2>4, <2>5, <2>6 DEF TypeOK, Entry, Frame
<1>13. TableOK'
  <2>1. ASSUME NEW k \in Slots(e) PROVE EntryOK(k)'
    <3>1. CASE k = f BY <3>1, <1>2, <1>3, <1>6, <1>7, <1>8 DEF EntryOK
    <3>2. CASE k # f
      <4>1. SUFFICES ASSUME entries'[k].active PROVE EntryOK(k)' BY DEF EntryOK
      <4>2. /\ entries'[k] = entries[k] /\ entries[k].fn \in Timers /\ entries[k].fn # t
            /\ EntryOK(k)
        BY <3>2, <4>1, <1>10
      <4> QED BY <4>1, <4>2, <1>7 DEF EntryOK
    <3> QED BY <3>1, <3>2
  <2>2. ASSUME NEW u \in Timers PROVE OwnerOK(u)'
    <3>1. CASE u = t
      <4>1. since'[u] <= ticks' BY <3>1, <1>1, <1>7
      <4>2. slot'[u] \in Slots(entries') /\ status'[u] = "armed"
        BY <3>1, <1>4, <1>6, <1>7
      <4> QED BY <4>1, <4>2 DEF OwnerOK
    <3>2. CASE u # t
      <4>1. OwnerOK(u) BY DEF IInv, TableOK
      <4> QED BY <3>2, <4>1, <1>6, <1>7 DEF OwnerOK
    <3> QED BY <3>1, <3>2
  <2>3. ASSUME NEW j \in 1..Len(stack) PROVE FrameOK(j)'
    <3>1. FrameOK(j) BY DEF IInv, TableOK
    <3> QED BY <3>1, <1>6 DEF FrameOK, SameFrames
  <2> QED BY <2>1, <2>2, <2>3, <1>6 DEF TableOK, SameFrames
<1>14. OneShotOnce'
  <2>1. ASSUME NEW u \in Timers, calls[u] > 1 PROVE asked'[u].repeat
    <3>1. u # t BY <2>1, <1>8
    <3> QED BY <2>1, <3>1, <1>7 DEF IInv, OneShotOnce
  <2> QED BY <2>1 DEF OneShotOnce
<1>15. (misused \/ Proper)'
  <2>1. SUFFICES ASSUME ~misused' PROVE Proper' OBVIOUS
  <2>2. Proper /\ stack' = stack /\ Running' = Running
    BY <2>1 DEF SameFrames, IInv, Running
  <2>3. ASSUME NEW u \in Timers, status'[u] = "armed" PROVE Holds(u)'
    <3>1. CASE u = t BY <3>1, <1>3, <1>6, <1>7 DEF Holds
    <3>2. CASE u # t
      <4>1. status[u] = "armed" /\ Holds(u) BY <2>2, <2>3, <3>2, <1>7 DEF Proper
      <4>2. slot[u] \in Slots(entries) BY <4>1 DEF IInv, TableOK, OwnerOK
      <4>3. slot[u] # f /\ slot[u] \in Slots(e) /\ e[slot[u]] = entries[slot[u]]
        BY <4>1, <4>2, <1>4 DEF Holds
      <4> QED BY <3>2, <4>1, <4>3, <1>6, <1>7 DEF Holds
    <3> QED BY <3>1, <3>2
  <2>4. ASSUME NEW k \in Slots(e), entries'[k].active
        PROVE \/ status'[entries'[k].fn] = "armed"
              \/ ~entries'[k].repeat /\ entries'[k].fn \in Running'
    <3>1. CASE k = f BY <3>1, <1>3, <1>6, <1>7
    <3>2. CASE k # f BY <3>2, <2>2, <2>4, <1>7, <1>10 DEF Proper
    <3> QED BY <3>1, <3>2
  <2>5. ASSUME NEW j \in 1..Len(stack)
        PROVE /\ ~stack[j].dangling
              /\ stack[j].running # NoFn =>
                   entries'[stack[j].at].active /\
                     entries'[stack[j].at].fn = stack[j].running
    <3>1. ~stack[j].dangling BY <2>2 DEF Proper
    <3>2. ASSUME stack[j].running # NoFn
          PROVE /\ entries'[stack[j].at].active
                /\ entries'[stack[j].at].fn = stack[j].running
      <4>1. entries[stack[j].at].active /\ entries[stack[j].at].fn = stack[j].running
        BY <2>2, <3>2 DEF Proper
      <4>2. stack[j].at \in Slots(entries) BY <3>2 DEF IInv, TableOK, FrameOK
      <4>3. /\ stack[j].at # f /\ stack[j].at \in Slots(e)
            /\ e[stack[j].at] = entries[stack[j].at]
        BY <4>1, <4>2, <1>4
      <4> QED BY <4>1, <4>3, <1>6
    <3> QED BY <3>1, <3>2
  <2>6. ASSUME NEW i \in 1..Len(stack), NEW j \in 1..Len(stack), i # j,
               stack[i].running = stack[j].running, stack[i].running # NoFn
        PROVE  asked'[stack[i].running].repeat
    <3>1. asked[stack[i].running].repeat BY <2>2, <2>6 DEF Proper
    <3>2. calls[stack[i].running] > 0 BY <2>6 DEF IInv, TableOK, FrameOK
    <3>3. stack[i].running \in Timers
      <4>1. stack[i] \in Frame BY <1>1, ElementOfSeq DEF TypeOK, Frame
      <4> QED BY <4>1, <2>6 DEF Frame
    <3>4. stack[i].running # t BY <3>2, <1>8
    <3> QED BY <3>1, <3>3, <3>4, <1>7
  <2> QED BY <1>6, <2>2, <2>3, <2>4, <2>5, <2>6 DEF Proper
<1> QED BY <1>11, <1>12, <1>13, <1>14, <1>15 DEF IInv

\* add_timer and add_interval with a slot to spare.
LEMMA AddKeeps ==
  ASSUME IInv, NEW t \in Timers, NEW interval \in Intervals, NEW repeat \in BOOLEAN,
         Add(t, interval, repeat)
  PROVE  IInv'
<1>1. entries \in Seq(Entry) /\ stack \in Seq(Frame) /\ misused \in BOOLEAN
  BY DEF IInv, TypeOK, Entry, Frame
<1>2. /\ freeCount = Cardinality(FreeSlots(entries)) /\ freeCount > 0
      /\ freeCount' = freeCount - 1
  BY DEF Add, IInv, FreeCountIsExact
<1>3. FreeSlots(entries) # {} BY <1>1, <1>2, SlotsFacts
<1>4. SameFrames BY <1>1 DEF Add, SameFrames
<1>5. /\ Place(t, entries, interval, repeat) /\ status[t] = "new"
      /\ UNCHANGED <<start, ticks, calls>>
  BY DEF Add, CanAdd, IsNext, clock
<1> QED BY <1>1, <1>2, <1>3, <1>4, <1>5, PlaceKeeps

\* The same with a table that is full, and grows: a frame that is walking it is
\* left dangling, which is misuse.
LEMMA AddGrowKeeps ==
  ASSUME IInv, NEW t \in Timers, NEW interval \in Intervals, NEW repeat \in BOOLEAN,
         AddGrow(t, interval, repeat)
  PROVE  IInv'
<1> USE TimerTableAssumption
<1>1. entries \in Seq(Entry) /\ stack \in Seq(Frame) /\ misused \in BOOLEAN
  BY DEF IInv, TypeOK, Entry, Frame
<1> DEFINE e == Grown(entries)
<1>2. /\ e \in Seq(Entry) /\ Len(e) = Len(entries) + Amount
      /\ \A k \in Slots(entries) : k \in Slots(e) /\ e[k] = entries[k]
      /\ \A k \in Slots(e) \ Slots(entries) : ~e[k].active
  BY <1>1, GrownFacts
<1>3. FreeSlots(entries) = {}
  <2>1. Cardinality(FreeSlots(entries)) = 0 BY DEF AddGrow, IInv, FreeCountIsExact
  <2> QED BY <1>1, <2>1, SlotsFacts
<1>4. /\ Place(t, e, interval, repeat) /\ status[t] = "new"
      /\ UNCHANGED <<start, ticks, calls>>
      /\ freeCount' = Amount - 1
  BY DEF AddGrow, CanAdd, IsNext, clock
<1> HIDE DEF e
<1>5. Len(entries) \in Nat /\ Slots(entries) = 1..Len(entries) /\ Slots(e) = 1..Len(e)
  BY <1>1, <1>2, SlotsFacts
<1>6. FreeSlots(e) = (Len(entries) + 1)..(Len(entries) + Amount)
  <2>1. ASSUME NEW k \in FreeSlots(e)
        PROVE  k \in (Len(entries) + 1)..(Len(entries) + Amount)
    <3>1. k \in Slots(e) /\ ~e[k].active BY DEF FreeSlots
    <3>2. k \notin Slots(entries) BY <3>1, <1>2, <1>3 DEF FreeSlots
    <3> QED BY <3>1, <3>2, <1>2, <1>5
  <2>2. ASSUME NEW k \in (Len(entries) + 1)..(Len(entries) + Amount)
        PROVE  k \in FreeSlots(e)
    <3>1. k \in Slots(e) \ Slots(entries) BY <1>2, <1>5
    <3> QED BY <3>1, <1>2 DEF FreeSlots
  <2> QED BY <2>1, <2>2
<1>7. Cardinality(FreeSlots(e)) = Amount /\ FreeSlots(e) # {}
  <2>1. Cardinality((Len(entries) + 1)..(Len(entries) + Amount)) =
          IF Len(entries) + 1 > Len(entries) + Amount THEN 0
          ELSE (Len(entries) + Amount) - (Len(entries) + 1) + 1
    BY <1>5, FS_Interval
  <2>2. (IF Len(entries) + 1 > Len(entries) + Amount THEN 0
          ELSE (Len(entries) + Amount) - (Len(entries) + 1) + 1) = Amount
    BY <1>5
  <2>3. Cardinality(FreeSlots(e)) = Amount BY <1>6, <2>1, <2>2
  <2> QED BY <1>2, <2>3, SlotsFacts
<1>8. SameFrames
  <2>1. stack' = [j \in 1..Len(stack) |-> [stack[j] EXCEPT !.dangling = TRUE]]
    BY DEF AddGrow
  <2>2. Len(stack) \in Nat /\ \A j \in 1..Len(stack) : stack[j] \in Frame
    BY <1>1, LenProperties, ElementOfSeq
  <2>3. \A j \in 1..Len(stack) : [stack[j] EXCEPT !.dangling = TRUE] \in Frame
    BY <2>2 DEF Frame
  <2>4. stack' \in [1..Len(stack) -> Frame] BY <2>1, <2>3
  <2>5. stack' \in Seq(Frame) BY <2>2, <2>4, SeqDef
  <2>6. Len(stack') = Len(stack)
    <3>1. Len(stack') \in Nat /\ DOMAIN stack' = 1..Len(stack') BY <2>5, LenProperties
    <3>2. 1..Len(stack') = 1..Len(stack) BY <2>4, <3>1
    <3> QED BY <2>2, <3>1, <3>2
  <2>7. \A j \in 1..Len(stack) :
          stack'[j].at = stack[j].at /\ stack'[j].running = stack[j].running
    BY <2>1, <2>2 DEF Frame
  <2>8. misused' = (misused \/ stack # <<>>) BY DEF AddGrow
  <2>9. stack = <<>> => stack' = stack
    <3>1. SUFFICES ASSUME stack = <<>> PROVE stack' = <<>> OBVIOUS
    <3>2. Len(stack') = 0 BY <3>1, <2>6, EmptySeq
    <3> QED BY <3>2, <2>5, EmptySeq
  <2>10. misused' \in BOOLEAN BY <2>8
  <2> QED BY <2>5, <2>6, <2>7, <2>8, <2>9, <2>10 DEF SameFrames
<1> QED BY <1>2, <1>4, <1>7, <1>8, PlaceKeeps

\* A timer that finds no memory has no slot.
LEMMA AddFailsKeeps == ASSUME IInv, NEW t \in Timers, AddFails(t) PROVE IInv'
<1>1. /\ UNCHANGED <<entries, freeCount, start, ticks, stack, slot, asked, since, calls,
           misused>>
      /\ status' = [status EXCEPT ![t] = "refused"] /\ status[t] = "new"
  BY DEF AddFails, IsNext, Mark, table, clock, history
<1>2. status \in [Timers -> {"new", "refused", "armed", "fired", "cleared"}]
  BY DEF IInv, TypeOK
<1>3. status'[t] = "refused" /\ \A u \in Timers : u # t => status'[u] = status[u]
  BY <1>1, <1>2
<1>4. TypeOK' BY <1>1, <1>2 DEF IInv, TypeOK
<1>5. FreeCountIsExact' BY <1>1 DEF IInv, FreeCountIsExact
<1>6. TableOK'
  <2>1. ASSUME NEW k \in Slots(entries) PROVE EntryOK(k)'
    <3>1. EntryOK(k) BY DEF IInv, TableOK
    <3> QED BY <1>1, <1>3, <3>1 DEF EntryOK
  <2>2. ASSUME NEW u \in Timers PROVE OwnerOK(u)'
    <3>1. OwnerOK(u) /\ OwnerOK(t) BY DEF IInv, TableOK
    <3>2. CASE u = t BY <3>1, <3>2, <1>1, <1>3 DEF OwnerOK
    <3>3. CASE u # t BY <3>1, <3>3, <1>1, <1>3 DEF OwnerOK
    <3> QED BY <3>2, <3>3
  <2>3. ASSUME NEW j \in 1..Len(stack) PROVE FrameOK(j)'
    BY <1>1 DEF IInv, TableOK, FrameOK
  <2> QED BY <2>1, <2>2, <2>3, <1>1 DEF TableOK
<1>7. OneShotOnce' BY <1>1 DEF IInv, OneShotOnce
<1>8. (misused \/ Proper)'
  <2>1. SUFFICES ASSUME ~misused' PROVE Proper' OBVIOUS
  <2>2. Proper /\ Running' = Running BY <1>1, <2>1 DEF IInv, Running
  <2>3. \A u \in Timers : status'[u] = "armed" => status[u] = "armed" BY <1>3
  <2>4. \A u \in Timers : Holds(u)' <=> Holds(u) BY <1>1 DEF Holds
  <2>5. ASSUME NEW k \in Slots(entries), entries[k].active
        PROVE \/ status'[entries[k].fn] = "armed"
              \/ ~entries[k].repeat /\ entries[k].fn \in Running
    <3>1. EntryOK(k) BY DEF IInv, TableOK
    <3>2. entries[k].fn \in Timers /\ entries[k].fn # t BY <2>5, <3>1, <1>1 DEF EntryOK
    <3> QED BY <2>2, <2>5, <3>2, <1>3 DEF Proper
  <2> QED BY <1>1, <2>2, <2>3, <2>4, <2>5 DEF Proper
<1> QED BY <1>4, <1>5, <1>6, <1>7, <1>8 DEF IInv

\* The entry that is cleared is its owner's, unless the table is misused.
LEMMA ClearKeeps == ASSUME IInv, NEW t \in Timers, Clear(t) PROVE IInv'
<1> DEFINE k == slot[t]
<1>1. /\ UNCHANGED <<start, ticks, stack, slot, asked, since, calls>>
      /\ status' = [status EXCEPT ![t] = "cleared"] /\ status[t] = "armed"
      /\ misused' = (misused \/ t \in Running) /\ Wipe(k)
  BY DEF Clear, Mark, clock, history
<1>2. status \in [Timers -> {"new", "refused", "armed", "fired", "cleared"}]
      /\ entries \in Seq(Entry) /\ FreeCountIsExact
  BY DEF IInv, TypeOK, Entry
<1>3. status'[t] = "cleared" /\ \A u \in Timers : u # t => status'[u] = status[u]
  BY <1>1, <1>2
<1>4. k \in Slots(entries) BY <1>1 DEF IInv, TableOK, OwnerOK
<1>5. /\ entries' \in Seq(Entry) /\ Slots(entries') = Slots(entries)
      /\ Len(entries') = Len(entries) /\ ~entries'[k].active
      /\ \A j \in Slots(entries) : j # k => entries'[j] = entries[j]
      /\ FreeCountIsExact'
  BY <1>1, <1>2, <1>4, WipeFacts
<1>6. TypeOK'
  <2>1. freeCount' \in 0..Len(entries') BY <1>5, SlotsFacts DEF FreeCountIsExact
  <2>2. status' \in [Timers -> {"new", "refused", "armed", "fired", "cleared"}]
    BY <1>1, <1>2
  <2>3. misused' \in BOOLEAN BY <1>1
  <2> QED BY <1>1, <1>5, <2>1, <2>2, <2>3 DEF IInv, TypeOK, Entry, Frame
<1>7. TableOK'
  <2>1. ASSUME NEW j \in Slots(entries) PROVE EntryOK(j)'
    <3>1. SUFFICES ASSUME entries'[j].active PROVE EntryOK(j)' BY DEF EntryOK
    <3>2. j # k /\ entries'[j] = entries[j] BY <3>1, <1>5
    <3>3. EntryOK(j) BY DEF IInv, TableOK
    <3>4. entries[j].fn \in Timers /\ entries[j].fn # t BY <3>1, <3>2, <3>3 DEF EntryOK
    <3> QED BY <1>1, <1>3, <3>1, <3>2, <3>3, <3>4 DEF EntryOK
  <2>2. ASSUME NEW u \in Timers PROVE OwnerOK(u)'
    <3>1. OwnerOK(u) BY DEF IInv, TableOK
    <3>2. CASE u = t BY <3>1, <3>2, <1>1, <1>3, <1>4, <1>5 DEF OwnerOK
    <3>3. CASE u # t BY <3>1, <3>3, <1>1, <1>3, <1>5 DEF OwnerOK
    <3> QED BY <3>2, <3>3
  <2>3. ASSUME NEW j \in 1..Len(stack) PROVE FrameOK(j)'
    BY <1>1, <1>5 DEF IInv, TableOK, FrameOK
  <2> QED BY <2>1, <2>2, <2>3, <1>1, <1>5 DEF TableOK
<1>8. OneShotOnce' BY <1>1 DEF IInv, OneShotOnce
<1>9. (misused \/ Proper)'
  <2>1. SUFFICES ASSUME ~misused' PROVE Proper' OBVIOUS
  <2>2. Proper /\ Running' = Running /\ t \notin Running
    BY <1>1, <2>1 DEF IInv, Running
  <2>3. entries[k].active /\ entries[k].fn = t BY <1>1, <2>2 DEF Proper, Holds
  <2>4. ASSUME NEW u \in Timers, status'[u] = "armed" PROVE Holds(u)'
    <3>1. u # t /\ status[u] = "armed" BY <2>4, <1>3
    <3>2. Holds(u) BY <3>1, <2>2 DEF Proper
    <3>3. slot[u] \in Slots(entries) BY <3>1 DEF IInv, TableOK, OwnerOK
    <3>4. slot[u] # k BY <3>1, <3>2, <2>3 DEF Holds
    <3> QED BY <3>2, <3>3, <3>4, <1>1, <1>5 DEF Holds
  <2>5. ASSUME NEW j \in Slots(entries), entries'[j].active
        PROVE \/ status'[entries'[j].fn] = "armed"
              \/ ~entries'[j].repeat /\ entries'[j].fn \in Running'
    <3>1. j # k /\ entries'[j] = entries[j] BY <2>5, <1>5
    <3>2. EntryOK(j) BY DEF IInv, TableOK
    <3>3. entries[j].fn \in Timers /\ entries[j].fn # t BY <2>5, <3>1, <3>2 DEF EntryOK
    <3> QED BY <2>2, <2>5, <3>1, <3>3, <1>3 DEF Proper
  <2>6. ASSUME NEW j \in 1..Len(stack), stack[j].running # NoFn
        PROVE /\ entries'[stack[j].at].active
              /\ entries'[stack[j].at].fn = stack[j].running
    <3>1. entries[stack[j].at].active /\ entries[stack[j].at].fn = stack[j].running
      BY <2>2, <2>6 DEF Proper
    <3>2. stack[j].at \in Slots(entries) BY <2>6 DEF IInv, TableOK, FrameOK
    <3>3. stack[j].running \in Running BY <2>6, RunningFacts
    <3>4. stack[j].at # k BY <2>2, <2>3, <3>1, <3>3
    <3> QED BY <3>1, <3>2, <3>4, <1>5
  <2> QED BY <1>1, <1>5, <2>2, <2>4, <2>5, <2>6 DEF Proper
<1> QED BY <1>5, <1>6, <1>7, <1>8, <1>9 DEF IInv

\* Frames that are not inside of a callback come, go and walk on.
SameCallbacks ==
  /\ stack' \in Seq(Frame)
  /\ \A j \in 1..Len(stack') : stack'[j].running # NoFn =>
       j \in 1..Len(stack) /\ stack'[j] = stack[j]
  /\ \A j \in 1..Len(stack') : stack'[j].dangling
       => j \in 1..Len(stack) /\ stack[j].dangling
  /\ \A j \in 1..Len(stack) : stack[j].running # NoFn =>
       j \in 1..Len(stack') /\ stack'[j] = stack[j]

\* What they do keeps the invariant.
LEMMA WalkKeeps ==
  ASSUME IInv, SameCallbacks, UNCHANGED <<table, clock, owners, history, misused>>
  PROVE  IInv'
<1>1. UNCHANGED <<entries, freeCount, start, ticks, status, slot, asked, since, calls,
        misused>>
  BY DEF table, clock, owners, history
<1>2. TypeOK'
  <2>1. stack' \in Seq(Frame) BY DEF SameCallbacks
  <2> QED BY <1>1, <2>1 DEF IInv, TypeOK, Frame
<1>3. FreeCountIsExact' BY <1>1 DEF IInv, FreeCountIsExact
<1>4. TableOK'
  <2>1. ASSUME NEW k \in Slots(entries) PROVE EntryOK(k)'
    BY <1>1 DEF IInv, TableOK, EntryOK
  <2>2. ASSUME NEW t \in Timers PROVE OwnerOK(t)' BY <1>1 DEF IInv, TableOK, OwnerOK
  <2>3. ASSUME NEW j \in 1..Len(stack') PROVE FrameOK(j)'
    <3>1. SUFFICES ASSUME stack'[j].running # NoFn PROVE FrameOK(j)' BY DEF FrameOK
    <3>2. j \in 1..Len(stack) /\ stack'[j] = stack[j] BY <3>1 DEF SameCallbacks
    <3>3. FrameOK(j) BY <3>2 DEF IInv, TableOK
    <3> QED BY <3>2, <3>3, <1>1 DEF FrameOK
  <2> QED BY <2>1, <2>2, <2>3, <1>1 DEF TableOK
<1>5. OneShotOnce' BY <1>1 DEF IInv, OneShotOnce
<1>6. (misused \/ Proper)'
  <2>1. SUFFICES ASSUME ~misused' PROVE Proper' OBVIOUS
  <2>2. Proper BY <1>1, <2>1 DEF IInv
  <2>3. Running' = Running
    <3>1. ASSUME NEW t \in Running PROVE t \in Running'
      <4>1. PICK j \in 1..Len(stack) : stack[j].running = t /\ t # NoFn
        BY <3>1, RunningFacts
      <4>2. j \in 1..Len(stack') /\ stack'[j] = stack[j] BY <4>1 DEF SameCallbacks
      <4> QED BY <4>1, <4>2 DEF Running
    <3>2. ASSUME NEW t \in Running' PROVE t \in Running
      <4>1. PICK j \in 1..Len(stack') : stack'[j].running = t /\ t # NoFn
        BY <3>2 DEF Running
      <4>2. j \in 1..Len(stack) /\ stack'[j] = stack[j] BY <4>1 DEF SameCallbacks
      <4> QED BY <4>1, <4>2, RunningFacts
    <3> QED BY <3>1, <3>2
  <2>4. ASSUME NEW u \in Timers, status'[u] = "armed" PROVE Holds(u)'
    BY <1>1, <2>2, <2>4 DEF Proper, Holds
  <2>5. \A k \in Slots(entries)' : entries'[k].active =>
          \/ status'[entries'[k].fn] = "armed"
          \/ ~entries'[k].repeat /\ entries'[k].fn \in Running'
    BY <1>1, <2>2, <2>3 DEF Proper
  <2>6. ASSUME NEW j \in 1..Len(stack')
        PROVE  /\ ~stack'[j].dangling
               /\ stack'[j].running # NoFn =>
                    /\ entries'[stack'[j].at].active
                    /\ entries'[stack'[j].at].fn = stack'[j].running
    BY <1>1, <2>2 DEF Proper, SameCallbacks
  <2>7. ASSUME NEW i \in 1..Len(stack'), NEW j \in 1..Len(stack'), i # j,
               stack'[i].running = stack'[j].running, stack'[i].running # NoFn
        PROVE  asked'[stack'[i].running].repeat
    <3>1. /\ i \in 1..Len(stack) /\ stack'[i] = stack[i] /\ j \in 1..Len(stack)
          /\ stack'[j] = stack[j]
      BY <2>7 DEF SameCallbacks
    <3> QED BY <3>1, <1>1, <2>2, <2>7 DEF Proper
  <2> QED BY <2>4, <2>5, <2>6, <2>7 DEF Proper
<1> QED BY <1>2, <1>3, <1>4, <1>5, <1>6 DEF IInv

\* handle_timers begins, in the main loop or in a callback.
LEMMA HandleTimersKeeps == ASSUME IInv, HandleTimers PROVE IInv'
<1> DEFINE f == [at |-> 1, running |-> NoFn, dangling |-> FALSE]
<1>1. stack \in Seq(Frame) BY DEF IInv, TypeOK, Frame
<1>2. f \in Frame BY DEF Frame
<1>3. f.running = NoFn /\ ~f.dangling OBVIOUS
<1>4. stack' = Append(stack, f) BY DEF HandleTimers
<1> HIDE DEF f
<1>5. /\ Len(stack) \in Nat /\ stack' \in Seq(Frame) /\ Len(stack') = Len(stack) + 1
      /\ stack'[Len(stack) + 1] = f
      /\ \A j \in 1..Len(stack) : stack'[j] = stack[j]
  BY <1>1, <1>2, <1>4, LenProperties, AppendProperties
<1>6. SameCallbacks
  <2>1. ASSUME NEW j \in 1..Len(stack'), stack'[j].running # NoFn \/ stack'[j].dangling
        PROVE  j \in 1..Len(stack)
    <3>1. j # Len(stack) + 1 BY <2>1, <1>3, <1>5
    <3> QED BY <3>1, <1>5
  <2>2. \A j \in 1..Len(stack) : j \in 1..Len(stack') BY <1>5
  <2> QED BY <2>1, <2>2, <1>5 DEF SameCallbacks
<1> QED BY <1>6, WalkKeeps DEF HandleTimers

\* It is past the last slot.
LEMMA FinishKeeps == ASSUME IInv, Finish PROVE IInv'
<1>1. stack \in Seq(Frame) /\ stack # <<>> /\ top.running = NoFn
      /\ stack' = SubSeq(stack, 1, Len(stack) - 1)
  BY DEF IInv, TypeOK, Frame, Finish, InLoop, Pop
<1> DEFINE n == Len(stack) - 1
<1>2. Len(stack) \in Nat \ {0} /\ n \in Nat /\ Len(stack) = n + 1
      /\ \A j \in 1..Len(stack) : stack[j] \in Frame
  BY <1>1, TopFacts
<1>3. \A j \in 1..n : j \in 1..Len(stack) /\ stack[j] \in Frame BY <1>2
<1>4. stack' = SubSeq(stack, 1, n) BY <1>1
<1> HIDE DEF n
<1>5. /\ stack' \in Seq(Frame) /\ Len(stack') = n
      /\ \A j \in 1..n : stack'[j] = stack[j]
  <2>1. /\ SubSeq(stack, 1, n) \in Seq(Frame)
        /\ Len(SubSeq(stack, 1, n)) = IF 1 <= n THEN n - 1 + 1 ELSE 0
        /\ \A j \in 1..(n - 1 + 1) : SubSeq(stack, 1, n)[j] = stack[1 + j - 1]
    BY <1>2, <1>3, SubSeqProperties
  <2>2. (IF 1 <= n THEN n - 1 + 1 ELSE 0) = n /\ n - 1 + 1 = n BY <1>2
  <2>3. \A j \in 1..n : 1 + j - 1 = j OBVIOUS
  <2> QED BY <1>4, <2>1, <2>2, <2>3
<1>6. SameCallbacks
  <2>1. ASSUME NEW j \in 1..Len(stack), stack[j].running # NoFn PROVE j \in 1..n
    <3>1. j # n + 1 BY <2>1, <1>1, <1>2 DEF top
    <3> QED BY <3>1, <1>2
  <2> QED BY <2>1, <1>3, <1>5 DEF SameCallbacks
<1> QED BY <1>6, WalkKeeps DEF Finish

\* It steps over a slot that is free or not due.
LEMMA SkipKeeps == ASSUME IInv, Skip PROVE IInv'
<1> DEFINE f == [top EXCEPT !.at = @ + 1]
<1>1. stack \in Seq(Frame) /\ stack # <<>> /\ top.running = NoFn /\ Replace(f)
  BY DEF IInv, TypeOK, Frame, Skip, InLoop
<1>2. top \in Frame /\ Len(stack) \in 1..Len(stack) BY <1>1, TopFacts
<1>3. f \in Frame /\ f.running = NoFn /\ f.dangling = top.dangling
  BY <1>1, <1>2 DEF Frame
<1> HIDE DEF f
<1>4. /\ stack' \in Seq(Frame) /\ Len(stack') = Len(stack) /\ stack'[Len(stack)] = f
      /\ \A j \in 1..Len(stack) : j # Len(stack) => stack'[j] = stack[j]
  BY <1>1, <1>3, ReplaceFacts
<1>5. SameCallbacks
  <2>1. \A j \in 1..Len(stack) : stack[j].running # NoFn => j # Len(stack)
    BY <1>1 DEF top
  <2>2. \A j \in 1..Len(stack) : stack'[j].running # NoFn => j # Len(stack)
    BY <1>3, <1>4
  <2>3. ASSUME NEW j \in 1..Len(stack), stack'[j].dangling PROVE stack[j].dangling
    <3>1. CASE j = Len(stack) BY <3>1, <2>3, <1>3, <1>4 DEF top
    <3>2. CASE j # Len(stack) BY <3>2, <2>3, <1>4
    <3> QED BY <3>1, <3>2
  <2> QED BY <2>1, <2>2, <2>3, <1>4 DEF SameCallbacks
<1> QED BY <1>5, WalkKeeps DEF Skip

\* The entry whose callback is called is that of a timer whose interval has
\* passed; of a one-shot only before its first call.
LEMMA CallDue ==
  ASSUME IInv, Call
  PROVE  /\ top.at \in Slots(entries) /\ entries[top.at] \in Entry
         /\ entries[top.at].active
         /\ entries[top.at].fn \in Timers /\ slot[entries[top.at].fn] = top.at
         /\ status[entries[top.at].fn] \notin {"new", "refused"}
         /\ entries[top.at].repeat = asked[entries[top.at].fn].repeat
         /\ entries[top.at].interval = asked[entries[top.at].fn].interval
         /\ entries[top.at].created = (start + since[entries[top.at].fn]) % W
         /\ entries[top.at].repeat \/ calls[entries[top.at].fn] = 0
         /\ ticks - since[entries[top.at].fn] >= asked[entries[top.at].fn].interval
<1> USE TimerTableAssumption, TimerAssumption
<1> DEFINE k == top.at
           t == entries[top.at].fn
<1>1. /\ stack \in Seq(Frame) /\ stack # <<>> /\ k <= Len(entries)
      /\ Ripe(entries[k], millis)
  BY DEF IInv, TypeOK, Frame, Call, InLoop
<1>3. TypeOK /\ entries \in Seq(Entry) /\ ticks \in 0..MaxTicks /\ ticks < Never
  <2>1. TypeOK BY DEF IInv
  <2>2. entries \in Seq(Entry) /\ ticks \in 0..MaxTicks BY <2>1 DEF TypeOK, Entry
  <2>3. ticks < Never BY <2>2 DEF Never
  <2> QED BY <2>1, <2>2, <2>3
<1>4. top \in Frame /\ Len(stack) \in 1..Len(stack) BY <1>1, TopFacts
<1>5. k \in Slots(entries) /\ k \in 1..Len(entries) /\ entries[k] \in Entry
  <2>1. k \in Nat \ {0} BY <1>4 DEF Frame
  <2>2. Len(entries) \in Nat /\ Slots(entries) = 1..Len(entries) BY <1>3, SlotsFacts
  <2>3. k \in Slots(entries) BY <1>1, <2>1, <2>2
  <2> QED BY <2>2, <2>3, <1>3, SlotsFacts
<1>6. entries[k].active BY <1>1 DEF Ripe
<1>7. EntryOK(k) BY <1>5 DEF IInv, TableOK
<1>8. /\ t \in Timers /\ slot[t] = k /\ status[t] \notin {"new", "refused"}
      /\ entries[k].repeat = asked[t].repeat
  BY <1>6, <1>7 DEF EntryOK
<1>9. /\ entries[k].interval = asked[t].interval
      /\ entries[k].created = (start + since[t]) % W
      /\ entries[k].repeat \/ calls[t] = 0
      /\ ticks - since[t] >= asked[t].interval
  <2>1. (millis + W - entries[k].created) % W >= entries[k].interval BY <1>1 DEF Ripe
  <2>2. since[t] \in 0..ticks
    <3>1. since[t] <= ticks BY <1>8 DEF IInv, TableOK, OwnerOK
    <3>2. since[t] \in Nat BY <1>3, <1>8 DEF TypeOK
    <3> QED BY <1>3, <3>1, <3>2
  <2>3. entries[k].interval # Never
    <3>1. SUFFICES ASSUME entries[k].interval = Never PROVE FALSE OBVIOUS
    <3>2. PICK s \in 0..ticks : entries[k].created = (start + s) % W
      BY <2>2, <1>6, <1>7 DEF EntryOK
    <3>3. (millis + W - entries[k].created) % W = ticks - s
      <4> DEFINE c == entries[k].created
      <4>1. c = (start + s) % W BY <3>2
      <4> HIDE DEF c
      <4>2. (millis + W - c) % W = ticks - s BY <4>1, <1>3, Elapsed
      <4> QED BY <4>2 DEF c
    <3>4. Never \in Nat BY DEF Never
    <3> HIDE DEF k
    <3> QED BY <2>1, <3>1, <3>3, <3>4, <1>3
  <2>4. /\ entries[k].interval = asked[t].interval
        /\ entries[k].created = (start + since[t]) % W
        /\ entries[k].repeat \/ calls[t] = 0
    BY <2>3, <1>6, <1>7 DEF EntryOK
  <2>5. (millis + W - entries[k].created) % W = ticks - since[t]
    <3> DEFINE c == entries[k].created
               s == since[t]
    <3>1. c = (start + s) % W BY <2>4
    <3>2. s \in 0..ticks BY <2>2
    <3> HIDE DEF c, s
    <3>3. (millis + W - c) % W = ticks - s BY <3>1, <3>2, <1>3, Elapsed
    <3> QED BY <3>3 DEF c, s
  <2>6. ticks - since[t] >= entries[k].interval BY <2>1, <2>5
  <2> QED BY <2>4, <2>6
<1> QED BY <1>5, <1>6, <1>8, <1>9 DEF k, t

\* The callback of the timer t at the top frame's slot is called.
LEMMA CallKeeps == ASSUME IInv, Call PROVE IInv'
<1> USE TimerTableAssumption, TimerAssumption
<1> DEFINE k == top.at
           t == entries[top.at].fn
           f == [top EXCEPT !.running = t]
           x == Started(entries[top.at], millis)
<1>1. /\ stack \in Seq(Frame) /\ stack # <<>> /\ top.running = NoFn /\ k <= Len(entries)
      /\ Ripe(entries[k], millis) /\ Replace(f)
      /\ UNCHANGED <<freeCount, start, ticks, slot, asked, misused>>
  BY DEF IInv, TypeOK, Frame, Call, InLoop, clock
<1>2. /\ entries' = [entries EXCEPT ![k] = x]
      /\ calls' = [calls EXCEPT ![t] = @ + 1]
      /\ since' = [since EXCEPT ![t] = ticks]
      /\ status' = IF entries[k].repeat THEN status ELSE [status EXCEPT ![t] = "fired"]
  BY DEF Call
<1>3. TypeOK /\ entries \in Seq(Entry) /\ ticks \in 0..MaxTicks /\ ticks < Never
  <2>1. TypeOK BY DEF IInv
  <2>2. entries \in Seq(Entry) /\ ticks \in 0..MaxTicks BY <2>1 DEF TypeOK, Entry
  <2>3. ticks < Never BY <2>2 DEF Never
  <2> QED BY <2>1, <2>2, <2>3
<1>4. top \in Frame /\ Len(stack) \in 1..Len(stack) BY <1>1, TopFacts
<1>5. k \in Slots(entries) /\ k \in 1..Len(entries) /\ entries[k] \in Entry
  BY <1>3, CallDue, SlotsFacts
<1>6. entries[k].active BY CallDue
<1>8. /\ t \in Timers /\ slot[t] = k /\ status[t] \notin {"new", "refused"}
      /\ entries[k].repeat = asked[t].repeat
  BY CallDue
<1>9. /\ entries[k].interval = asked[t].interval
      /\ entries[k].created = (start + since[t]) % W
      /\ entries[k].repeat \/ calls[t] = 0
  BY CallDue
<1>10. millis \in 0..(W - 1) /\ millis = (start + ticks) % W
  <2>1. ticks \in 0..ticks BY <1>3
  <2> QED BY <1>3, <2>1, Elapsed DEF millis
<1>11. /\ x \in Entry /\ x.active /\ x.fn = t /\ x.repeat = entries[k].repeat
       /\ entries[k].repeat => x.interval = entries[k].interval /\ x.created = millis
       /\ ~entries[k].repeat => x.interval = Never /\ x.created = entries[k].created
  <2> DEFINE e == entries[k]
  <2>1. e \in Entry /\ e.active /\ e.fn = t BY <1>5, <1>6
  <2>2. x = IF e.repeat THEN [e EXCEPT !.created = millis]
          ELSE [e EXCEPT !.interval = Never]
    BY DEF Started
  <2>3. Never \in Nat BY DEF Never
  <2> HIDE DEF e, k, t, x
  <2>4. CASE e.repeat
    <3>1. x = [e EXCEPT !.created = millis] BY <2>2, <2>4
    <3>2. x \in Entry /\ x.active /\ x.fn = t /\ x.repeat = e.repeat
          /\ x.interval = e.interval /\ x.created = millis
      BY <2>1, <3>1, <1>10 DEF Entry
    <3> QED BY <2>4, <3>2 DEF e
  <2>5. CASE ~e.repeat
    <3>1. x = [e EXCEPT !.interval = Never] BY <2>2, <2>5
    <3>2. x \in Entry /\ x.active /\ x.fn = t /\ x.repeat = e.repeat
          /\ x.interval = Never /\ x.created = e.created
      BY <2>1, <2>3, <3>1 DEF Entry
    <3> QED BY <2>5, <3>2 DEF e
  <2> QED BY <2>4, <2>5
<1>12. f \in Frame /\ f.running = t /\ f.at = k /\ f.dangling = top.dangling
  BY <1>4, <1>8 DEF Frame
<1> HIDE DEF k, t, f, x
<1>13. /\ entries' \in Seq(Entry) /\ Len(entries') = Len(entries)
       /\ Slots(entries') = Slots(entries)
       /\ entries'[k] = x /\ \A j \in Slots(entries) : j # k => entries'[j] = entries[j]
  <2>1. /\ entries' \in Seq(Entry) /\ Len(entries') = Len(entries)
        /\ \A j \in 1..Len(entries) : entries'[j] = IF j = k THEN x ELSE entries[j]
    BY <1>2, <1>3, <1>5, <1>11, ExceptSeq
  <2> QED BY <2>1, <1>5 DEF Slots
<1>14. /\ stack' \in Seq(Frame) /\ Len(stack') = Len(stack) /\ stack'[Len(stack)] = f
       /\ \A j \in 1..Len(stack) : j # Len(stack) => stack'[j] = stack[j]
  BY <1>1, <1>12, ReplaceFacts
<1>15. /\ calls'[t] = calls[t] + 1 /\ calls[t] \in Nat /\ since'[t] = ticks
       /\ status'[t] = (IF entries[k].repeat THEN status[t] ELSE "fired")
       /\ \A u \in Timers : u # t =>
            calls'[u] = calls[u] /\ since'[u] = since[u] /\ status'[u] = status[u]
  BY <1>2, <1>3, <1>8 DEF TypeOK
<1>16. ASSUME NEW j \in Slots(entries), j # k, entries[j].active
       PROVE  entries[j].fn \in Timers /\ entries[j].fn # t /\ EntryOK(j)
  <2>1. EntryOK(j) BY DEF IInv, TableOK
  <2> QED BY <2>1, <1>8, <1>16 DEF EntryOK
<1>17. FreeCountIsExact'
  <2>1. FreeSlots(entries') = FreeSlots(entries)
    BY <1>6, <1>11, <1>13 DEF FreeSlots
  <2> QED BY <2>1, <1>1 DEF IInv, FreeCountIsExact
<1>18. TypeOK'
  <2>1. calls' \in [Timers -> Nat]
    <3> DEFINE n == calls[t] + 1
    <3>1. n \in Nat BY <1>15
    <3>2. calls' = [calls EXCEPT ![t] = n] BY <1>2
    <3>3. calls \in [Timers -> Nat] BY <1>3 DEF TypeOK
    <3> HIDE DEF n
    <3> QED BY <3>1, <3>2, <3>3
  <2>2. since' \in [Timers -> 0..MaxTicks] BY <1>2, <1>3 DEF TypeOK
  <2>3. status' \in [Timers -> {"new", "refused", "armed", "fired", "cleared"}]
    BY <1>2, <1>3 DEF TypeOK
  <2> QED BY <1>1, <1>3, <1>13, <1>14, <2>1, <2>2, <2>3 DEF TypeOK, Entry, Frame
<1>19. TableOK'
  <2>1. ASSUME NEW j \in Slots(entries) PROVE EntryOK(j)'
    <3>1. CASE j = k
      <4>1. CASE entries[k].repeat
        <5>1. /\ entries'[k].interval = asked'[t].interval
              /\ entries'[k].created = (start' + since'[t]) % W
              /\ entries'[k].repeat
          BY <4>1, <1>1, <1>9, <1>10, <1>11, <1>13, <1>15
        <5>2. status'[t] = status[t] BY <4>1, <1>15
        <5> QED BY <3>1, <5>1, <5>2, <1>1, <1>8, <1>11, <1>13 DEF EntryOK
      <4>2. CASE ~entries[k].repeat
        <5>1. entries'[k].interval = Never /\ ~entries'[k].repeat BY <4>2, <1>11, <1>13
        <5>2. \E s \in 0..ticks' : entries'[k].created = (start' + s) % W
          <6>1. since[t] \in 0..ticks
            <7>1. since[t] <= ticks BY <1>8 DEF IInv, TableOK, OwnerOK
            <7>2. since[t] \in Nat BY <1>3, <1>8 DEF TypeOK
            <7> QED BY <1>3, <7>1, <7>2
          <6> QED BY <6>1, <4>2, <1>1, <1>9, <1>11, <1>13
        <5>3. status'[t] = "fired" BY <4>2, <1>15
        <5> QED BY <3>1, <5>1, <5>2, <5>3, <1>1, <1>8, <1>11, <1>13 DEF EntryOK
      <4> QED BY <4>1, <4>2
    <3>2. CASE j # k
      <4>1. SUFFICES ASSUME entries'[j].active PROVE EntryOK(j)' BY DEF EntryOK
      <4>2. entries'[j] = entries[j] BY <3>2, <1>13
      <4>3. entries[j].fn \in Timers /\ entries[j].fn # t /\ EntryOK(j)
        BY <3>2, <4>1, <4>2, <1>16
      <4> QED BY <4>1, <4>2, <4>3, <1>1, <1>15 DEF EntryOK
    <3> QED BY <3>1, <3>2
  <2>2. ASSUME NEW u \in Timers PROVE OwnerOK(u)'
    <3>1. OwnerOK(u) BY DEF IInv, TableOK
    <3>2. CASE u = t
      <4>1. since'[u] <= ticks' BY <3>2, <1>1, <1>3, <1>15
      <4>2. status'[u] \notin {"new", "refused"} BY <3>2, <1>8, <1>15
      <4>3. slot'[u] \in Slots(entries') BY <3>2, <1>1, <1>5, <1>8, <1>13
      <4> QED BY <4>1, <4>2, <4>3 DEF OwnerOK
    <3>3. CASE u # t BY <3>1, <3>3, <1>1, <1>13, <1>15 DEF OwnerOK
    <3> QED BY <3>2, <3>3
  <2>3. ASSUME NEW j \in 1..Len(stack) PROVE FrameOK(j)'
    <3>1. CASE j = Len(stack)
      <4>1. calls'[t] > 0 BY <1>15
      <4> QED BY <3>1, <4>1, <1>5, <1>12, <1>13, <1>14 DEF FrameOK
    <3>2. CASE j # Len(stack)
      <4>1. SUFFICES ASSUME stack'[j].running # NoFn PROVE FrameOK(j)' BY DEF FrameOK
      <4>2. stack'[j] = stack[j] BY <3>2, <1>14
      <4>3. FrameOK(j) BY DEF IInv, TableOK
      <4>4. stack[j] \in Frame BY <1>1, TopFacts
      <4>5. stack[j].running \in Timers BY <4>1, <4>2, <4>4 DEF Frame
      <4>6. calls'[stack[j].running] > 0
        <5>1. CASE stack[j].running = t BY <5>1, <1>15
        <5>2. CASE stack[j].running # t
          BY <5>2, <4>1, <4>2, <4>3, <4>5, <1>15 DEF FrameOK
        <5> QED BY <5>1, <5>2
      <4> QED BY <4>1, <4>2, <4>3, <4>6, <1>13 DEF FrameOK
    <3> QED BY <3>1, <3>2
  <2> QED BY <2>1, <2>2, <2>3, <1>13, <1>14 DEF TableOK
<1>20. OneShotOnce'
  <2>1. ASSUME NEW u \in Timers, calls'[u] > 1 PROVE asked[u].repeat
    <3>1. CASE u = t
      <4>1. calls[t] # 0 BY <2>1, <3>1, <1>15
      <4> QED BY <3>1, <4>1, <1>8, <1>9
    <3>2. CASE u # t BY <2>1, <3>2, <1>15 DEF IInv, OneShotOnce
    <3> QED BY <3>1, <3>2
  <2> QED BY <2>1, <1>1 DEF OneShotOnce
<1>21. (misused \/ Proper)'
  <2>1. SUFFICES ASSUME ~misused' PROVE Proper' OBVIOUS
  <2>2. Proper BY <1>1, <2>1 DEF IInv
  <2>3. \A u \in Running : u \in Running'
    <3>1. ASSUME NEW u \in Running PROVE u \in Running'
      <4>1. PICK j \in 1..Len(stack) : stack[j].running = u /\ u # NoFn
        BY <3>1, RunningFacts
      <4>2. j # Len(stack) BY <4>1, <1>1 DEF top
      <4>3. stack'[j] = stack[j] BY <4>2, <1>14
      <4> QED BY <4>1, <4>3, <1>14 DEF Running
    <3> QED BY <3>1
  <2>4. t \in Running'
    <3>1. t # NoFn BY <1>8
    <3> QED BY <3>1, <1>4, <1>12, <1>14 DEF Running
  <2>5. ASSUME NEW u \in Timers, status'[u] = "armed" PROVE Holds(u)'
    <3>1. CASE u = t BY <3>1, <1>1, <1>8, <1>11, <1>13 DEF Holds
    <3>2. CASE u # t
      <4>1. status[u] = "armed" /\ Holds(u) BY <2>2, <2>5, <3>2, <1>15 DEF Proper
      <4>2. slot[u] \in Slots(entries) BY <4>1 DEF IInv, TableOK, OwnerOK
      <4>3. slot[u] # k BY <3>2, <4>1 DEF Holds, t, k
      <4> QED BY <4>1, <4>2, <4>3, <1>1, <1>13 DEF Holds
    <3> QED BY <3>1, <3>2
  <2>6. ASSUME NEW j \in Slots(entries), entries'[j].active
        PROVE \/ status'[entries'[j].fn] = "armed"
              \/ ~entries'[j].repeat /\ entries'[j].fn \in Running'
    <3>1. CASE j = k
      <4>1. CASE entries[k].repeat
        <5>1. status[t] = "armed" BY <4>1, <2>2, <1>5, <1>6 DEF Proper, t, k
        <5> QED BY <3>1, <4>1, <5>1, <1>11, <1>13, <1>15
      <4>2. CASE ~entries[k].repeat BY <3>1, <4>2, <2>4, <1>11, <1>13
      <4> QED BY <4>1, <4>2
    <3>2. CASE j # k
      <4>1. entries'[j] = entries[j] BY <3>2, <1>13
      <4>2. entries[j].fn \in Timers /\ entries[j].fn # t BY <2>6, <3>2, <4>1, <1>16
      <4> QED BY <2>2, <2>3, <2>6, <4>1, <4>2, <1>15 DEF Proper
    <3> QED BY <3>1, <3>2
  <2>7. ASSUME NEW j \in 1..Len(stack)
        PROVE  /\ ~stack'[j].dangling
               /\ stack'[j].running # NoFn =>
                    /\ entries'[stack'[j].at].active
                    /\ entries'[stack'[j].at].fn = stack'[j].running
    <3>1. CASE j = Len(stack)
      <4>1. ~stack'[j].dangling BY <3>1, <2>2, <1>12, <1>14 DEF Proper, top
      <4>2. stack'[j].at = k /\ stack'[j].running = t BY <3>1, <1>12, <1>14
      <4> QED BY <4>1, <4>2, <1>11, <1>13
    <3>2. CASE j # Len(stack)
      <4>1. stack'[j] = stack[j] /\ ~stack[j].dangling BY <3>2, <2>2, <1>14 DEF Proper
      <4>2. SUFFICES ASSUME stack[j].running # NoFn
                     PROVE  /\ entries'[stack[j].at].active
                            /\ entries'[stack[j].at].fn = stack[j].running
        BY <4>1
      <4>3. entries[stack[j].at].active /\ entries[stack[j].at].fn = stack[j].running
        BY <2>2, <4>2 DEF Proper
      <4>4. stack[j].at \in Slots(entries) BY <4>2 DEF IInv, TableOK, FrameOK
      <4>5. CASE stack[j].at = k
        <5>1. entries'[stack[j].at] = x BY <4>5, <1>13
        <5>2. stack[j].running = t BY <4>3, <4>5 DEF t, k
        <5> QED BY <5>1, <5>2, <1>11
      <4>6. CASE stack[j].at # k BY <4>3, <4>4, <4>6, <1>13
      <4> QED BY <4>5, <4>6
    <3> QED BY <3>1, <3>2
  <2>8. ASSUME NEW i \in 1..Len(stack), NEW j \in 1..Len(stack), i # j,
               stack'[i].running = stack'[j].running, stack'[i].running # NoFn
        PROVE  asked'[stack'[i].running].repeat
    <3>1. ASSUME NEW h \in 1..Len(stack), h # Len(stack), stack[h].running = t
          PROVE  entries[k].repeat
      <4>1. t # NoFn BY <1>8
      <4>2. calls[t] > 0 BY <3>1, <4>1 DEF IInv, TableOK, FrameOK
      <4> QED BY <4>2, <1>9, <1>15
    <3>2. CASE i = Len(stack)
      <4>1. stack'[i].running = t /\ stack[j].running = t BY <2>8, <3>2, <1>12, <1>14
      <4>2. entries[k].repeat BY <2>8, <3>1, <3>2, <4>1
      <4> QED BY <4>1, <4>2, <1>1, <1>8
    <3>3. CASE j = Len(stack)
      <4>1. stack'[i].running = t /\ stack[i].running = t BY <2>8, <3>3, <1>12, <1>14
      <4>2. entries[k].repeat BY <2>8, <3>1, <3>3, <4>1
      <4> QED BY <4>1, <4>2, <1>1, <1>8
    <3>4. CASE i # Len(stack) /\ j # Len(stack)
      <4>1. stack'[i] = stack[i] /\ stack'[j] = stack[j] BY <3>4, <1>14
      <4> QED BY <4>1, <2>2, <2>8, <1>1 DEF Proper
    <3> QED BY <3>2, <3>3, <3>4
  <2> QED BY <2>5, <2>6, <2>7, <2>8, <1>13, <1>14 DEF Proper
<1> QED BY <1>17, <1>18, <1>19, <1>20, <1>21 DEF IInv

\* The callback of the timer t returns to the top frame.
LEMMA ReturnKeeps == ASSUME IInv, Return PROVE IInv'
<1> USE TimerAssumption
<1> DEFINE k == top.at
           t == top.running
           f == [at |-> top.at + 1, running |-> NoFn, dangling |-> FALSE]
<1>1. /\ stack \in Seq(Frame) /\ stack # <<>> /\ t # NoFn /\ Replace(f)
      /\ UNCHANGED <<start, ticks, status, slot, asked, since, calls, misused>>
  BY DEF IInv, TypeOK, Frame, Return, clock, owners, history
<1>2. TypeOK /\ entries \in Seq(Entry) /\ FreeCountIsExact BY DEF IInv, TypeOK, Entry
<1>3. top \in Frame /\ Len(stack) \in 1..Len(stack) BY <1>1, TopFacts
<1>4. k \in Nat /\ t \in Timers BY <1>1, <1>3 DEF Frame
<1>5. f \in Frame /\ f.running = NoFn /\ ~f.dangling BY <1>4 DEF Frame
<1>6. PICK repeat \in IF top.dangling THEN BOOLEAN ELSE {entries[k].repeat} :
        IF repeat THEN UNCHANGED table ELSE Wipe(k)
  BY DEF Return
<1>7. k \in Slots(entries) BY <1>1, <1>3 DEF IInv, TableOK, FrameOK, top
<1> HIDE DEF k, t, f
<1>8. /\ entries' \in Seq(Entry) /\ Slots(entries') = Slots(entries)
      /\ Len(entries') = Len(entries) /\ FreeCountIsExact'
      /\ \A j \in Slots(entries) : j # k => entries'[j] = entries[j]
      /\ \A j \in Slots(entries) : entries'[j].active => entries'[j] = entries[j]
  <2>1. CASE repeat
    <3>1. entries' = entries /\ freeCount' = freeCount BY <1>6, <2>1 DEF table
    <3> QED BY <3>1, <1>2 DEF FreeCountIsExact
  <2>2. CASE ~repeat
    <3>1. Wipe(k) BY <1>6, <2>2
    <3> QED BY <3>1, <1>2, <1>7, WipeFacts
  <2> QED BY <2>1, <2>2
<1>9. /\ stack' \in Seq(Frame) /\ Len(stack') = Len(stack) /\ stack'[Len(stack)] = f
      /\ \A j \in 1..Len(stack) : j # Len(stack) => stack'[j] = stack[j]
  BY <1>1, <1>5, ReplaceFacts
<1>10. TypeOK'
  <2>1. freeCount' \in 0..Len(entries') BY <1>8, SlotsFacts DEF FreeCountIsExact
  <2> QED BY <1>1, <1>2, <1>8, <1>9, <2>1 DEF TypeOK, Entry, Frame
<1>11. TableOK'
  <2>1. ASSUME NEW j \in Slots(entries) PROVE EntryOK(j)'
    <3>1. SUFFICES ASSUME entries'[j].active PROVE EntryOK(j)' BY DEF EntryOK
    <3>2. entries'[j] = entries[j] /\ EntryOK(j) BY <3>1, <1>8 DEF IInv, TableOK
    <3> QED BY <3>1, <3>2, <1>1 DEF EntryOK
  <2>2. ASSUME NEW u \in Timers PROVE OwnerOK(u)'
    BY <1>1, <1>8 DEF IInv, TableOK, OwnerOK
  <2>3. ASSUME NEW j \in 1..Len(stack) PROVE FrameOK(j)'
    <3>1. CASE j = Len(stack) BY <3>1, <1>5, <1>9 DEF FrameOK
    <3>2. CASE j # Len(stack)
      <4>1. FrameOK(j) /\ stack'[j] = stack[j] BY <3>2, <1>9 DEF IInv, TableOK
      <4> QED BY <4>1, <1>1, <1>8 DEF FrameOK
    <3> QED BY <3>1, <3>2
  <2> QED BY <2>1, <2>2, <2>3, <1>8, <1>9 DEF TableOK
<1>12. OneShotOnce' BY <1>1 DEF IInv, OneShotOnce
<1>13. (misused \/ Proper)'
  <2>1. SUFFICES ASSUME ~misused' PROVE Proper' OBVIOUS
  <2>2. Proper BY <1>1, <2>1 DEF IInv
  <2>3. entries[k].active /\ entries[k].fn = t /\ ~top.dangling
    BY <2>2, <1>1, <1>3 DEF Proper, top, k, t
  <2>4. EntryOK(k) BY <1>7 DEF IInv, TableOK
  <2>5. slot[t] = k /\ entries[k].repeat = asked[t].repeat BY <2>3, <2>4 DEF EntryOK
  <2>6. CASE entries[k].repeat
    <3>1. repeat BY <1>6, <2>3, <2>6
    <3>2. entries' = entries BY <1>6, <3>1 DEF table
    <3>3. ASSUME NEW u \in Running, ~asked[u].repeat PROVE u \in Running'
      <4>1. PICK j \in 1..Len(stack) : stack[j].running = u /\ u # NoFn
        BY <3>3, RunningFacts
      <4>2. j # Len(stack) BY <4>1, <3>3, <2>5, <2>6 DEF top, t
      <4> QED BY <4>1, <4>2, <1>9 DEF Running
    <3>4. ASSUME NEW j \in Slots(entries), entries[j].active
          PROVE \/ status[entries[j].fn] = "armed"
                \/ ~entries[j].repeat /\ entries[j].fn \in Running'
      <4>1. SUFFICES ASSUME status[entries[j].fn] # "armed"
                     PROVE  ~entries[j].repeat /\ entries[j].fn \in Running'
        OBVIOUS
      <4>2. ~entries[j].repeat /\ entries[j].fn \in Running
        BY <4>1, <3>4, <2>2 DEF Proper
      <4>3. EntryOK(j) BY DEF IInv, TableOK
      <4>4. ~asked[entries[j].fn].repeat BY <4>2, <4>3, <3>4 DEF EntryOK
      <4> QED BY <3>3, <4>2, <4>4
    <3>5. \A u \in Timers : status'[u] = "armed" => Holds(u)'
      BY <3>2, <2>2, <1>1 DEF Proper, Holds
    <3>6. ASSUME NEW j \in 1..Len(stack)
          PROVE  /\ ~stack'[j].dangling
                 /\ stack'[j].running # NoFn =>
                      /\ entries'[stack'[j].at].active
                      /\ entries'[stack'[j].at].fn = stack'[j].running
      <4>1. CASE j = Len(stack) BY <4>1, <1>5, <1>9
      <4>2. CASE j # Len(stack) BY <4>2, <2>2, <3>2, <1>9 DEF Proper
      <4> QED BY <4>1, <4>2
    <3>7. ASSUME NEW i \in 1..Len(stack), NEW j \in 1..Len(stack), i # j,
                 stack'[i].running = stack'[j].running, stack'[i].running # NoFn
          PROVE  asked'[stack'[i].running].repeat
      <4>1. i # Len(stack) /\ j # Len(stack) BY <3>7, <1>5, <1>9
      <4>2. stack'[i] = stack[i] /\ stack'[j] = stack[j] BY <4>1, <1>9
      <4> QED BY <4>2, <2>2, <3>7, <1>1 DEF Proper
    <3> QED BY <3>2, <3>4, <3>5, <3>6, <3>7, <1>1, <1>9 DEF Proper
  <2>7. CASE ~entries[k].repeat
    <3>1. ~repeat BY <1>6, <2>3, <2>7
    <3>2. Wipe(k) BY <1>6, <3>1
    <3>3. ~entries'[k].active BY <3>2, <1>2, <1>7, WipeFacts
    <3>4. \A j \in 1..Len(stack) : j # Len(stack) => stack[j].running # t
      <4>1. SUFFICES ASSUME NEW j \in 1..Len(stack), j # Len(stack),
                            stack[j].running = t
                     PROVE  FALSE
        OBVIOUS
      <4>2. asked[t].repeat BY <4>1, <2>2, <1>1, <1>3 DEF Proper, top, t
      <4> QED BY <4>2, <2>5, <2>7
    <3>5. ASSUME NEW u \in Running, u # t PROVE u \in Running'
      <4>1. PICK j \in 1..Len(stack) : stack[j].running = u /\ u # NoFn
        BY <3>5, RunningFacts
      <4>2. j # Len(stack) BY <4>1, <3>5 DEF top, t
      <4> QED BY <4>1, <4>2, <1>9 DEF Running
    <3>6. ASSUME NEW j \in Slots(entries), entries'[j].active
          PROVE  j # k /\ entries'[j] = entries[j] /\ entries[j].fn # t
      <4>1. j # k /\ entries'[j] = entries[j] BY <3>6, <3>3, <1>8
      <4>2. EntryOK(j) BY DEF IInv, TableOK
      <4> QED BY <4>1, <4>2, <3>6, <2>5 DEF EntryOK
    <3>7. ASSUME NEW j \in Slots(entries), entries'[j].active
          PROVE \/ status[entries'[j].fn] = "armed"
                \/ ~entries'[j].repeat /\ entries'[j].fn \in Running'
      <4>1. entries'[j] = entries[j] /\ entries[j].fn # t BY <3>7, <3>6
      <4> QED BY <4>1, <3>5, <3>7, <2>2 DEF Proper
    <3>8. calls[t] > 0 BY <1>1, <1>3 DEF IInv, TableOK, FrameOK, top, t
    <3>9. ASSUME NEW u \in Timers, status[u] = "armed" PROVE Holds(u)'
      <4>1. Holds(u) /\ slot[u] \in Slots(entries)
        BY <3>9, <2>2 DEF Proper, IInv, TableOK, OwnerOK
      <4>2. slot[u] # k
        <5>1. SUFFICES ASSUME slot[u] = k PROVE FALSE OBVIOUS
        <5>2. u = t BY <4>1, <5>1, <2>3 DEF Holds
        <5>3. status[t] = "fired" BY <2>3, <2>4, <2>7, <3>8 DEF EntryOK
        <5> QED BY <3>9, <5>2, <5>3
      <4>3. entries'[slot[u]] = entries[slot[u]] BY <4>1, <4>2, <1>8
      <4> QED BY <4>1, <4>3, <1>1 DEF Holds
    <3>10. ASSUME NEW j \in 1..Len(stack)
           PROVE  /\ ~stack'[j].dangling
                  /\ stack'[j].running # NoFn =>
                       /\ entries'[stack'[j].at].active
                       /\ entries'[stack'[j].at].fn = stack'[j].running
      <4>1. CASE j = Len(stack) BY <4>1, <1>5, <1>9
      <4>2. CASE j # Len(stack)
        <5>1. stack'[j] = stack[j] /\ stack[j].running # t /\ ~stack[j].dangling
          BY <4>2, <2>2, <3>4, <1>9 DEF Proper
        <5>2. SUFFICES ASSUME stack[j].running # NoFn
                       PROVE  /\ entries'[stack[j].at].active
                              /\ entries'[stack[j].at].fn = stack[j].running
          BY <5>1
        <5>3. entries[stack[j].at].active /\ entries[stack[j].at].fn = stack[j].running
          BY <2>2, <5>2 DEF Proper
        <5>4. stack[j].at \in Slots(entries) BY <5>2 DEF IInv, TableOK, FrameOK
        <5>5. stack[j].at # k BY <5>1, <5>3, <2>3
        <5> QED BY <5>3, <5>4, <5>5, <1>8
      <4> QED BY <4>1, <4>2
    <3>11. ASSUME NEW i \in 1..Len(stack), NEW j \in 1..Len(stack), i # j,
                  stack'[i].running = stack'[j].running, stack'[i].running # NoFn
           PROVE  asked'[stack'[i].running].repeat
      <4>1. i # Len(stack) /\ j # Len(stack) BY <3>11, <1>5, <1>9
      <4>2. stack'[i] = stack[i] /\ stack'[j] = stack[j] BY <4>1, <1>9
      <4> QED BY <4>2, <2>2, <3>11, <1>1 DEF Proper
    <3> QED BY <3>7, <3>9, <3>10, <3>11, <1>1, <1>8, <1>9 DEF Proper
  <2> QED BY <2>6, <2>7
<1> QED BY <1>8, <1>10, <1>11, <1>12, <1>13 DEF IInv

\* The invariant is one of Timer, whatever callers do with its table.
THEOREM Inductive == SafeSpec => []IInv
<1>1. Init => IInv BY InitKeeps
<1>2. IInv /\ [Next]_vars => IInv'
  <2> SUFFICES ASSUME IInv, [Next]_vars PROVE IInv' OBVIOUS
  <2>1. CASE Tick BY <2>1, TickKeeps
  <2>2. ASSUME NEW t \in Timers, NEW interval \in Intervals, NEW repeat \in BOOLEAN,
               Add(t, interval, repeat) \/ AddGrow(t, interval, repeat)
        PROVE  IInv'
    BY <2>2, AddKeeps, AddGrowKeeps
  <2>3. ASSUME NEW t \in Timers, AddFails(t) \/ Clear(t) PROVE IInv'
    BY <2>3, AddFailsKeeps, ClearKeeps
  <2>4. CASE HandleTimers BY <2>4, HandleTimersKeeps
  <2>5. CASE Loop BY <2>5, FinishKeeps, SkipKeeps, CallKeeps DEF Loop
  <2>6. CASE Return BY <2>6, ReturnKeeps
  <2>7. CASE UNCHANGED vars
    <3>1. stack' = stack /\ UNCHANGED <<table, clock, owners, history, misused>>
      BY <2>7 DEF vars
    <3>2. SameCallbacks BY <3>1 DEF SameCallbacks, IInv, TypeOK, Frame
    <3> QED BY <3>1, <3>2, WalkKeeps
  <2> QED BY <2>1, <2>2, <2>3, <2>4, <2>5, <2>6, <2>7 DEF Next
<1> QED BY <1>1, <1>2, PTL DEF SafeSpec

\* Every variable keeps its type.
THEOREM TimerTypeCorrect == SafeSpec => []TypeOK
<1>1. IInv => TypeOK BY DEF IInv
<1> QED BY <1>1, Inductive, PTL

\* The count of free slots is exact, armed timers keep their slots, no slot leaks
\* and a one-shot is called once.
THEOREM TableStaysSound == SafeSpec => []TableSound
<1>1. IInv => TableSound BY DEF IInv, TableSound, Proper, ArmedStay, NoLeak
<1> QED BY <1>1, Inductive, PTL

\* What is ripe in arithmetic modulo W was asked for that long ago.
THEOREM NeverCalledEarly == SafeSpec => NeverEarly
<1> USE TimerTableAssumption, TimerAssumption
<1>1. ASSUME IInv, [Next]_vars, NEW u \in Timers, calls'[u] # calls[u]
      PROVE  ticks - since[u] >= asked[u].interval
  <2>1. calls' # calls BY <1>1
  <2>2. Call
    <3>1. ~UNCHANGED vars BY <2>1 DEF vars, history
    <3>2. ~Tick /\ ~HandleTimers /\ ~Finish /\ ~Skip /\ ~Return
      BY <2>1 DEF Tick, HandleTimers, Finish, Skip, Return, history
    <3>3. \A t \in Timers : ~AddFails(t) /\ ~Clear(t)
      BY <2>1 DEF AddFails, Clear, history
    <3>4. \A t \in Timers, interval \in Intervals, repeat \in BOOLEAN :
            ~Add(t, interval, repeat) /\ ~AddGrow(t, interval, repeat)
      BY <2>1 DEF Add, AddGrow
    <3> QED BY <1>1, <3>1, <3>2, <3>3, <3>4 DEF Next, Loop
  <2>3. calls' = [calls EXCEPT ![entries[top.at].fn] = @ + 1] BY <2>2 DEF Call
  <2>4. calls \in [Timers -> Nat] BY <1>1 DEF IInv, TypeOK
  <2>5. u = entries[top.at].fn BY <1>1, <2>3, <2>4
  <2> QED BY <1>1, <2>2, <2>5, CallDue
<1>2. IInv /\ [Next]_vars =>
        [\A t \in Timers : calls'[t] # calls[t]
          => ticks - since[t] >= asked[t].interval]_vars
  BY <1>1
<1> QED BY <1>2, Inductive, PTL DEF SafeSpec, NeverEarly
=============================================================================
