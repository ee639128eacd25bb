-------------------------- MODULE BootstrapProofs --------------------------
(***************************************************************************)
(* Proofs about the two parts of Bootstrap, which have nothing in common   *)
(* but its loop: Storage, for any delays, any table that is large enough   *)
(* and power that fails anywhere, and Connection, for any intervals and    *)
(* timeouts and however the callbacks fall between the main loop's steps.  *)
(***************************************************************************)
EXTENDS Storage, Connection, Integers, FiniteSetTheorems, 
        SequenceTheorems, WellFoundedInduction, TLAPS

(***************************************************************************)
(* Storage.                                                                *)
(***************************************************************************)
Entry == [active : BOOLEAN, repeat : BOOLEAN,
          fn : {"service", "commit", "restart", NoFn},
          interval : Nat, created : 0..(W - 1)]

\* The slots whose timers will reboot.
Reboots == {k \in 1..Amount : entries[k].active /\ entries[k].fn = "restart"}

\* The service loop's timer is the first one; a commit hangs on the slot that
\* _save_timer_id names; and there are no more restarts than were called for.
TableOK ==
  /\ saveTimer # 1
  /\ entries[1].active /\ entries[1].fn = "service" /\ entries[1].repeat
  /\ \A k \in 1..Amount : entries[k].active =>
       \/ entries[k].fn = "service" /\ k = 1
       \/ entries[k].fn = "commit" /\ k = saveTimer /\ ~entries[k].repeat
       \/ entries[k].fn = "restart" /\ ~entries[k].repeat /\ k # 1
  /\ Cardinality(Reboots) <= restarts
  /\ inside => at = 1

\* A promise hangs on a timer that is as old as it is, and that is not late.
PromiseTimed ==
  promised # None =>
    /\ restarting = None
    /\ saveTimer # 0 /\ entries[saveTimer].active /\ entries[saveTimer].fn = "commit"
    /\ entries[saveTimer].interval = SaveInterval
    /\ Age(entries[saveTimer]) = promised
    /\ promised <= SaveInterval + Late

\* Until a restart, a timer is pending for a promise only.
PromiseOK == PromiseTimed /\ (restarting = None /\ saveTimer # 0 => promised # None)

StorageIInv == StorageTypeOK /\ TableOK /\ PromiseOK

\* A set of natural numbers has a least one.
LEMMA LeastElement ==
  ASSUME NEW T \in SUBSET Nat, T # {}
  PROVE  \E x \in T : \A y \in T : x <= y
<1> DEFINE R == {ss \in Nat \X Nat : ss[1] < ss[2]}
<1>1. IsWellFoundedOn(R, Nat) BY NatLessThanWellFounded DEF OpToRel
<1>2. \A x, y \in Nat : x < y => <<x, y>> \in R OBVIOUS
<1> HIDE DEF R
<1>3. PICK x \in T : \A y \in T : ~(<<y, x>> \in R) BY <1>1, WFMin
<1>4. ASSUME NEW y \in T PROVE x <= y
  <2>1. x \in Nat /\ y \in Nat OBVIOUS
  <2>2. ~(y < x) BY <1>2, <1>3, <2>1
  <2> QED BY <2>1, <2>2
<1> QED BY <1>4

\* What _add's loop finds, if anything is free.
LEMMA FirstFreeFacts ==
  ASSUME NEW e, NEW n \in Nat, Slots(e) = 1..n, FreeSlots(e) # {}
  PROVE  /\ FirstFree(e) \in 1..n /\ ~e[FirstFree(e)].active
         /\ \A j \in FreeSlots(e) : FirstFree(e) <= j
<1>1. FreeSlots(e) \in SUBSET Nat BY DEF FreeSlots
<1>2. \E k \in FreeSlots(e) : \A j \in FreeSlots(e) : k <= j BY <1>1, LeastElement
<1>3. FirstFree(e) \in FreeSlots(e) /\ \A j \in FreeSlots(e) : FirstFree(e) <= j
  BY <1>2 DEF FirstFree
<1> QED BY <1>3 DEF FreeSlots

\* Below the modulus a number is its own remainder, and below its double the
\* remainder is the difference.
LEMMA ModOnce ==
  ASSUME NEW a \in Nat, NEW b \in Nat \ {0}, a < b + b
  PROVE  a % b = IF a < b THEN a ELSE a - b
BY SMT

\* The time gone by since a moment, while millis() wraps once at most; it grows
\* with the clock, and is zero at first.
LEMMA AgeFacts ==
  ASSUME NEW n \in 0..(W - 1), NEW c \in 0..(W - 1)
  PROVE  /\ (n + W - c) % W = IF n >= c THEN n - c ELSE n + W - c
         /\ (n + W - n) % W = 0
         /\ (n + 1) % W \in 0..(W - 1)
         /\ (n + W - c) % W < W - 1
              => (((n + 1) % W) + W - c) % W = ((n + W - c) % W) + 1
<1> USE TimerTableAssumption
<1> DEFINE a == n + W - c
           m == (n + 1) % W
<1>1. a \in Nat /\ a < W + W OBVIOUS
<1>2. a % W = IF n >= c THEN n - c ELSE n + W - c
  <2>1. a % W = IF a < W THEN a ELSE a - W
    <3> HIDE DEF a
    <3> QED BY <1>1, ModOnce
  <2> QED BY <2>1
<1>3. (n + W - n) % W = 0
  <2>1. n + W - n = W OBVIOUS
  <2>2. W % W = 0 BY ModOnce
  <2> QED BY <2>1, <2>2
<1>4. m = (IF n + 1 < W THEN n + 1 ELSE 0)
  <2> DEFINE b == n + 1
  <2>1. b \in Nat /\ b < W + W /\ b <= W OBVIOUS
  <2>2. b % W = IF b < W THEN b ELSE b - W
    <3> HIDE DEF b
    <3> QED BY <2>1, ModOnce
  <2> QED BY <2>1, <2>2
<1>5. m \in 0..(W - 1) BY <1>4
<1>6. (m + W - c) % W = IF m >= c THEN m - c ELSE m + W - c
  <2> DEFINE b == m + W - c
  <2>1. b \in Nat /\ b < W + W BY <1>5
  <2>2. b % W = IF b < W THEN b ELSE b - W
    <3> HIDE DEF b
    <3> QED BY <2>1, ModOnce
  <2> HIDE DEF m
  <2> QED BY <1>5, <2>2
<1> HIDE DEF m
<1> QED BY <1>2, <1>3, <1>4, <1>5, <1>6 DEF m

\* The table's length does not change.
LEMMA TableLen ==
  ASSUME NEW E, NEW e \in [1..Amount -> E]
  PROVE  Len(e) = Amount /\ Slots(e) = 1..Amount
<1>1. e \in Seq(E) BY TimerTableAssumption, SeqDef
<1>2. Len(e) \in Nat /\ DOMAIN e = 1..Len(e) BY <1>1, LenProperties
<1>3. 1..Len(e) = 1..Amount BY <1>2
<1>4. Len(e) = Amount BY <1>2, <1>3, TimerTableAssumption
<1> QED BY <1>4 DEF Slots

\* A table whose timers are the service loop's and those of fewer reboots than
\* it has other slots has a slot to spare.
LEMMA SlotToSpare ==
  ASSUME NEW e \in [1..Amount -> Entry], NEW R, IsFiniteSet(R),
         Cardinality(R) + 1 < Amount,
         \A k \in 1..Amount : e[k].active => k \in R \cup {1}
  PROVE  /\ FirstFree(e) \in 1..Amount /\ ~e[FirstFree(e)].active
         /\ \A j \in 1..Amount : ~e[j].active => FirstFree(e) <= j
<1>1. Slots(e) = 1..Amount /\ Len(e) = Amount BY TableLen
<1>2. IsFiniteSet(R \cup {1}) /\ Cardinality(R \cup {1}) <= Cardinality(R) + 1
  <2>1. Cardinality(R) \in Nat BY FS_CardinalityType
  <2>2. CASE 1 \in R
    <3>1. R \cup {1} = R BY <2>2
    <3>2. IsFiniteSet(R \cup {1}) /\ Cardinality(R \cup {1}) = Cardinality(R)
      BY <3>1, Zenon
    <3> QED BY <3>2, <2>1
  <2>3. CASE 1 \notin R
    <3>1. IsFiniteSet(R \cup {1}) BY FS_AddElement
    <3>2. Cardinality(R \cup {1}) = Cardinality(R) + 1 BY <2>3, FS_AddElement
    <3> QED BY <3>1, <3>2, <2>1
  <2> QED BY <2>2, <2>3
<1>3. FreeSlots(e) # {}
  <2>1. SUFFICES ASSUME FreeSlots(e) = {} PROVE FALSE OBVIOUS
  <2>2. 1..Amount \subseteq R \cup {1} BY <2>1, <1>1 DEF FreeSlots
  <2>3. Cardinality(1..Amount) <= Cardinality(R \cup {1}) BY <2>2, <1>2, FS_Subset
  <2>4. Cardinality(1..Amount) = Amount
    <3>1. Cardinality(1..Amount) = IF 1 > Amount THEN 0 ELSE Amount - 1 + 1
      BY TimerTableAssumption, FS_Interval
    <3> QED BY <3>1, TimerTableAssumption
  <2>5. Cardinality(R \cup {1}) \in Nat /\ Cardinality(R) \in Nat
    BY <1>2, FS_CardinalityType
  <2> QED BY <1>2, <2>3, <2>4, <2>5, TimerTableAssumption
<1>4. Amount \in Nat BY TimerTableAssumption
<1>5. /\ FirstFree(e) \in 1..Amount /\ ~e[FirstFree(e)].active
      /\ \A j \in FreeSlots(e) : FirstFree(e) <= j
  BY <1>1, <1>3, <1>4, FirstFreeFacts
<1> QED BY <1>1, <1>5 DEF FreeSlots

\* The table of begin() holds the service loop's timer, in the first slot.
LEMMA FirstTable ==
  /\ Grown(<<>>) = [k \in 1..Amount |-> Blank]
  /\ FirstFree(Grown(<<>>)) = 1
<1> DEFINE b == [k \in 1..Amount |-> Blank]
<1>1. Blank \in Entry
  BY TimerTableAssumption DEF Blank, Entry
<1>2. b \in [1..Amount -> Entry] BY <1>1
<1>3. b \in Seq(Entry) BY <1>2, TimerTableAssumption, SeqDef
<1>4. Grown(<<>>) = b
  <2> HIDE DEF b
  <2>1. <<>> \o b = b BY <1>3, ConcatEmptySeq
  <2> QED BY <2>1 DEF Grown, b
<1>5. \A k \in 1..Amount : ~b[k].active BY DEF Blank
<1>6. FreeSlots(b) = 1..Amount /\ Slots(b) = 1..Amount
  <2>1. Slots(b) = 1..Amount BY <1>2, TableLen
  <2> QED BY <1>5, <2>1 DEF FreeSlots
<1>7. 1 \in FreeSlots(b) BY <1>6, TimerTableAssumption
<1>8. FirstFree(b) \in 1..Amount /\ \A j \in FreeSlots(b) : FirstFree(b) <= j
  <2> HIDE DEF b
  <2> QED BY <1>6, <1>7, FirstFreeFacts, TimerTableAssumption
<1>9. FirstFree(b) = 1
  <2> DEFINE f == FirstFree(b)
  <2>1. f \in 1..Amount /\ f <= 1 BY <1>7, <1>8
  <2> HIDE DEF f
  <2>2. f = 1 BY <2>1, TimerTableAssumption
  <2> QED BY <2>2 DEF f
<1> QED BY <1>4, <1>9

\* A reboot finds a whole configuration and starts with the service loop's timer.
LEMMA BootKeeps ==
  ASSUME StorageIInv, NEW f \in Values \cup {Absent, Torn}, Boot(f),
         crashes' \in 0..MaxCrashes, saved' \in SUBSET Values
  PROVE  StorageIInv'
<1> USE StorageAssumption, TimerTableAssumption
<1> DEFINE e == Active("service", ServiceInterval, TRUE, now)
           b == [k \in 1..Amount |-> Blank]
<1>1. now \in 0..(W - 1) BY DEF StorageIInv, StorageTypeOK
<1>2. e \in Entry /\ e.active /\ e.fn = "service" /\ e.repeat
  BY <1>1 DEF Active, Entry
<1>3. Blank \in Entry /\ ~Blank.active BY DEF Blank, Entry
<1>4. entries' = [b EXCEPT ![1] = e] BY FirstTable DEF Boot, Armed
<1>5. entries' \in [1..Amount -> Entry] BY <1>2, <1>3, <1>4
<1>6. entries'[1] = e /\ \A k \in 1..Amount : k # 1 => ~entries'[k].active
  <2> HIDE DEF e
  <2> QED BY <1>3, <1>4
<1> HIDE DEF e, b
<1>7. StorageTypeOK'
  <2>1. file' \in Values \cup {Absent, Torn} /\ data' \in Values BY DEF Boot, Loaded
  <2>2. at' \in 0..Amount /\ saveTimer' \in 0..Amount BY DEF Boot
  <2>6. inside' \in BOOLEAN BY DEF Boot
  <2>3. promised' \in Ages /\ restarting' \in Ages BY DEF Boot, Ages
  <2>4. restarts' \in 0..MaxRestarts /\ crashes' \in 0..MaxCrashes BY DEF Boot
  <2>5. now' \in 0..(W - 1) BY <1>1 DEF Boot
  <2> QED BY <1>5, <2>1, <2>2, <2>3, <2>4, <2>5, <2>6 DEF StorageTypeOK, Entry
<1>8. TableOK'
  <2>1. Reboots' = {}
    <3>1. SUFFICES ASSUME NEW k \in 1..Amount, entries'[k].active,
                          entries'[k].fn = "restart"
                   PROVE FALSE
      BY DEF Reboots
    <3> QED BY <3>1, <1>2, <1>6
  <2>2. Cardinality(Reboots') = 0 BY <2>1, FS_EmptySet
  <2>3. \A k \in 1..Amount : entries'[k].active => k = 1 BY <1>6
  <2>4. Cardinality(Reboots)' <= restarts' BY <2>2 DEF Boot
  <2>5. entries'[1].active /\ entries'[1].fn = "service" /\ entries'[1].repeat
    BY <1>2, <1>6
  <2>6. saveTimer' # 1 /\ ~inside' BY DEF Boot
  <2> QED BY <2>3, <2>4, <2>5, <2>6 DEF TableOK
<1>9. PromiseOK' BY DEF Boot, PromiseOK, PromiseTimed
<1> QED BY <1>7, <1>8, <1>9 DEF StorageIInv

\* A boot on a flash that holds anything satisfies the invariant.
THEOREM StorageInit == Init => StorageIInv
<1> USE StorageAssumption, TimerTableAssumption
<1> SUFFICES ASSUME Init PROVE StorageIInv OBVIOUS
<1> DEFINE e == Active("service", ServiceInterval, TRUE, now)
           b == [k \in 1..Amount |-> Blank]
<1>1. now \in 0..(W - 1) BY DEF Init
<1>2. e \in Entry /\ e.active /\ e.fn = "service" /\ e.repeat
  BY <1>1 DEF Active, Entry
<1>3. Blank \in Entry /\ ~Blank.active BY DEF Blank, Entry
<1>4. entries = [b EXCEPT ![1] = e] BY FirstTable DEF Init, Armed
<1>5. entries \in [1..Amount -> Entry] BY <1>2, <1>3, <1>4
<1>6. entries[1] = e /\ \A k \in 1..Amount : k # 1 => ~entries[k].active
  <2> HIDE DEF e
  <2> QED BY <1>3, <1>4
<1> HIDE DEF e, b
<1>7. StorageTypeOK
  <2>1. file \in Values \cup {Absent, Torn} /\ data \in Values BY DEF Init, Loaded
  <2>2. at \in 0..Amount /\ saveTimer \in 0..Amount BY DEF Init
  <2>6. inside \in BOOLEAN BY DEF Init
  <2>3. promised \in Ages /\ restarting \in Ages BY DEF Init, Ages
  <2>4. restarts \in 0..MaxRestarts /\ crashes \in 0..MaxCrashes BY DEF Init
  <2>5. now \in 0..(W - 1) BY <1>1 DEF Init
  <2>7. saved \in SUBSET Values BY DEF Init
  <2> QED BY <1>5, <2>1, <2>2, <2>3, <2>4, <2>5, <2>6, <2>7 DEF StorageTypeOK, Entry
<1>8. TableOK
  <2>1. Reboots = {} BY <1>2, <1>6 DEF Reboots
  <2>2. Cardinality(Reboots) = 0 BY <2>1, FS_EmptySet
  <2>3. \A k \in 1..Amount : entries[k].active => k = 1 BY <1>6
  <2>4. Cardinality(Reboots) <= restarts BY <2>2 DEF Init
  <2>5. entries[1].active /\ entries[1].fn = "service" /\ entries[1].repeat
    BY <1>2, <1>6
  <2>6. saveTimer # 1 /\ ~inside BY DEF Init
  <2> QED BY <2>3, <2>4, <2>5, <2>6 DEF TableOK
<1>9. PromiseOK BY DEF Init, PromiseOK, PromiseTimed
<1> QED BY <1>7, <1>8, <1>9 DEF StorageIInv

\* The timers that will reboot can be counted.
LEMMA RebootsFinite == IsFiniteSet(Reboots) /\ Cardinality(Reboots) \in Nat
<1>1. IsFiniteSet(1..Amount) BY TimerTableAssumption, FS_Interval
<1>2. IsFiniteSet(Reboots) BY <1>1, FS_Subset DEF Reboots
<1> QED BY <1>2, FS_CardinalityType

\* A step that leaves the table and its owners alone leaves the table sound.
LEMMA SameTable ==
  ASSUME StorageIInv, UNCHANGED <<entries, saveTimer, restarts>>, inside' => at' = 1
  PROVE  TableOK'
<1>1. Reboots' = Reboots BY DEF Reboots
<1> QED BY <1>1 DEF StorageIInv, TableOK

\* Time passes while no timer is later than Late: the promise grows as old as the
\* timer that it hangs on.
LEMMA TickKeeps == ASSUME StorageIInv, Tick PROVE StorageIInv'
<1> USE StorageAssumption, TimerTableAssumption
<1>1. now \in 0..(W - 1) /\ entries \in [1..Amount -> Entry] /\ now' = (now + 1) % W
  BY DEF StorageIInv, StorageTypeOK, Entry, Tick
<1>2. now' \in 0..(W - 1)
  <2>1. (now + 1) % W \in 0..(W - 1) BY <1>1, AgeFacts
  <2> QED BY <1>1, <2>1
<1>3. TableOK' BY SameTable DEF Tick, timing, counts, StorageIInv, TableOK
<1>4. ASSUME promised # None
      PROVE  /\ promised \in 0..(SaveInterval + Late) /\ promised < SaveInterval + Late
             /\ promised' = promised + 1
             /\ Age(entries[saveTimer])' = promised + 1
             /\ restarting' = None
  <2> DEFINE c == entries[saveTimer].created
  <2>1. /\ saveTimer \in Slots(entries) /\ entries[saveTimer] \in Entry
        /\ entries[saveTimer].active
    <3>1. saveTimer \in 1..Amount /\ entries[saveTimer].active
      BY <1>4 DEF StorageIInv, StorageTypeOK, PromiseOK, PromiseTimed
    <3>2. Slots(entries) = 1..Amount BY <1>1, TableLen
    <3> QED BY <3>1, <3>2, <1>1
  <2>2. c \in 0..(W - 1) BY <2>1 DEF Entry
  <2>3. Age(entries[saveTimer]) = promised /\ entries[saveTimer].interval = SaveInterval
    BY <1>4 DEF StorageIInv, PromiseOK, PromiseTimed
  <2>4. promised < SaveInterval + Late BY <2>1, <2>3 DEF Tick
  <2>5. promised \in Nat /\ promised \in 0..W
    BY <1>4 DEF StorageIInv, StorageTypeOK, Ages
  <2>6. promised # W /\ promised < W - 1 BY <2>4, <2>5 DEF Never
  <2>7. promised' = promised + 1 BY <1>4, <2>6 DEF Tick, Older
  <2>8. (now + W - c) % W = promised BY <2>3 DEF Age
  <2>9. (((now + 1) % W) + W - c) % W = promised + 1
    <3> HIDE DEF c
    <3> QED BY <1>1, <2>2, <2>6, <2>8, AgeFacts
  <2>10. Age(entries[saveTimer])' = promised + 1
    BY <2>9 DEF Age, Tick
  <2>11. restarting' = None
    BY <1>4 DEF StorageIInv, PromiseOK, PromiseTimed, Tick, Older
  <2>12. promised \in 0..(SaveInterval + Late)
    <3> HIDE DEF c
    <3> QED BY <2>4, <2>5
  <2> QED BY <2>4, <2>7, <2>10, <2>11, <2>12
<1>5. promised' \in Ages /\ restarting' \in Ages
  <2>1. ASSUME NEW a \in Ages PROVE Older(a) \in Ages
    BY <2>1 DEF Ages, Older
  <2> QED BY <2>1 DEF Tick, StorageIInv, StorageTypeOK
<1>6. StorageTypeOK' BY <1>2, <1>5 DEF Tick, counts, StorageIInv, StorageTypeOK
<1>7. promised' # None => promised # None BY DEF Tick, Older
<1>8. restarting' = None => restarting = None
  BY DEF Tick, Older, StorageIInv, StorageTypeOK, Ages
<1>9. PromiseTimed'
  <2>1. SUFFICES ASSUME promised' # None PROVE PromiseTimed' BY DEF PromiseTimed
  <2>2. promised # None BY <2>1, <1>7
  <2>3. promised' <= SaveInterval + Late BY <2>2, <1>4
  <2>4. Age(entries[saveTimer])' = promised' BY <2>2, <1>4
  <2>5. /\ saveTimer' # 0 /\ entries'[saveTimer'].active
        /\ entries'[saveTimer'].fn = "commit"
        /\ entries'[saveTimer'].interval = SaveInterval
    BY <2>2 DEF StorageIInv, PromiseOK, PromiseTimed, Tick
  <2> QED BY <2>2, <2>3, <2>4, <2>5, <1>4 DEF PromiseTimed
<1>10. restarting' = None /\ saveTimer' # 0 => promised' # None
  <2>1. SUFFICES ASSUME restarting' = None, saveTimer' # 0
                 PROVE promised' # None OBVIOUS
  <2>2. promised # None BY <2>1, <1>8 DEF StorageIInv, PromiseOK, Tick
  <2> QED BY <2>2, <1>4
<1> QED BY <1>3, <1>6, <1>9, <1>10 DEF StorageIInv, PromiseOK

\* A setting is changed without a call of save_changes.
LEMMA ChangeKeeps == ASSUME StorageIInv, NEW v \in Values, Change(v) PROVE StorageIInv'
<1>1. TableOK' BY SameTable DEF Change, timing, counts, StorageIInv, TableOK
<1>2. StorageTypeOK'
  <2>1. saved' \in SUBSET Values BY DEF Change, StorageIInv, StorageTypeOK
  <2> QED BY <2>1 DEF Change, timing, counts, StorageIInv, StorageTypeOK
<1>3. PromiseOK'
  BY DEF Change, timing, counts, StorageIInv, PromiseOK, PromiseTimed, Age
<1> QED BY <1>1, <1>2, <1>3 DEF StorageIInv

\* save_changes() puts the commit into a free slot, or relies on the one it
\* finds, which then is that of an earlier promise unless a restart is under way.
LEMMA SaveChangesKeeps == ASSUME StorageIInv, SaveChanges PROVE StorageIInv'
<1> USE StorageAssumption, TimerTableAssumption
<1> DEFINE f == FirstFree(entries)
           c == Active("commit", SaveInterval, FALSE, now)
<1>1. /\ now \in 0..(W - 1) /\ entries \in [1..Amount -> Entry]
      /\ restarts \in 0..MaxRestarts
  BY DEF StorageIInv, StorageTypeOK, Entry
<1>2. c \in Entry /\ c.active /\ c.fn = "commit" /\ ~c.repeat /\ c.created = now
      /\ c.interval = SaveInterval
  BY <1>1 DEF Active, Entry
<1>3. /\ promised' \in Ages /\ saved' \in SUBSET Values
      /\ UNCHANGED <<now, at, inside, data, file, restarting, counts>>
  BY DEF SaveChanges, Promise, StorageIInv, StorageTypeOK, Ages
<1>4. restarting # None => promised = None BY DEF StorageIInv, PromiseOK, PromiseTimed
<1>5. restarting = None => promised' # None
  BY DEF SaveChanges, Promise, StorageIInv, StorageTypeOK
<1>6. CASE saveTimer = 0
  <2>1. promised = None BY <1>6 DEF StorageIInv, PromiseOK, PromiseTimed
  <2>2. f \in 1..Amount /\ ~entries[f].active
    <3>1. \A k \in 1..Amount : entries[k].active => k \in Reboots \cup {1}
      BY <1>6 DEF StorageIInv, TableOK, Reboots
    <3>2. Cardinality(Reboots) + 1 < Amount
      <4>1. Cardinality(Reboots) <= restarts BY DEF StorageIInv, TableOK
      <4>2. Cardinality(Reboots) \in Nat BY RebootsFinite
      <4> QED BY <4>1, <4>2, <1>1
    <3> QED BY <1>1, <3>1, <3>2, RebootsFinite, SlotToSpare
  <2>3. entries' = [entries EXCEPT ![f] = c] /\ saveTimer' = f
    BY <1>6 DEF SaveChanges, Save, Cleared, Armed
  <2>4. f # 1 BY <2>2 DEF StorageIInv, TableOK
  <2> HIDE DEF f, c
  <2>5. entries' \in [1..Amount -> Entry] BY <1>1, <1>2, <2>2, <2>3
  <2>6. entries'[f] = c /\ \A k \in 1..Amount : k # f => entries'[k] = entries[k]
    BY <1>1, <2>2, <2>3
  <2>7. StorageTypeOK'
    <3>1. saveTimer' \in 0..Amount BY <2>2, <2>3
    <3>2. UNCHANGED <<now, at, inside, data, file, restarting, restarts, crashes>>
      BY <1>3 DEF counts
    <3> QED BY <1>3, <2>5, <3>1, <3>2 DEF StorageIInv, StorageTypeOK, Entry
  <2>8. TableOK'
    <3>1. Reboots' = Reboots
      <4>1. ASSUME NEW k \in 1..Amount
            PROVE  (entries'[k].active /\ entries'[k].fn = "restart")
                     <=> (entries[k].active /\ entries[k].fn = "restart")
        BY <1>2, <2>2, <2>6
      <4> QED BY <4>1 DEF Reboots
    <3>2. ASSUME NEW k \in 1..Amount, entries'[k].active
          PROVE \/ entries'[k].fn = "service" /\ k = 1
                \/ entries'[k].fn = "commit" /\ k = saveTimer' /\ ~entries'[k].repeat
                \/ entries'[k].fn = "restart" /\ ~entries'[k].repeat /\ k # 1
      <4>1. CASE k = f BY <4>1, <1>2, <2>3, <2>6
      <4>2. CASE k # f
        <5>1. entries[k].active /\ entries'[k] = entries[k] BY <3>2, <4>2, <2>6
        <5>2. k # saveTimer BY <1>6
        <5> QED BY <5>1, <5>2 DEF StorageIInv, TableOK
      <4> QED BY <4>1, <4>2
    <3>3. entries'[1] = entries[1] BY <2>4, <2>6
    <3>4. Cardinality(Reboots)' <= restarts'
      BY <3>1, <1>3 DEF counts, StorageIInv, TableOK
    <3>5. inside' => at' = 1 BY <1>3 DEF StorageIInv, TableOK
    <3>6. saveTimer' # 1 BY <2>3, <2>4
    <3> QED BY <3>2, <3>3, <3>4, <3>5, <3>6 DEF StorageIInv, TableOK
  <2>9. PromiseOK'
    <3>1. SUFFICES ASSUME promised' # None PROVE PromiseTimed'
      BY <1>3, <1>5 DEF PromiseOK, PromiseTimed
    <3>2. promised' = 0 /\ restarting' = None
      BY <2>1, <3>1, <1>3 DEF SaveChanges, Promise
    <3>3. (now + W - now) % W = 0 BY <1>1, AgeFacts
    <3>4. Age(entries[saveTimer])' = 0 BY <1>2, <1>3, <2>3, <2>6, <3>3 DEF Age
    <3>5. saveTimer' # 0 BY <2>2, <2>3
    <3>6. entries'[saveTimer'] = c BY <2>3, <2>6
    <3>7. 0 <= SaveInterval + Late OBVIOUS
    <3> QED BY <1>2, <3>2, <3>4, <3>5, <3>6, <3>7 DEF PromiseTimed
  <2> QED BY <2>7, <2>8, <2>9 DEF StorageIInv
<1>7. CASE saveTimer # 0
  <2>1. UNCHANGED <<entries, saveTimer>> BY <1>7 DEF SaveChanges
  <2>2. promised' = promised BY <1>7 DEF SaveChanges, Promise, StorageIInv, PromiseOK
  <2>3. StorageTypeOK' BY <2>1, <2>2, <1>3 DEF counts, StorageIInv, StorageTypeOK
  <2>4. TableOK' BY <2>1, <1>3, SameTable DEF counts, StorageIInv, TableOK
  <2>5. PromiseOK' BY <2>1, <2>2, <1>3 DEF StorageIInv, PromiseOK, PromiseTimed, Age
  <2> QED BY <2>3, <2>4, <2>5 DEF StorageIInv
<1> QED BY <1>6, <1>7

\* restart() clears the commit's timer and arms one more that will reboot.
LEMMA RestartKeeps == ASSUME StorageIInv, Restart PROVE StorageIInv'
<1> USE StorageAssumption, TimerTableAssumption
<1> DEFINE e == Cleared(entries, saveTimer)
           f == FirstFree(e)
           c == Active("restart", RestartDelay, FALSE, now)
           R == {k \in 1..Amount : e[k].active /\ e[k].fn = "restart"}
<1>1. /\ now \in 0..(W - 1) /\ entries \in [1..Amount -> Entry]
      /\ restarts \in 0..MaxRestarts
      /\ saveTimer \in 0..Amount /\ restarts < MaxRestarts
  BY DEF StorageIInv, StorageTypeOK, Entry, Restart
<1>2. c \in Entry /\ c.active /\ c.fn = "restart" /\ ~c.repeat
  BY <1>1 DEF Active, Entry
<1>3. Blank \in Entry /\ ~Blank.active BY DEF Blank, Entry
<1>4. e \in [1..Amount -> Entry] BY <1>1, <1>3 DEF Cleared
<1>5. \A k \in 1..Amount : e[k] = IF k = saveTimer THEN Blank ELSE entries[k]
  BY <1>1 DEF Cleared
<1>6. entries' = [e EXCEPT ![f] = c] /\ restarts' = restarts + 1
      /\ UNCHANGED <<now, at, inside, saveTimer, data, crashes>>
  BY DEF Restart, Armed
<1> HIDE DEF e, c
<1>7. \A k \in 1..Amount : e[k].active =>
        \/ k = 1
        \/ e[k].fn = "restart" /\ ~e[k].repeat /\ k # 1
  BY <1>3, <1>5 DEF StorageIInv, TableOK
<1>8. R \subseteq Reboots BY <1>3, <1>5 DEF Reboots
<1>9. IsFiniteSet(R) /\ Cardinality(R) \in Nat /\ Cardinality(R) <= restarts
  <2>1. IsFiniteSet(R) /\ Cardinality(R) <= Cardinality(Reboots)
    BY <1>8, RebootsFinite, FS_Subset
  <2>2. Cardinality(R) \in Nat BY <2>1, FS_CardinalityType
  <2>3. Cardinality(Reboots) <= restarts BY DEF StorageIInv, TableOK
  <2> QED BY <2>1, <2>2, <2>3, RebootsFinite, <1>1
<1>10. f \in 1..Amount /\ ~e[f].active
  <2>1. Cardinality(R) + 1 < Amount BY <1>1, <1>9
  <2>2. \A k \in 1..Amount : e[k].active => k \in R \cup {1} BY <1>7
  <2> HIDE DEF R
  <2> QED BY <1>4, <1>9, <2>1, <2>2, SlotToSpare
<1>11. e[1] = entries[1] /\ f # 1 BY <1>5, <1>10 DEF StorageIInv, TableOK
<1> HIDE DEF f
<1>12. entries' \in [1..Amount -> Entry] BY <1>2, <1>4, <1>6, <1>10
<1>13. entries'[f] = c /\ \A k \in 1..Amount : k # f => entries'[k] = e[k]
  BY <1>4, <1>6, <1>10
<1>14. restarting' \in Ages /\ restarting' # None
  BY DEF Restart, StorageIInv, StorageTypeOK, Ages
<1>15. promised' = None
  BY DEF Restart, StorageIInv, PromiseOK, PromiseTimed
<1>16. file' \in Values \cup {Absent, Torn} /\ saved' \in SUBSET Values
  BY DEF Restart, Commit, StorageIInv, StorageTypeOK
<1>17. StorageTypeOK'
  <2>1. restarts' \in 0..MaxRestarts BY <1>1, <1>6
  <2>2. promised' \in Ages BY <1>15 DEF Ages
  <2> QED BY <1>6, <1>12, <1>14, <1>16, <2>1, <2>2 DEF StorageIInv, StorageTypeOK, Entry
<1>18. TableOK'
  <2>1. Reboots' \subseteq R \cup {f} BY <1>13 DEF Reboots
  <2>2. IsFiniteSet(R \cup {f}) /\ Cardinality(R \cup {f}) = Cardinality(R) + 1
    <3>1. f \notin R BY <1>10
    <3> HIDE DEF R
    <3> QED BY <1>9, <3>1, FS_AddElement
  <2>3. Cardinality(Reboots') <= Cardinality(R \cup {f}) /\ IsFiniteSet(Reboots')
    BY <2>1, <2>2, FS_Subset
  <2>4. Cardinality(Reboots') \in Nat BY <2>3, FS_CardinalityType
  <2>5. Cardinality(Reboots') <= restarts'
    <3> HIDE DEF R
    <3> QED BY <1>1, <1>6, <1>9, <2>2, <2>3, <2>4
  <2>6. ASSUME NEW k \in 1..Amount, entries'[k].active
        PROVE \/ entries'[k].fn = "service" /\ k = 1
              \/ entries'[k].fn = "restart" /\ ~entries'[k].repeat /\ k # 1
    <3>1. CASE k = f BY <3>1, <1>2, <1>11, <1>13
    <3>2. CASE k # f
      <4>1. e[k].active /\ entries'[k] = e[k] BY <2>6, <3>2, <1>13
      <4>2. CASE k = 1 BY <4>1, <4>2, <1>11 DEF StorageIInv, TableOK
      <4>3. CASE k # 1 BY <4>1, <4>3, <1>7
      <4> QED BY <4>2, <4>3
    <3> QED BY <3>1, <3>2
  <2>7. entries'[1] = entries[1] BY <1>11, <1>13
  <2>8. saveTimer' # 1 /\ (inside' => at' = 1) BY <1>6 DEF StorageIInv, TableOK
  <2> QED BY <2>5, <2>6, <2>7, <2>8 DEF StorageIInv, TableOK
<1>19. PromiseOK' BY <1>14, <1>15 DEF PromiseOK, PromiseTimed
<1> QED BY <1>17, <1>18, <1>19 DEF StorageIInv

\* The loop comes to the next slot, or to its end.
LEMMA AdvanceType == ASSUME StorageIInv, Advance PROVE at' \in 0..Amount
<1> USE TimerTableAssumption
<1>1. entries \in [1..Amount -> Entry] /\ at \in 0..Amount
  BY DEF StorageIInv, StorageTypeOK, Entry
<1>2. at' = (at + 1) % (Amount + 1) BY <1>1, TableLen DEF Advance
<1>3. \A a, b \in Nat : b # 0 => a % b \in 0..(b - 1) OBVIOUS
<1>4. (at + 1) % (Amount + 1) \in 0..(Amount + 1 - 1) BY <1>1, <1>3
<1> QED BY <1>2, <1>4

\* handle_timers passes a slot, whether nothing is due there or the service loop
\* has returned.
LEMMA WalkKeeps ==
  ASSUME StorageIInv, HandleTimers \/ Skip \/ EndService PROVE StorageIInv'
<1>1. /\ UNCHANGED <<now, entries, saveTimer, data, file, promised, saved, restarting, counts>>
      /\ inside' \in BOOLEAN
  BY DEF HandleTimers, Skip, EndService, StorageIInv, StorageTypeOK
<1>2. at' \in 0..Amount
  <2>1. CASE HandleTimers BY <2>1, TimerTableAssumption DEF HandleTimers
  <2>2. CASE Skip \/ EndService BY <2>2, AdvanceType DEF Skip, EndService
  <2> QED BY <2>1, <2>2
<1>3. inside' => at' = 1
  BY DEF HandleTimers, Skip, EndService, Looping
<1>4. StorageTypeOK' BY <1>1, <1>2 DEF counts, StorageIInv, StorageTypeOK
<1>5. TableOK' BY <1>1, <1>3, SameTable DEF counts
<1>6. PromiseOK' BY <1>1 DEF StorageIInv, PromiseOK, PromiseTimed, Age
<1> QED BY <1>4, <1>5, <1>6 DEF StorageIInv

\* The service loop's timer starts again; the others keep their ages.
LEMMA CallServiceKeeps == ASSUME StorageIInv, CallService PROVE StorageIInv'
<1> USE StorageAssumption, TimerTableAssumption
<1>1. now \in 0..(W - 1) /\ entries \in [1..Amount -> Entry] /\ at \in 1..Amount
  <2>1. now \in 0..(W - 1) /\ entries \in [1..Amount -> Entry] /\ at \in 0..Amount
    BY DEF StorageIInv, StorageTypeOK, Entry
  <2>2. at # 0 BY DEF CallService, Calls, Looping
  <2> QED BY <2>1, <2>2
<1>2. at = 1 BY <1>1 DEF CallService, Calls, Ripe, StorageIInv, TableOK
<1>3. entries' = [entries EXCEPT ![1] = [entries[1] EXCEPT !.created = now]]
  BY <1>2 DEF CallService, Started, StorageIInv, TableOK
<1>4. /\ entries' \in [1..Amount -> Entry]
      /\ \A k \in 1..Amount : k # 1 => entries'[k] = entries[k]
  BY <1>1, <1>3 DEF Entry
<1>5. entries'[1].active /\ entries'[1].fn = "service" /\ entries'[1].repeat
  <2>1. entries'[1] = [entries[1] EXCEPT !.created = now]
    <3> DEFINE x == [entries[1] EXCEPT !.created = now]
    <3>1. entries' = [entries EXCEPT ![1] = x] BY <1>3
    <3> HIDE DEF x
    <3>2. 1 \in 1..Amount OBVIOUS
    <3>3. entries'[1] = x BY <1>1, <3>1, <3>2
    <3> QED BY <3>3 DEF x
  <2>2. entries[1] \in Entry BY <1>1
  <2> QED BY <2>1, <2>2 DEF StorageIInv, TableOK, Entry
<1>6. /\ UNCHANGED <<now, at, saveTimer, data, file, promised, saved, restarting, counts>>
      /\ inside' = TRUE
  BY DEF CallService
<1>7. StorageTypeOK'
  <2>1. inside' \in BOOLEAN BY <1>6
  <2> QED BY <1>4, <1>6, <2>1 DEF counts, StorageIInv, StorageTypeOK, Entry
<1>8. TableOK'
  <2>1. Reboots' = Reboots
    <3>1. ASSUME NEW k \in 1..Amount
          PROVE  (entries'[k].active /\ entries'[k].fn = "restart")
                   <=> (entries[k].active /\ entries[k].fn = "restart")
      BY <1>4, <1>5 DEF StorageIInv, TableOK
    <3> QED BY <3>1 DEF Reboots
  <2>2. ASSUME NEW k \in 1..Amount, entries'[k].active
        PROVE \/ entries'[k].fn = "service" /\ k = 1
              \/ entries'[k].fn = "commit" /\ k = saveTimer' /\ ~entries'[k].repeat
              \/ entries'[k].fn = "restart" /\ ~entries'[k].repeat /\ k # 1
    <3>1. CASE k = 1 BY <3>1, <1>5
    <3>2. CASE k # 1
      <4>1. entries[k].active /\ entries'[k] = entries[k] BY <2>2, <3>2, <1>4
      <4>2. saveTimer' = saveTimer BY <1>6
      <4> QED BY <4>1, <4>2, <3>2 DEF StorageIInv, TableOK
    <3> QED BY <3>1, <3>2
  <2>3. Cardinality(Reboots)' <= restarts'
    BY <2>1, <1>6 DEF counts, StorageIInv, TableOK
  <2>4. saveTimer' # 1 /\ at' = 1 BY <1>2, <1>6 DEF StorageIInv, TableOK
  <2> QED BY <1>5, <2>2, <2>3, <2>4 DEF TableOK
<1>9. PromiseOK'
  <2>1. saveTimer \in 0..Amount /\ saveTimer # 1 BY DEF StorageIInv, StorageTypeOK, TableOK
  <2>2. saveTimer # 0 => entries'[saveTimer'] = entries[saveTimer] BY <1>4, <1>6, <2>1
  <2> QED BY <1>6, <2>2 DEF StorageIInv, PromiseOK, PromiseTimed, Age
<1> QED BY <1>7, <1>8, <1>9 DEF StorageIInv

\* The commit's timer is the one that _save_timer_id names: when it is gone, no
\* promise is left.
LEMMA CallCommitKeeps == ASSUME StorageIInv, CallCommit PROVE StorageIInv'
<1> USE StorageAssumption, TimerTableAssumption
<1>1. /\ entries \in [1..Amount -> Entry] /\ at \in 1..Amount
      /\ entries[at].active /\ entries[at].fn = "commit" /\ ~inside
  <2>1. ~inside BY DEF CallCommit, Calls, Looping
  <2>2. entries[at].active /\ entries[at].fn = "commit" /\ at # 0
    BY DEF CallCommit, Calls, Looping, Ripe
  <2>3. entries \in [1..Amount -> Entry] /\ at \in 0..Amount
    BY DEF StorageIInv, StorageTypeOK, Entry
  <2> QED BY <2>1, <2>2, <2>3
<1>2. at # 1 BY <1>1 DEF StorageIInv, TableOK
<1>3. Blank \in Entry /\ ~Blank.active BY DEF Blank, Entry
<1>4. entries' = [entries EXCEPT ![at] = Blank] BY <1>1 DEF CallCommit, Cleared
<1>5. /\ entries' \in [1..Amount -> Entry]
      /\ \A k \in 1..Amount : entries'[k] = IF k = at THEN Blank ELSE entries[k]
  BY <1>1, <1>3, <1>4
<1>6. /\ UNCHANGED <<now, inside, data, restarting, counts>>
      /\ saveTimer' = 0 /\ promised' = None
  BY DEF CallCommit
<1>7. at' \in 0..Amount BY AdvanceType DEF CallCommit
<1>8. StorageTypeOK'
  <2>1. promised' \in Ages /\ saveTimer' \in 0..Amount BY <1>6 DEF Ages
  <2>2. file' \in Values \cup {Absent, Torn} /\ saved' \in SUBSET Values
    BY DEF CallCommit, Commit, StorageIInv, StorageTypeOK
  <2> QED BY <1>5, <1>6, <1>7, <2>1, <2>2 DEF counts, StorageIInv, StorageTypeOK, Entry
<1>9. TableOK'
  <2>1. Reboots' = Reboots
    <3>1. ASSUME NEW k \in 1..Amount
          PROVE  (entries'[k].active /\ entries'[k].fn = "restart")
                   <=> (entries[k].active /\ entries[k].fn = "restart")
      BY <1>1, <1>3, <1>5
    <3> QED BY <3>1 DEF Reboots
  <2>2. ASSUME NEW k \in 1..Amount, entries'[k].active
        PROVE \/ entries'[k].fn = "service" /\ k = 1
              \/ entries'[k].fn = "restart" /\ ~entries'[k].repeat /\ k # 1
    <3>1. k # at /\ entries'[k] = entries[k] /\ entries[k].active BY <2>2, <1>3, <1>5
    <3>2. at = saveTimer BY <1>1 DEF StorageIInv, TableOK
    <3> QED BY <3>1, <3>2 DEF StorageIInv, TableOK
  <2>3. entries'[1] = entries[1] BY <1>2, <1>5
  <2>4. Cardinality(Reboots)' <= restarts'
    BY <2>1, <1>6 DEF counts, StorageIInv, TableOK
  <2>5. saveTimer' # 1 /\ ~inside' BY <1>1, <1>6
  <2> QED BY <2>2, <2>3, <2>4, <2>5 DEF StorageIInv, TableOK
<1>10. PromiseOK' BY <1>6 DEF PromiseOK, PromiseTimed
<1> QED BY <1>8, <1>9, <1>10 DEF StorageIInv

\* Power fails, or the device reboots: what was in memory is gone.
LEMMA CrashKeeps ==
  ASSUME StorageIInv, CrashInRestart \/ CrashInCallback \/ CallRestart \/ Crash
  PROVE  StorageIInv'
<1> USE StorageAssumption
<1>1. /\ file \in Values \cup {Absent, Torn} /\ crashes \in 0..MaxCrashes
      /\ saved \in SUBSET Values
  BY DEF StorageIInv, StorageTypeOK
<1>2. CASE CrashInRestart \/ CrashInCallback
  <2>1. CrashInCommit BY <1>2 DEF CrashInRestart, CrashInCallback
  <2>2. PICK f \in {file, Torn} : Boot(f) BY <2>1 DEF CrashInCommit
  <2>3. crashes' \in 0..MaxCrashes /\ saved' \in SUBSET Values
    BY <1>1, <2>1 DEF CrashInCommit
  <2>4. f \in Values \cup {Absent, Torn} BY <1>1
  <2> QED BY <2>2, <2>3, <2>4, BootKeeps
<1>3. CASE CallRestart
  <2>1. Boot(file) /\ crashes' = crashes /\ saved' = saved BY <1>3 DEF CallRestart
  <2> QED BY <1>1, <2>1, BootKeeps
<1>4. CASE Crash
  <2>1. Boot(file) /\ crashes' \in 0..MaxCrashes /\ saved' \in SUBSET Values
    BY <1>1, <1>4 DEF Crash
  <2> QED BY <1>1, <2>1, BootKeeps
<1> QED BY <1>2, <1>3, <1>4

\* The invariant is one of Storage, wherever power fails.
THEOREM StorageInductive == SafeSpec => []StorageIInv
<1>1. Init => StorageIInv BY StorageInit
<1>2. StorageIInv /\ [Next]_vars => StorageIInv'
  <2> SUFFICES ASSUME StorageIInv, [Next]_vars PROVE StorageIInv' OBVIOUS
  <2>1. CASE Tick BY <2>1, TickKeeps
  <2>2. CASE \E v \in Values : Change(v) BY <2>2, ChangeKeeps
  <2>3. CASE SaveChanges BY <2>3, SaveChangesKeeps
  <2>4. CASE Restart BY <2>4, RestartKeeps
  <2>5. CASE HandleTimers \/ Skip \/ EndService BY <2>5, WalkKeeps
  <2>6. CASE CallService BY <2>6, CallServiceKeeps
  <2>7. CASE CallCommit BY <2>7, CallCommitKeeps
  <2>8. CASE CrashInRestart \/ CrashInCallback \/ CallRestart \/ Crash
    BY <2>8, CrashKeeps
  <2>9. CASE UNCHANGED vars
    <3>1. StorageTypeOK' BY <2>9 DEF vars, timing, counts, StorageIInv, StorageTypeOK
    <3>2. TableOK' BY <2>9, SameTable DEF vars, timing, counts, StorageIInv, TableOK
    <3>3. PromiseOK'
      BY <2>9 DEF vars, timing, counts, StorageIInv, PromiseOK, PromiseTimed, Age
    <3> QED BY <3>1, <3>2, <3>3 DEF StorageIInv
  <2> QED BY <2>1, <2>2, <2>3, <2>4, <2>5, <2>6, <2>7, <2>8, <2>9 DEF Next, Loop
<1> QED BY <1>1, <1>2, PTL DEF SafeSpec

\* Every variable keeps its type.
THEOREM StorageTypeCorrect == SafeSpec => []StorageTypeOK
<1>1. StorageIInv => StorageTypeOK BY DEF StorageIInv
<1> QED BY <1>1, StorageInductive, PTL

\* What save_changes() promises is committed within the save interval, whatever is
\* changed, saved and restarted meanwhile.
THEOREM ChangesSavedInTime == SafeSpec => []SavedInTime
<1>1. StorageIInv => SavedInTime
  BY DEF StorageIInv, PromiseOK, PromiseTimed, SavedInTime
<1> QED BY <1>1, StorageInductive, PTL

\* No reboot is under way while a commit is owed.
THEOREM NoChangeOvertaken == SafeSpec => []RestartKeepsChanges
<1>1. StorageIInv => RestartKeepsChanges
  BY DEF StorageIInv, PromiseOK, PromiseTimed, RestartKeepsChanges
<1> QED BY <1>1, StorageInductive, PTL

\* Whatever a timer may commit is vouched for, and so is what is on file when no
\* commit is owed; restart() has been called if it was counted.
SavedOK ==
  /\ restarting = None => restarts = 0
  /\ saved # {} => /\ saveTimer # 0 => data \in saved
                   /\ promised = None => file \in saved

\* Without a call of restart() no timer reboots.
LEMMA NoReboot ==
  ASSUME StorageIInv, SavedOK, restarting = None, NEW k \in 1..Amount,
         entries[k].active
  PROVE  entries[k].fn # "restart"
<1>1. SUFFICES ASSUME entries[k].fn = "restart" PROVE FALSE OBVIOUS
<1>2. k \in Reboots BY <1>1 DEF Reboots
<1>3. Cardinality(Reboots) # 0 BY <1>2, RebootsFinite, FS_EmptySet
<1>4. Cardinality(Reboots) <= 0 BY DEF SavedOK, StorageIInv, TableOK
<1> QED BY <1>3, <1>4, RebootsFinite

\* A commit writes what is vouched for, or what is on file is not any more.
LEMMA CommitSaves ==
  ASSUME SavedOK, saveTimer # 0, Commit
  PROVE  saved' # {} => saved' = saved /\ file' \in saved' /\ data \in saved'
BY DEF SavedOK, Commit

\* Every step keeps what is on file vouched for.
LEMMA NextSavedOK ==
  ASSUME StorageIInv, SavedOK, [Next]_vars
  PROVE  SavedOK'
<1> USE StorageAssumption DEF timing, counts
<1>1. CASE Tick \/ HandleTimers \/ Skip \/ CallService \/ EndService \/ UNCHANGED vars
  <2> DEFINE Kept == /\ UNCHANGED <<saveTimer, data, file, saved, restarts>>
                     /\ promised' = None <=> promised = None
                     /\ restarting' = None <=> restarting = None
  <2>1. ASSUME Tick PROVE Kept
    <3>1. promised \in Nat \cup {None} /\ restarting \in Nat \cup {None}
      BY DEF StorageIInv, StorageTypeOK, Ages
    <3>2. UNCHANGED <<saveTimer, data, file, saved, restarts>> BY <2>1 DEF Tick
    <3>3. promised' = Older(promised) /\ restarting' = Older(restarting)
      BY <2>1 DEF Tick
    <3> QED BY <3>1, <3>2, <3>3 DEF Older
  <2>2. ASSUME HandleTimers PROVE Kept BY <2>2 DEF HandleTimers
  <2>3. ASSUME Skip PROVE Kept BY <2>3 DEF Skip
  <2>4. ASSUME CallService PROVE Kept BY <2>4 DEF CallService
  <2>5. ASSUME EndService PROVE Kept BY <2>5 DEF EndService
  <2>6. ASSUME UNCHANGED vars PROVE Kept BY <2>6 DEF vars
  <2>7. Kept BY <1>1, <2>1, <2>2, <2>3, <2>4, <2>5, <2>6
  <2> QED BY <2>7 DEF SavedOK
<1>2. ASSUME NEW v \in Values, Change(v) PROVE SavedOK'
  <2>1. saveTimer # 0 => promised # None \/ restarting # None
    BY DEF StorageIInv, PromiseOK
  <2> QED BY <1>2, <2>1 DEF Change, SavedOK
<1>3. CASE SaveChanges
  <2>1. /\ UNCHANGED <<data, file, restarting, restarts>> /\ Promise
        /\ promised' = None => promised = None /\ restarting # None
    BY <1>3 DEF SaveChanges, Promise, StorageIInv, StorageTypeOK
  <2>2. CASE restarting = None BY <2>1, <2>2 DEF Promise, SavedOK
  <2>3. CASE restarting # None BY <2>1, <2>3 DEF Promise, SavedOK
  <2> QED BY <2>2, <2>3
<1>4. CASE Restart
  <2>1. restarting' # None /\ UNCHANGED <<saveTimer, data>>
    BY <1>4 DEF Restart
  <2>2. CASE saveTimer = 0
    <3>1. UNCHANGED <<file, promised, saved>> BY <1>4, <2>2 DEF Restart
    <3> QED BY <2>1, <2>2, <3>1 DEF SavedOK
  <2>3. CASE saveTimer # 0
    <3>1. Commit BY <1>4, <2>3 DEF Restart
    <3> QED BY <2>1, <2>3, <3>1, CommitSaves DEF SavedOK
  <2> QED BY <2>2, <2>3
<1>5. CASE CallCommit
  <2>1. /\ UNCHANGED <<data, restarting, restarts>> /\ Commit /\ saveTimer' = 0
    BY <1>5 DEF CallCommit
  <2>2. at \in 1..Amount /\ entries[at].active /\ entries[at].fn = "commit"
    BY <1>5 DEF CallCommit, Calls, Looping, Ripe, StorageIInv, StorageTypeOK
  <2>3. saveTimer # 0 BY <2>2 DEF StorageIInv, TableOK
  <2> QED BY <2>1, <2>3, CommitSaves DEF SavedOK
<1>6. CASE CrashInRestart \/ CrashInCallback
  <2>1. CrashInCommit BY <1>6 DEF CrashInRestart, CrashInCallback
  <2> QED BY <2>1 DEF CrashInCommit, Boot, SavedOK
<1>7. CASE CallRestart
  <2>1. at \in 1..Amount /\ entries[at].active /\ entries[at].fn = "restart"
    BY <1>7 DEF CallRestart, Calls, Looping, Ripe, StorageIInv, StorageTypeOK
  <2>2. restarting # None BY <2>1, NoReboot
  <2>3. promised = None BY <2>2 DEF StorageIInv, PromiseOK, PromiseTimed
  <2> QED BY <1>7, <2>3 DEF CallRestart, Boot, SavedOK
<1>8. CASE Crash BY <1>8 DEF Crash, Boot, SavedOK
<1> QED BY <1>1, <1>2, <1>3, <1>4, <1>5, <1>6, <1>7, <1>8 DEF Next, Loop

\* What was saved is on file once the commit is over, and stays there over reboots
\* and losses of power, until a write fails or is interrupted; for any delays and
\* any number of calls of restart().
THEOREM SavedStays == SafeSpec => []SavedIsOnFile
<1>1. Init => SavedOK BY DEF Init, SavedOK
<1>2. StorageIInv /\ SavedOK /\ [Next]_vars => SavedOK' BY NextSavedOK
<1>3. SavedOK => SavedIsOnFile BY DEF SavedOK, SavedIsOnFile
<1> QED BY <1>1, <1>2, <1>3, StorageInductive, PTL DEF SafeSpec

(***************************************************************************)
(* Connection.                                                             *)
(***************************************************************************)
\* MQTT does not exist before the device is ready.
NotYet ==
  boot # "READY"
    => mqtt = "UNINITIALIZED" /\ client = "idle" /\ event = "none" /\ pc = "loop"

\* The callback under way tells what the client is, and without one _state does;
\* but for an attempt that is being aborted, whose client is still to be closed.
Aligned ==
  /\ event = "connect" => client = "connected"
  /\ event = "disconnect" => client = "idle"
  /\ event = "none" =>
       \/ pc = "close" /\ mqtt = "DISCONNECTED" /\ client = "connecting"
       \/ /\ mqtt = "CONNECTED" <=> client = "connected"
          /\ mqtt = "CONNECTING" <=> client = "connecting"

ConnectionIInv == ConnectionTypeOK /\ NotYet /\ (crossed \/ Aligned)

\* The constants are numbers.
LEMMA ConstantFacts ==
  /\ DefaultInterval \in Nat /\ MaxAge \in Nat /\ MaxStale \in Nat
  /\ Intervals \subseteq Nat
  /\ 0 \in ConnectionAges /\ 0 \in 0..MaxStale
BY ConnectionAssumption DEF Spans, ConnectionAges

\* The initial state satisfies the inductive invariant.
LEMMA ConnectionInitIInv == ConnectionInit => ConnectionIInv
<1> SUFFICES ASSUME ConnectionInit PROVE ConnectionIInv OBVIOUS
<1>1. wifi \in [state : {"DISCONNECTED", "CONNECTING", "CONNECTED"},
        mode : {"AP", "STA"},
                interval : Nat, ssid : {"router", "own"}]
  BY DEF ConnectionInit
<1>2. ConnectionTypeOK BY <1>1, ConstantFacts DEF ConnectionInit, ConnectionTypeOK
<1> QED BY <1>2 DEF ConnectionInit, ConnectionIInv, NotYet, Aligned

\* An age grows within its bounds.
LEMMA AgedFacts ==
  ASSUME NEW a \in ConnectionAges
  PROVE  Aged(a) \in ConnectionAges
BY ConnectionAssumption DEF ConnectionAges, Aged

\* connect() leaves a WifiManager of the right types.
LEMMA ConnectTypes ==
  ASSUME ConnectionTypeOK, NEW mode \in Modes, NEW interval \in Intervals,
         Connect(mode, interval)
  PROVE  /\ wifi' \in [state : {"DISCONNECTED", "CONNECTING", "CONNECTED"},
              mode : {"AP", "STA"},
                       interval : Nat, ssid : {"router", "own"}]
         /\ beginAge' \in ConnectionAges /\ radio' \in {"off", "AP", "STA"}
         /\ link' \in BOOLEAN
<1>1. interval \in Nat /\ 0 \in ConnectionAges BY ConstantFacts
<1>2. CASE wifi.state = "CONNECTING" BY <1>2 DEF Connect, ConnectionTypeOK
<1>3. CASE ConnectAp(interval) BY <1>1, <1>3 DEF ConnectAp, ConnectionTypeOK
<1>4. CASE ConnectSta(interval) BY <1>1, <1>4 DEF ConnectSta, ConnectionTypeOK
<1> QED BY <1>2, <1>3, <1>4 DEF Connect

\* And so does its handle_connection.
LEMMA HandleTypes ==
  ASSUME ConnectionTypeOK, WifiHandle
  PROVE  /\ wifi' \in [state : {"DISCONNECTED", "CONNECTING", "CONNECTED"},
              mode : {"AP", "STA"},
                       interval : Nat, ssid : {"router", "own"}]
         /\ beginAge' \in ConnectionAges /\ checkAge' \in ConnectionAges
         /\ radio' \in {"off", "AP", "STA"} /\ link' \in BOOLEAN
<1>1. DefaultInterval \in Nat /\ 0 \in ConnectionAges BY ConstantFacts
<1>2. CASE StaStep /\ UNCHANGED checkAge
  <2>1. CASE ConnectAp(DefaultInterval)
    BY <1>1, <1>2, <2>1 DEF ConnectAp, ConnectionTypeOK
  <2>2. CASE ~ConnectAp(DefaultInterval) BY <1>2, <2>2 DEF StaStep, ConnectionTypeOK
  <2> QED BY <2>1, <2>2
<1>3. CASE UNCHANGED wifiVars BY <1>3 DEF wifiVars, ConnectionTypeOK
<1>4. CASE checkAge' = 0 /\ ConnectSta(DefaultInterval)
  BY <1>1, <1>4 DEF ConnectSta, ConnectionTypeOK
<1>5. CASE checkAge' = 0 /\ UNCHANGED <<wifi, beginAge, radio, link>>
  BY <1>1, <1>5 DEF ConnectionTypeOK
<1> QED BY <1>2, <1>3, <1>4, <1>5 DEF WifiHandle

\* A main loop's step that crosses nothing met the state it had tested, and no callback.
LEMMA CrossFacts ==
  ASSUME ConnectionTypeOK, NEW tested, Crosses(tested)
  PROVE  /\ crossed' \in BOOLEAN
         /\ ~crossed' => ~crossed /\ event = "none" /\ mqtt = tested
BY DEF Crosses, ConnectionTypeOK

\* Every step preserves the inductive invariant.
LEMMA ConnectionNextIInv == ConnectionIInv /\ [ConnectionNext]_connectionVars
  => ConnectionIInv'
<1> SUFFICES ASSUME ConnectionIInv, [ConnectionNext]_connectionVars
             PROVE ConnectionIInv' OBVIOUS
<1> USE DEF ConnectionIInv, connectionVars, wifiVars, stateVars, mqttVars
<1>0. ConnectionTypeOK /\ NotYet /\ 0 \in ConnectionAges /\ 0 \in 0..MaxStale
  BY ConstantFacts
<1>1. ASSUME NEW mode \in Modes, NEW interval \in Intervals, AppConnect(mode, interval)
      PROVE ConnectionIInv'
  <2>1. ConnectionTypeOK' BY <1>0, <1>1, ConnectTypes DEF AppConnect, ConnectionTypeOK
  <2> QED BY <1>1, <2>1 DEF AppConnect, NotYet, Aligned
<1>2. CASE Start
  <2>1. ConnectionTypeOK' BY <1>0, <1>2, ConnectTypes DEF Start, ConnectionTypeOK
  <2> QED BY <1>2, <2>1 DEF Start, NotYet, Aligned
<1>3. CASE WifiConnect
  <2>1. ConnectionTypeOK' BY <1>0, <1>3, HandleTypes DEF WifiConnect, ConnectionTypeOK
  <2> QED BY <1>3, <2>1 DEF WifiConnect, NotYet, Aligned
<1>4. CASE Initialize
  BY <1>0, <1>4
  DEF Initialize, MqttConnect, ChangeState, ConnectionTypeOK, NotYet, Aligned
<1>5. CASE Ready
  <2>1. ConnectionTypeOK' BY <1>0, <1>5, HandleTypes DEF Ready, ConnectionTypeOK
  <2> QED BY <1>5, <2>1 DEF Ready, NotYet, Aligned
<1>6. CASE Test BY <1>6 DEF Test, At, ConnectionTypeOK, NotYet, Aligned
<1>7. CASE Reconnect
  <2>1. /\ crossed' \in BOOLEAN
        /\ ~crossed' => ~crossed /\ event = "none" /\ mqtt = "DISCONNECTED"
    BY <1>0, <1>7, CrossFacts DEF Reconnect
  <2>2. ConnectionTypeOK'
    BY <1>0, <1>7, <2>1 DEF Reconnect, At, MqttConnect, ChangeState, ConnectionTypeOK
  <2> QED
    BY <1>7, <2>1, <2>2
    DEF Reconnect, At, MqttConnect, ChangeState, ConnectionTypeOK, NotYet, Aligned
<1>8. CASE Check BY <1>8 DEF Check, At, ConnectionTypeOK, NotYet, Aligned
<1>9. CASE Abort
  <2>1. /\ crossed' \in BOOLEAN
        /\ ~crossed' => ~crossed /\ event = "none" /\ mqtt = "CONNECTING"
    BY <1>0, <1>9, CrossFacts DEF Abort
  <2>2. ConnectionTypeOK'
    BY <1>0, <1>9, <2>1 DEF Abort, At, ChangeState, ConnectionTypeOK
  <2> QED
    BY <1>9, <2>1, <2>2 DEF Abort, At, ChangeState, ConnectionTypeOK, NotYet, Aligned
<1>10. CASE Close
  <2>1. /\ crossed' \in BOOLEAN
        /\ ~crossed' => ~crossed /\ event = "none" /\ mqtt = "DISCONNECTED"
    BY <1>0, <1>10, CrossFacts DEF Close
  <2>2. ConnectionTypeOK'
    BY <1>0, <1>10, <2>1 DEF Close, At, ChangeState, ConnectionTypeOK
  <2> QED
    BY <1>10, <2>1, <2>2 DEF Close, At, ChangeState, ConnectionTypeOK, NotYet, Aligned
<1>11. CASE OnConnect
  BY <1>0, <1>11 DEF OnConnect, ChangeState, ConnectionTypeOK, NotYet, Aligned
<1>12. CASE OnDisconnect
  BY <1>0, <1>12 DEF OnDisconnect, ChangeState, ConnectionTypeOK, NotYet, Aligned
<1>13. CASE ClientUp BY <1>13 DEF ClientUp, ConnectionTypeOK, NotYet, Aligned
<1>14. CASE ClientDown BY <1>14 DEF ClientDown, ConnectionTypeOK, NotYet, Aligned
<1>15. CASE LinkUp BY <1>15 DEF LinkUp, ConnectionTypeOK, NotYet, Aligned
<1>16. CASE RouterUp BY <1>16 DEF RouterUp, ConnectionTypeOK, NotYet, Aligned
<1>17. CASE RouterDown
  <2>0. faults \in Nat BY DEF ConnectionTypeOK
  <2>1. faults' \in Nat BY <1>17, <2>0 DEF RouterDown
  <2>2. router' \in BOOLEAN /\ link' \in BOOLEAN BY <1>17 DEF RouterDown
  <2>3. ConnectionTypeOK' BY <1>17, <2>1, <2>2 DEF RouterDown, ConnectionTypeOK
  <2> QED BY <1>17, <2>3 DEF RouterDown, NotYet, Aligned
<1>18. CASE TimePasses
  <2>1. /\ beginAge' \in ConnectionAges /\ checkAge' \in ConnectionAges
        /\ attemptAge' \in ConnectionAges /\ changeAge' \in ConnectionAges
    BY <1>0, <1>18, AgedFacts DEF TimePasses, ConnectionTypeOK
  <2>2. stale' \in 0..MaxStale
    <3>1. CASE pc = "loop" BY <1>0, <1>18, <3>1 DEF TimePasses
    <3>2. CASE pc # "loop"
      BY <1>18, <3>2, ConstantFacts DEF TimePasses, ConnectionTypeOK
    <3> QED BY <3>1, <3>2
  <2>3. ConnectionTypeOK' BY <1>18, <2>1, <2>2 DEF TimePasses, ConnectionTypeOK
  <2> QED BY <1>18, <2>3 DEF TimePasses, NotYet, Aligned
<1>19. CASE UNCHANGED connectionVars
  BY <1>19 DEF ConnectionTypeOK, NotYet, Aligned, ConnectionAges
<1> QED
  BY <1>1, <1>2, <1>3, <1>4, <1>5, <1>6, <1>7, <1>8, <1>9, <1>10, <1>11, <1>12, <1>13,
     <1>14, <1>15,
     <1>16, <1>17, <1>18, <1>19 DEF ConnectionNext, ServiceLoop, HandleConnection,
     Callback

\* WifiManager's, MqttServer's and the service loop's state keeps its types.
THEOREM ConnectionTypeCorrect == ConnectionSpec => []ConnectionTypeOK
<1>1. ConnectionIInv => ConnectionTypeOK BY DEF ConnectionIInv
<1> QED
  BY <1>1, ConnectionInitIInv, ConnectionNextIInv, PTL
  DEF ConnectionSpec, ConnectionSafeSpec

\* MqttServer's state, which two tasks write without a lock, is its client's whenever
\* no callback is under way and none was crossed by the main loop.
THEOREM MqttAgrees == ConnectionSpec => []StatesAgree
<1>1. ConnectionIInv => StatesAgree BY DEF ConnectionIInv, Aligned, StatesAgree
<1> QED
  BY <1>1, ConnectionInitIInv, ConnectionNextIInv, PTL
  DEF ConnectionSpec, ConnectionSafeSpec
=============================================================================
