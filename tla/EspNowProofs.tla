---------------------------- MODULE EspNowProofs ----------------------------
(***************************************************************************)
(* Proofs about the two layers of ESP-NOW.                                 *)
(*                                                                         *)
(* EspNow, for any callers, frames and peers and any number                *)
(* of resets: types, that a future says what became of its own frame, and  *)
(* that no confirmation is invented.                                       *)
(*                                                                         *)
(* Interaction, for any nodes, messages, sizes and ids: types, that messages*)
(* are whole and arrive, and that requests get their own responses, until an*)
(* id is taken while its last use is not over.                             *)
(***************************************************************************)
EXTENDS EspNow, Interaction, SeqFacts, FiniteSetTheorems

(***************************************************************************)
(* EspNow.                                                                 *)
(***************************************************************************)
Held(c) == pc[c] # "idle"

\* A frame in a caller's hands is that caller's alone, and nothing has become of it.
HeldOK ==
  \A c \in Callers : Held(c) =>
    /\ job[c] \in Packets /\ to[job[c]] \in Peers
    /\ fate[job[c]] = "none" /\ future[job[c]] # "none"
    /\ \A d \in Callers : Held(d) /\ job[d] = job[c] => d = c

\* A frame the driver has taken is there once, and in nobody's hands any more.
PacketsOK ==
  \A p \in Peers : \A i \in 1..Len(air[p]) :
    /\ fate[air[p][i]] = "none" /\ future[air[p][i]] # "none"
    /\ \A c \in Callers : Held(c) => job[c] # air[p][i]
    /\ \A q \in Peers : \A j \in 1..Len(air[q]) : air[q][j] = air[p][i]
         => q = p /\ j = i

\* Nothing has become of a frame that was never sent.
NewOK == \A f \in Packets : future[f] = "none" => fate[f] = "none"

EspNowIInv == EspNowTypeOK /\ HeldOK /\ PacketsOK /\ NewOK /\ InStep /\ OwnFate /\
  NoneInvented

\* The initial state satisfies the inductive invariant.
LEMMA EspNowInitIInv == EspNowInit => EspNowIInv
<1> SUFFICES ASSUME EspNowInit PROVE EspNowIInv OBVIOUS
<1>1. EspNowTypeOK BY EspNowAssumption, EmptyFacts DEF EspNowInit, EspNowTypeOK
<1>2. HeldOK BY DEF EspNowInit, HeldOK, Held
<1>3. \A p \in Peers : Len(air[p]) = 0 BY DEF EspNowInit
<1>4. PacketsOK /\ InStep BY <1>3 DEF PacketsOK, InStep, EspNowInit
<1>5. NewOK /\ OwnFate BY DEF EspNowInit, NewOK, OwnFate
<1>6. {f \in Packets : future[f] = "ok"} = {f \in Packets : fate[f] = "ok"}
  BY DEF EspNowInit
<1>7. Cardinality({f \in Packets : fate[f] = "ok"}) \in Nat
  BY EspNowAssumption, FS_Subset, FS_CardinalityType
<1>8. NoneInvented BY <1>6, <1>7 DEF NoneInvented
<1> QED BY <1>1, <1>2, <1>4, <1>5, <1>8 DEF EspNowIInv

\* Where neither confirmed futures nor confirmed frames change, none is invented.
LEMMA SameConfirmed ==
  ASSUME NoneInvented,
         \A f \in Packets : future'[f] = "ok" <=> future[f] = "ok",
         \A f \in Packets : fate'[f] = "ok" <=> fate[f] = "ok"
  PROVE  NoneInvented'
<1>1. /\ {f \in Packets : future'[f] = "ok"} = {f \in Packets : future[f] = "ok"}
      /\ {f \in Packets : fate'[f] = "ok"} = {f \in Packets : fate[f] = "ok"}
  OBVIOUS
<1> QED BY <1>1 DEF NoneInvented

\* Nor where one frame is confirmed and at most one future.
LEMMA OneConfirmed ==
  ASSUME NoneInvented, NEW g \in Packets, NEW h \in Packets,
         fate[g] # "ok", fate'[g] = "ok",
         \A f \in Packets \ {g} : fate'[f] = fate[f],
         \A f \in Packets \ {h} : future'[f] = future[f]
  PROVE  NoneInvented'
<1> DEFINE Fate == {f \in Packets : fate[f] = "ok"}
           Future == {f \in Packets : future[f] = "ok"}
           Future2 == {f \in Packets : future'[f] = "ok"}
<1>1. IsFiniteSet(Fate) /\ IsFiniteSet(Future) BY EspNowAssumption, FS_Subset
<1>2. {f \in Packets : fate'[f] = "ok"} = Fate \cup {g} /\ g \notin Fate OBVIOUS
<1>3. Cardinality(Fate \cup {g}) = Cardinality(Fate) + 1 BY <1>1, <1>2, FS_AddElement
<1>4. Future2 \subseteq Future \cup {h} OBVIOUS
<1>5. /\ IsFiniteSet(Future \cup {h})
      /\ Cardinality(Future \cup {h}) <= Cardinality(Future) + 1
  <2>1. /\ IsFiniteSet(Future \cup {h})
        /\ \/ Cardinality(Future \cup {h}) = Cardinality(Future)
           \/ Cardinality(Future \cup {h}) = Cardinality(Future) + 1
    BY <1>1, FS_AddElement
  <2>2. Cardinality(Future) \in Nat BY <1>1, FS_CardinalityType
  <2> QED BY <2>1, <2>2
<1>6. Cardinality(Future2) <= Cardinality(Future \cup {h}) BY <1>4, <1>5, FS_Subset
<1>7. /\ Cardinality(Future2) \in Nat /\ Cardinality(Future \cup {h}) \in Nat
      /\ Cardinality(Future) \in Nat /\ Cardinality(Fate) \in Nat
  BY <1>1, <1>4, <1>5, FS_Subset, FS_CardinalityType
<1>8. Cardinality(Future) <= Cardinality(Fate) BY DEF NoneInvented
<1>9. Cardinality(Future2) <= Cardinality(Fate) + 1 BY <1>5, <1>6, <1>7, <1>8
<1> QED BY <1>2, <1>3, <1>9 DEF NoneInvented

\* Where nothing is handed over or reported, the callers and the queues matter.
LEMMA SameAir ==
  ASSUME EspNowIInv, EspNowTypeOK', HeldOK', air' = air,
         \A f \in Packets :
           (\E p \in Peers : \E i \in 1..Len(air[p]) : air[p][i] = f) =>
           fate'[f] = fate[f] /\ future'[f] = future[f] /\
             (\A c \in Callers : Held(c)' => job'[c] # f)
  PROVE  PacketsOK'
<1>1. \A p \in Peers : \A i \in 1..Len(air[p]) : air[p][i] \in Packets
  BY ElementOfSeq DEF EspNowIInv, EspNowTypeOK
<1> QED BY <1>1 DEF EspNowIInv, PacketsOK

\* Registering a peer leaves queue and driver in step if it did not say otherwise.
LEMMA AddPeerFacts ==
  ASSUME EspNowTypeOK, InStep, NEW p \in Peers, AddPeer(p), air' = air
  PROVE  /\ registered' \in SUBSET Peers /\ sendOrder' \in [Peers -> Seq(Packets)]
         /\ disturbed' \in BOOLEAN /\ (~disturbed' => ~disturbed)
         /\ InStep'
<1>1. /\ registered' \in SUBSET Peers /\ sendOrder' \in [Peers -> Seq(Packets)]
  BY EmptyFacts DEF AddPeer, EspNowTypeOK
<1>2. disturbed' \in BOOLEAN /\ (~disturbed' => ~disturbed /\ sendOrder[p] = <<>>)
  BY DEF AddPeer, EspNowTypeOK
<1>3. ASSUME ~disturbed' PROVE sendOrder' = sendOrder
  BY <1>2, <1>3 DEF AddPeer, EspNowTypeOK
<1>4. InStep' BY <1>2, <1>3 DEF InStep
<1> QED BY <1>1, <1>2, <1>4

\* Every step preserves the inductive invariant.
LEMMA EspNowNextIInv == EspNowIInv /\ [EspNowNext]_espNowVars => EspNowIInv'
<1> SUFFICES ASSUME EspNowIInv, [EspNowNext]_espNowVars PROVE EspNowIInv' OBVIOUS
<1> USE DEF EspNowIInv
<1>0. EspNowTypeOK OBVIOUS
<1>1. CASE Begin
  <2>1. EspNowTypeOK' BY <1>1 DEF Begin, driver, EspNowTypeOK
  <2>2. HeldOK' /\ PacketsOK' /\ NewOK'
    BY <1>1 DEF Begin, driver, HeldOK, Held, PacketsOK, NewOK
  <2>3. InStep' /\ OwnFate' /\ NoneInvented'
    BY <1>1 DEF Begin, driver, InStep, OwnFate, NoneInvented
  <2> QED BY <2>1, <2>2, <2>3
<1>2. CASE End
  <2>1. EspNowTypeOK'
    <3>1. resets' \in Nat BY <1>2 DEF End, EspNowTypeOK
    <3>2. disturbed' \in BOOLEAN BY <1>2 DEF End, EspNowTypeOK
    <3>3. air' \in [Peers -> Seq(Packets)] BY <1>2, EmptyFacts DEF End
    <3> QED BY <1>2, <3>1, <3>2, <3>3 DEF End, EspNowTypeOK
  <2>2. HeldOK' /\ NewOK' BY <1>2 DEF End, HeldOK, Held, NewOK
  <2>3. \A p \in Peers : Len(air'[p]) = 0 BY <1>2 DEF End
  <2>4. PacketsOK' BY <2>3 DEF PacketsOK
  <2>5. ~disturbed' => ~disturbed BY <1>2, <1>0 DEF End, EspNowTypeOK
  <2>6. InStep'
    <3>1. \A p \in Peers : Len(sendOrder'[p]) \in Nat
      BY <2>1, LenProperties DEF EspNowTypeOK
    <3> QED BY <2>3, <3>1 DEF InStep
  <2>7. OwnFate' BY <1>2, <2>5 DEF End, OwnFate
  <2>8. NoneInvented' BY <1>2, SameConfirmed DEF End
  <2> QED BY <2>1, <2>2, <2>4, <2>6, <2>7, <2>8
<1>3. ASSUME NEW p \in Peers, UnregisterPeer(p) PROVE EspNowIInv'
  BY <1>3
  DEF UnregisterPeer, EspNowTypeOK, HeldOK, Held, PacketsOK, NewOK, InStep, OwnFate,
      NoneInvented
<1>4. ASSUME NEW p \in Peers, RegisterPeer(p) PROVE EspNowIInv'
  <2>1. /\ registered' \in SUBSET Peers /\ sendOrder' \in [Peers -> Seq(Packets)]
        /\ disturbed' \in BOOLEAN /\ (~disturbed' => ~disturbed)
        /\ InStep'
    BY <1>0, <1>4, AddPeerFacts DEF RegisterPeer
  <2>2. UNCHANGED <<initialized, air, pc, job, to, future, fate, resets>>
    BY <1>4 DEF RegisterPeer
  <2>3. EspNowTypeOK' BY <2>1, <2>2 DEF EspNowTypeOK
  <2>4. HeldOK' /\ PacketsOK' /\ NewOK' BY <2>2 DEF HeldOK, Held, PacketsOK, NewOK
  <2>5. OwnFate' /\ NoneInvented' BY <2>1, <2>2 DEF OwnFate, NoneInvented
  <2> QED BY <2>1, <2>3, <2>4, <2>5
<1>5. ASSUME NEW c \in Callers, NEW f \in Packets, NEW p \in Peers, SendFails(c, f, p)
      PROVE EspNowIInv'
  <2>1. /\ future[f] = "none" /\ fate[f] = "none"
        /\ future' = [future EXCEPT ![f] = "error"]
        /\ fate' = [fate EXCEPT ![f] = "error"]
        /\ UNCHANGED <<initialized, registered, air, sendOrder, pc, job, to, disturbed,
             resets>>
    BY <1>5 DEF SendFails, CanSend, NewOK, driver
  <2>2. EspNowTypeOK' BY <2>1 DEF EspNowTypeOK
  <2>3. HeldOK' BY <1>0, <2>1 DEF HeldOK, Held, EspNowTypeOK
  <2>4. PacketsOK'
    <3>1. \A q \in Peers : \A i \in 1..Len(air[q]) : air[q][i] # f BY <2>1 DEF PacketsOK
    <3> QED BY <1>0, <2>1, <2>2, <2>3, <3>1, SameAir DEF PacketsOK, Held, EspNowTypeOK
  <2>5. NewOK' /\ OwnFate' BY <1>0, <2>1 DEF NewOK, OwnFate, EspNowTypeOK
  <2>6. InStep' BY <2>1 DEF InStep
  <2>7. NoneInvented' BY <1>0, <2>1, SameConfirmed DEF EspNowTypeOK
  <2> QED BY <2>2, <2>3, <2>4, <2>5, <2>6, <2>7
<1>6. ASSUME NEW c \in Callers, NEW f \in Packets, NEW p \in Peers, StartSend(c, f, p)
      PROVE EspNowIInv'
  <2>1. /\ future[f] = "none" /\ fate[f] = "none" /\ pc[c] = "idle"
        /\ pc' = [pc EXCEPT ![c] = "push"] /\ job' = [job EXCEPT ![c] = f]
        /\ to' = [to EXCEPT ![f] = p] /\ future' = [future EXCEPT ![f] = "pending"]
        /\ UNCHANGED <<initialized, air, fate, resets>>
    BY <1>6 DEF StartSend, CanSend, NewOK
  <2>2. /\ registered' \in SUBSET Peers /\ sendOrder' \in [Peers -> Seq(Packets)]
        /\ disturbed' \in BOOLEAN /\ (~disturbed' => ~disturbed)
        /\ InStep'
    <3>1. CASE UNCHANGED <<registered, sendOrder, disturbed>>
      BY <1>0, <2>1, <3>1 DEF EspNowTypeOK, InStep
    <3>2. CASE AddPeer(p) BY <1>0, <2>1, <3>2, AddPeerFacts
    <3> QED BY <1>6, <3>1, <3>2 DEF StartSend
  <2>3. EspNowTypeOK' BY <2>1, <2>2 DEF EspNowTypeOK
  <2>4. HeldOK' BY <1>0, <2>1 DEF HeldOK, Held, EspNowTypeOK
  <2>5. PacketsOK'
    <3>1. \A q \in Peers : \A i \in 1..Len(air[q]) : air[q][i] # f BY <2>1 DEF PacketsOK
    <3> QED BY <1>0, <2>1, <2>3, <2>4, <3>1, SameAir DEF PacketsOK, Held, EspNowTypeOK
  <2>6. NewOK' /\ OwnFate' BY <1>0, <2>1, <2>2 DEF NewOK, OwnFate, EspNowTypeOK
  <2>7. NoneInvented' BY <1>0, <2>1, SameConfirmed DEF EspNowTypeOK
  <2> QED BY <2>2, <2>3, <2>4, <2>5, <2>6, <2>7
<1>7. ASSUME NEW c \in Callers, Push(c) PROVE EspNowIInv'
  <2> DEFINE f == job[c]
             p == to[f]
  <2>1. /\ pc[c] = "push" /\ f \in Packets /\ p \in Peers
        /\ sendOrder' = [sendOrder EXCEPT ![p] = Append(@, f)]
        /\ pc' = [pc EXCEPT ![c] = "hand"]
        /\ UNCHANGED <<initialized, registered, air, job, to, future, fate, disturbed,
             resets>>
    BY <1>7 DEF Push, HeldOK, Held, driver
  <2>2. sendOrder[p] \in Seq(Packets) BY <2>1 DEF EspNowTypeOK
  <2>3. /\ Append(sendOrder[p], f) \in Seq(Packets)
        /\ Len(Append(sendOrder[p], f)) = Len(sendOrder[p]) + 1
        /\ Len(sendOrder[p]) \in Nat
        /\ \A i \in 1..Len(sendOrder[p]) : Append(sendOrder[p], f)[i] = sendOrder[p][i]
    BY <2>1, <2>2, AppendProperties, LenProperties
  <2>4. EspNowTypeOK' BY <2>1, <2>3 DEF EspNowTypeOK
  <2>5. \A d \in Callers : Held(d)' <=> Held(d) BY <1>0, <2>1 DEF Held, EspNowTypeOK
  <2>6. HeldOK' BY <2>1, <2>5 DEF HeldOK
  <2>7. PacketsOK' BY <2>1, <2>5 DEF PacketsOK
  <2>8. NewOK' /\ OwnFate' /\ NoneInvented' BY <2>1 DEF NewOK, OwnFate, NoneInvented
  <2>9. InStep'
    <3>1. ASSUME ~disturbed, NEW q \in Peers
          PROVE  /\ Len(air[q]) <= Len(sendOrder'[q])
                 /\ \A i \in 1..Len(air[q]) : sendOrder'[q][i] = air[q][i]
      <4>1. /\ Len(air[q]) <= Len(sendOrder[q]) /\ Len(air[q]) \in Nat
            /\ \A i \in 1..Len(air[q]) : sendOrder[q][i] = air[q][i]
        BY <1>0, <3>1, LenProperties DEF InStep, EspNowTypeOK
      <4>2. CASE q = p
        <5>1. sendOrder'[q] = Append(sendOrder[p], f)
          BY <1>0, <2>1, <4>2 DEF EspNowTypeOK
        <5> QED BY <2>3, <4>1, <4>2, <5>1
      <4>3. CASE q # p BY <1>0, <2>1, <4>1, <4>3 DEF EspNowTypeOK
      <4> QED BY <4>2, <4>3
    <3> QED BY <2>1, <3>1 DEF InStep
  <2> QED BY <2>4, <2>6, <2>7, <2>8, <2>9
<1>8. ASSUME NEW c \in Callers, HandOver(c) PROVE EspNowIInv'
  <2> DEFINE f == job[c]
             p == to[f]
             a == air[p]
  <2>1. /\ pc[c] = "hand" /\ f \in Packets /\ p \in Peers
        /\ air' = [air EXCEPT ![p] = Append(@, f)]
        /\ pc' = [pc EXCEPT ![c] = "idle"] /\ job' = [job EXCEPT ![c] = Nothing]
        /\ UNCHANGED <<initialized, registered, sendOrder, to, future, fate, resets>>
    BY <1>8 DEF HandOver, Return, HeldOK, Held
  <2>2. disturbed' = (disturbed \/ ~IsInNextPlace(f, p)) BY <1>8 DEF HandOver
  <2>3. /\ a \in Seq(Packets) /\ Append(a, f) \in Seq(Packets)
        /\ Len(Append(a, f)) = Len(a) + 1 /\ Len(a) \in Nat
        /\ \A i \in 1..Len(a) : Append(a, f)[i] = a[i]
        /\ Append(a, f)[Len(a) + 1] = f
    <3>1. a \in Seq(Packets) BY <2>1 DEF EspNowTypeOK
    <3> QED BY <2>1, <3>1, AppendProperties, LenProperties
  <2>4. /\ air'[p] = Append(a, f)
        /\ \A q \in Peers : q # p => air'[q] = air[q]
    BY <1>0, <2>1 DEF EspNowTypeOK
  <2>5. disturbed' \in BOOLEAN BY <1>0, <2>2 DEF EspNowTypeOK
  <2>6. EspNowTypeOK' BY <2>1, <2>3, <2>5 DEF EspNowTypeOK
  <2>7. \A d \in Callers : Held(d)' => d # c /\ Held(d) /\ job'[d] = job[d]
    BY <1>0, <2>1 DEF Held, EspNowTypeOK
  <2>8. HeldOK' BY <2>1, <2>7 DEF HeldOK
  <2>9. PacketsOK'
    <3>1. /\ fate[f] = "none" /\ future[f] # "none"
          /\ (\A d \in Callers : Held(d)' => job'[d] # f)
      BY <2>1, <2>7 DEF HeldOK, Held
    <3>2. \A q \in Peers : \A i \in 1..Len(air[q]) : air[q][i] # f
      BY <2>1 DEF PacketsOK, Held
    <3>3. \A q \in Peers : \A i \in 1..Len(air'[q]) :
            \/ i \in 1..Len(air[q]) /\ air'[q][i] = air[q][i]
            \/ q = p /\ i = Len(a) + 1 /\ air'[q][i] = f
      <4>1. ASSUME NEW q \in Peers, NEW i \in 1..Len(air'[q]), q = p
            PROVE  \/ i \in 1..Len(air[q]) /\ air'[q][i] = air[q][i]
                   \/ q = p /\ i = Len(a) + 1 /\ air'[q][i] = f
        <5>1. air'[q] = Append(a, f) /\ air[q] = a BY <2>4, <4>1
        <5>2. i \in 1..(Len(a) + 1) BY <2>3, <5>1
        <5>3. CASE i = Len(a) + 1 BY <2>3, <4>1, <5>1, <5>3
        <5>4. CASE i # Len(a) + 1
          <6>1. i \in 1..Len(a) BY <2>3, <5>2, <5>4
          <6> QED BY <2>3, <5>1, <6>1
        <5> QED BY <5>3, <5>4
      <4> QED BY <2>4, <4>1
    <3>4. \A q \in Peers : \A i \in 1..Len(air'[q]) :
            /\ fate'[air'[q][i]] = "none" /\ future'[air'[q][i]] # "none"
            /\ \A d \in Callers : Held(d)' => job'[d] # air'[q][i]
      BY <2>1, <2>7, <3>1, <3>3 DEF PacketsOK
    <3>5. \A q, r \in Peers : \A i \in 1..Len(air'[q]) : \A j \in 1..Len(air'[r]) :
            air'[r][j] = air'[q][i] => r = q /\ j = i
      BY <3>2, <3>3 DEF PacketsOK
    <3> QED BY <3>4, <3>5 DEF PacketsOK
  <2>10. InStep'
    <3>1. ASSUME ~disturbed', NEW q \in Peers
          PROVE  /\ Len(air'[q]) <= Len(sendOrder[q])
                 /\ \A i \in 1..Len(air'[q]) : sendOrder[q][i] = air'[q][i]
      <4>1. ~disturbed /\ IsInNextPlace(f, p) BY <2>2, <3>1
      <4>2. /\ Len(air[q]) <= Len(sendOrder[q]) /\ Len(air[q]) \in Nat
            /\ Len(sendOrder[q]) \in Nat
            /\ \A i \in 1..Len(air[q]) : sendOrder[q][i] = air[q][i]
        BY <1>0, <4>1, LenProperties DEF InStep, EspNowTypeOK
      <4>3. CASE q = p
        <5>1. Len(a) < Len(sendOrder[p]) /\ sendOrder[p][Len(a) + 1] = f
          BY <4>1 DEF IsInNextPlace
        <5>2. Len(air'[q]) = Len(a) + 1 /\ Len(a) + 1 <= Len(sendOrder[q])
          <6>1. /\ air'[q] = Append(a, f) /\ Len(sendOrder[q]) \in Nat
                /\ Len(a) < Len(sendOrder[q])
            BY <2>4, <4>2, <4>3, <5>1
          <6>2. Len(Append(a, f)) = Len(a) + 1 /\ Len(a) \in Nat BY <2>3
          <6> QED BY <6>1, <6>2
        <5>3. ASSUME NEW i \in 1..Len(air'[q]) PROVE sendOrder[q][i] = air'[q][i]
          <6>1. CASE i = Len(a) + 1 BY <2>3, <2>4, <4>3, <5>1, <6>1
          <6>2. CASE i # Len(a) + 1
            <7>1. i \in 1..Len(a) BY <2>3, <5>2, <6>2
            <7> QED BY <2>3, <2>4, <4>2, <4>3, <7>1
          <6> QED BY <6>1, <6>2
        <5> QED BY <5>2, <5>3
      <4>4. CASE q # p BY <2>4, <4>2, <4>4
      <4> QED BY <4>3, <4>4
    <3> QED BY <2>1, <3>1 DEF InStep
  <2>11. ~disturbed' => ~disturbed BY <2>2, <1>0 DEF EspNowTypeOK
  <2>12. NewOK' /\ OwnFate' /\ NoneInvented'
    BY <2>1, <2>11 DEF NewOK, OwnFate, NoneInvented
  <2> QED BY <2>6, <2>8, <2>9, <2>10, <2>12
<1>9. ASSUME NEW c \in Callers, Refuse(c) PROVE EspNowIInv'
  <2> DEFINE f == job[c]
             p == to[f]
             q == sendOrder[p]
  <2>1. /\ pc[c] = "hand" /\ f \in Packets /\ p \in Peers
        /\ fate[f] = "none" /\ future[f] # "none"
        /\ sendOrder' = [sendOrder EXCEPT ![p] = IF q = <<>> THEN q ELSE Tail(q)]
        /\ Settle(f, "error")
        /\ fate' = [fate EXCEPT ![f] = "error"]
        /\ pc' = [pc EXCEPT ![c] = "idle"] /\ job' = [job EXCEPT ![c] = Nothing]
        /\ UNCHANGED <<initialized, registered, air, to, resets>>
    BY <1>9 DEF Refuse, Return, HeldOK, Held, driver
  <2>2. disturbed' = (disturbed \/ q = <<>> \/ Head(q) # f) BY <1>9 DEF Refuse
  <2>3. disturbed' \in BOOLEAN BY <1>0, <2>2 DEF EspNowTypeOK
  <2>4. /\ future'[f] = IF future[f] = "pending" THEN "error" ELSE future[f]
        /\ \A g \in Packets \ {f} : future'[g] = future[g]
        /\ future' \in [Packets -> {"none", "pending", "ok", "error"}]
    BY <1>0, <2>1 DEF Settle, EspNowTypeOK
  <2>5. /\ fate'[f] = "error"
        /\ \A g \in Packets \ {f} : fate'[g] = fate[g]
        /\ fate' \in [Packets -> {"none", "ok", "error"}]
    BY <1>0, <2>1 DEF EspNowTypeOK
  <2>6. /\ q \in Seq(Packets)
        /\ (IF q = <<>> THEN q ELSE Tail(q)) \in Seq(Packets)
        /\ \A r \in Peers : r # p => sendOrder'[r] = sendOrder[r]
    <3>1. q \in Seq(Packets) BY <2>1 DEF EspNowTypeOK
    <3> QED BY <1>0, <2>1, <3>1, PopIndices DEF EspNowTypeOK
  <2>7. EspNowTypeOK' BY <2>1, <2>3, <2>4, <2>5, <2>6 DEF EspNowTypeOK
  <2>8. \A d \in Callers : Held(d)'
          => d # c /\ Held(d) /\ job'[d] = job[d] /\ job[d] # f
    BY <1>0, <2>1 DEF Held, EspNowTypeOK, HeldOK
  <2>9. HeldOK' BY <2>1, <2>4, <2>5, <2>8 DEF HeldOK
  <2>10. \A r \in Peers : \A i \in 1..Len(air[r]) : air[r][i] # f
    BY <2>1 DEF PacketsOK, Held
  <2>11. PacketsOK'
    <3>1. \A r \in Peers : \A i \in 1..Len(air[r]) : air[r][i] \in Packets \ {f}
      BY <2>10, ElementOfSeq DEF EspNowTypeOK
    <3>2. \A g \in Packets :
            (\E r \in Peers : \E i \in 1..Len(air[r]) : air[r][i] = g) =>
            fate'[g] = fate[g] /\ future'[g] = future[g] /\
              (\A d \in Callers : Held(d)' => job'[d] # g)
      BY <2>4, <2>5, <2>8, <3>1 DEF PacketsOK
    <3> QED BY <2>1, <2>7, <2>9, <3>2, SameAir
  <2>12. NewOK' BY <2>1, <2>4, <2>5 DEF NewOK
  <2>13. ASSUME ~disturbed' PROVE ~disturbed /\ q # <<>> /\ Head(q) = f BY <2>2, <2>13
  <2>14. InStep'
    <3>1. ASSUME ~disturbed', NEW r \in Peers
          PROVE  /\ Len(air[r]) <= Len(sendOrder'[r])
                 /\ \A i \in 1..Len(air[r]) : sendOrder'[r][i] = air[r][i]
      <4>1. /\ Len(air[r]) <= Len(sendOrder[r]) /\ Len(air[r]) \in Nat
            /\ \A i \in 1..Len(air[r]) : sendOrder[r][i] = air[r][i]
        BY <1>0, <2>13, <3>1, LenProperties DEF InStep, EspNowTypeOK
      <4>2. CASE r # p BY <2>6, <4>1, <4>2
      <4>3. CASE r = p
        <5>1. Head(q) = q[1] /\ Head(q) = f BY <2>6, <2>13, <3>1, PopIndices
        <5>2. Len(air[r]) = 0
          <6>1. Len(air[r]) # 0 => 1 \in 1..Len(air[r]) BY <4>1
          <6> QED BY <2>10, <4>1, <4>3, <5>1, <6>1
        <5>3. Len(sendOrder'[r]) \in Nat BY <2>7, LenProperties DEF EspNowTypeOK
        <5> QED BY <5>2, <5>3
      <4> QED BY <4>2, <4>3
    <3> QED BY <2>1, <3>1 DEF InStep
  <2>15. OwnFate'
    <3>1. ASSUME ~disturbed', NEW g \in Packets, future'[g] \in {"ok", "error"}
          PROVE future'[g] = fate'[g]
      <4>1. \A h \in Packets : future[h] \in {"ok", "error"} => future[h] = fate[h]
        BY <2>13, <3>1 DEF OwnFate
      <4>2. CASE g = f BY <2>1, <2>4, <2>5, <3>1, <4>1, <4>2
      <4>3. CASE g # f BY <2>4, <2>5, <3>1, <4>1, <4>3
      <4> QED BY <4>2, <4>3
    <3> QED BY <3>1 DEF OwnFate
  <2>16. NoneInvented' BY <2>1, <2>4, <2>5, SameConfirmed
  <2> QED BY <2>7, <2>9, <2>11, <2>12, <2>14, <2>15, <2>16
<1>10. ASSUME NEW p \in Peers, NEW s \in {"ok", "error"}, OnSent(p, s) PROVE EspNowIInv'
  <2> DEFINE f == Head(air[p])
             q == sendOrder[p]
  <2>1. /\ air[p] # <<>> /\ air' = [air EXCEPT ![p] = Tail(@)]
        /\ fate' = [fate EXCEPT ![f] = s]
        /\ UNCHANGED <<initialized, registered, pc, job, to, disturbed, resets>>
    BY <1>10 DEF OnSent
  <2>2. /\ air[p] \in Seq(Packets) /\ Len(air[p]) \in Nat \ {0}
        /\ f = air[p][1] /\ f \in Packets
        /\ Tail(air[p]) \in Seq(Packets) /\ Len(Tail(air[p])) = Len(air[p]) - 1
        /\ \A i \in 1..Len(Tail(air[p])) : Tail(air[p])[i] = air[p][i + 1]
    <3>1. air[p] \in Seq(Packets) BY DEF EspNowTypeOK
    <3> QED BY <2>1, <3>1, PopIndices
  <2>3. /\ air'[p] = Tail(air[p])
        /\ \A r \in Peers : r # p => air'[r] = air[r]
    BY <1>0, <2>1 DEF EspNowTypeOK
  <2>4. /\ fate[f] = "none" /\ future[f] # "none"
        /\ (\A d \in Callers : Held(d) => job[d] # f)
    <3>1. 1 \in 1..Len(air[p]) BY <2>2
    <3> QED BY <2>2, <3>1 DEF PacketsOK
  <2>5. /\ fate'[f] = s
        /\ \A g \in Packets \ {f} : fate'[g] = fate[g]
        /\ fate' \in [Packets -> {"none", "ok", "error"}]
    BY <1>0, <2>1, <2>2 DEF EspNowTypeOK
  <2>6. PICK h \in Packets :
          /\ \A g \in Packets \ {h} : future'[g] = future[g]
          /\ future'[h] = future[h] \/ (future[h] = "pending" /\ future'[h] = s)
          /\ future' \in [Packets -> {"none", "pending", "ok", "error"}]
          /\ q # <<>> => h = Head(q) /\ (future[h] = "pending" => future'[h] = s)
    <3>1. CASE q = <<>>
      <4>1. future' = future BY <1>10, <3>1 DEF OnSent
      <4> QED BY <1>0, <2>2, <3>1, <4>1 DEF EspNowTypeOK
    <3>2. CASE q # <<>>
      <4>1. Settle(Head(q), s) BY <1>10, <3>2 DEF OnSent
      <4>2. q \in Seq(Packets) BY DEF EspNowTypeOK
      <4>3. Head(q) \in Packets BY <3>2, <4>2, PopIndices
      <4> QED BY <1>0, <4>1, <4>3 DEF Settle, EspNowTypeOK
    <3> QED BY <3>1, <3>2
  <2>7. /\ sendOrder' \in [Peers -> Seq(Packets)]
        /\ \A r \in Peers : r # p => sendOrder'[r] = sendOrder[r]
        /\ q # <<>> => sendOrder'[p] = Tail(q)
    <3>1. CASE q = <<>>
      <4>1. sendOrder' = sendOrder BY <1>10, <3>1 DEF OnSent
      <4> QED BY <1>0, <3>1, <4>1 DEF EspNowTypeOK
    <3>2. CASE q # <<>>
      <4>1. sendOrder' = [sendOrder EXCEPT ![p] = Tail(q)] BY <1>10, <3>2 DEF OnSent
      <4>2. q \in Seq(Packets) BY DEF EspNowTypeOK
      <4>3. Tail(q) \in Seq(Packets) BY <3>2, <4>2, PopIndices
      <4> QED BY <1>0, <4>1, <4>3 DEF EspNowTypeOK
    <3> QED BY <3>1, <3>2
  <2>8. EspNowTypeOK'
    <3>1. air' \in [Peers -> Seq(Packets)] BY <1>0, <2>1, <2>2 DEF EspNowTypeOK
    <3> QED BY <2>1, <2>5, <2>6, <2>7, <3>1 DEF EspNowTypeOK
  <2>9. \A g \in Packets : (future'[g] = "none") <=> (future[g] = "none") BY <2>6
  <2>10. HeldOK' BY <2>1, <2>4, <2>5, <2>9 DEF HeldOK, Held
  <2>11. PacketsOK'
    <3>1. \A r \in Peers : \A i \in 1..Len(air'[r]) : \E k \in 1..Len(air[r]) :
            /\ air'[r][i] = air[r][k] /\ air[r][k] \in Packets
            /\ IF r = p THEN k = i + 1 ELSE k = i
      <4>1. ASSUME NEW r \in Peers, NEW i \in 1..Len(air'[r]), r = p
            PROVE  /\ i + 1 \in 1..Len(air[r]) /\ air'[r][i] = air[r][i + 1]
                   /\ air[r][i + 1] \in Packets
        <5>0. air'[r] = Tail(air[p]) /\ air[r] = air[p] /\ i \in 1..Len(Tail(air[p]))
          BY <2>3, <4>1
        <5>1. i + 1 \in 1..Len(air[r]) /\ air'[r][i] = air[r][i + 1] BY <2>2, <5>0
        <5> QED BY <2>2, <4>1, <5>1, ElementOfSeq
      <4>2. ASSUME NEW r \in Peers, NEW i \in 1..Len(air'[r]), r # p
            PROVE  /\ i \in 1..Len(air[r]) /\ air'[r][i] = air[r][i]
                   /\ air[r][i] \in Packets
        <5>1. i \in 1..Len(air[r]) /\ air'[r][i] = air[r][i] BY <2>3, <4>2
        <5> QED BY <5>1, ElementOfSeq DEF EspNowTypeOK
      <4> QED BY <4>1, <4>2
    <3>2. \A r \in Peers : \A i \in 1..Len(air'[r]) : air'[r][i] \in Packets \ {f}
      <4>1. 1 \in 1..Len(air[p]) /\ f = air[p][1] BY <2>2
      <4>2. ASSUME NEW r \in Peers, NEW i \in 1..Len(air'[r])
            PROVE air'[r][i] \in Packets \ {f}
        <5>1. PICK k \in 1..Len(air[r]) :
                /\ air'[r][i] = air[r][k] /\ air[r][k] \in Packets
                /\ IF r = p THEN k = i + 1 ELSE k = i
          BY <3>1
        <5>2. ~(r = p /\ k = 1) BY <5>1
        <5>3. air[r][k] # f BY <4>1, <5>2 DEF PacketsOK
        <5> QED BY <5>1, <5>3
      <4> QED BY <4>2
    <3>3. \A r \in Peers : \A i \in 1..Len(air'[r]) :
            /\ fate'[air'[r][i]] = "none" /\ future'[air'[r][i]] # "none"
            /\ \A d \in Callers : Held(d)' => job'[d] # air'[r][i]
      <4>1. \A r \in Peers : \A i \in 1..Len(air'[r]) :
              /\ fate[air'[r][i]] = "none" /\ future[air'[r][i]] # "none"
              /\ \A d \in Callers : Held(d) => job[d] # air'[r][i]
        <5>1. ASSUME NEW r \in Peers, NEW i \in 1..Len(air'[r])
              PROVE  /\ fate[air'[r][i]] = "none" /\ future[air'[r][i]] # "none"
                     /\ \A d \in Callers : Held(d) => job[d] # air'[r][i]
          <6>1. PICK k \in 1..Len(air[r]) : air'[r][i] = air[r][k] BY <3>1
          <6> QED BY <6>1 DEF PacketsOK
        <5> QED BY <5>1
      <4>2. \A d \in Callers : (Held(d)' <=> Held(d)) /\ job'[d] = job[d]
        BY <2>1 DEF Held
      <4>3. ASSUME NEW r \in Peers, NEW i \in 1..Len(air'[r])
            PROVE  fate'[air'[r][i]] = "none" /\ future'[air'[r][i]] # "none"
        <5>1. air'[r][i] \in Packets \ {f} BY <3>2
        <5>2. fate[air'[r][i]] = "none" /\ future[air'[r][i]] # "none" BY <4>1
        <5> QED BY <2>5, <2>9, <5>1, <5>2
      <4> QED BY <4>1, <4>2, <4>3
    <3>4. ASSUME NEW r \in Peers, NEW i \in 1..Len(air'[r]), NEW t \in Peers,
                 NEW j \in 1..Len(air'[t]),
                 air'[t][j] = air'[r][i]
          PROVE  t = r /\ j = i
      <4>1. PICK k \in 1..Len(air[r]) :
              air'[r][i] = air[r][k] /\ IF r = p THEN k = i + 1 ELSE k = i
        BY <3>1
      <4>2. PICK l \in 1..Len(air[t]) :
              air'[t][j] = air[t][l] /\ IF t = p THEN l = j + 1 ELSE l = j
        BY <3>1
      <4>3. t = r /\ l = k BY <3>4, <4>1, <4>2 DEF PacketsOK
      <4> QED BY <4>1, <4>2, <4>3
    <3> QED BY <3>3, <3>4 DEF PacketsOK
  <2>12. NewOK' BY <2>4, <2>5, <2>9 DEF NewOK
  <2>13. ASSUME ~disturbed
         PROVE  q # <<>> /\ Head(q) = f /\ q \in Seq(Packets) /\ Len(air[p]) <= Len(q)
    <3>1. Len(air[p]) <= Len(q) /\ (\A i \in 1..Len(air[p]) : q[i] = air[p][i])
      BY <2>13 DEF InStep
    <3>2. q \in Seq(Packets) BY DEF EspNowTypeOK
    <3>3. q # <<>> BY <2>2, <3>1, <3>2, EmptySeq
    <3>4. Head(q) = q[1] BY <3>2, <3>3, PopIndices
    <3> QED BY <2>2, <3>1, <3>2, <3>3, <3>4
  <2>14. InStep'
    <3>1. ASSUME ~disturbed, NEW r \in Peers
          PROVE  /\ Len(air'[r]) <= Len(sendOrder'[r])
                 /\ \A i \in 1..Len(air'[r]) : sendOrder'[r][i] = air'[r][i]
      <4>1. CASE r # p BY <2>3, <2>7, <3>1, <4>1 DEF InStep
      <4>2. CASE r = p
        <5>1. /\ Len(air[p]) <= Len(q) /\ (\A i \in 1..Len(air[p]) : q[i] = air[p][i])
          BY <3>1 DEF InStep
        <5>2. /\ Len(q) \in Nat \ {0} /\ Len(Tail(q)) = Len(q) - 1
              /\ \A i \in 1..Len(Tail(q)) : Tail(q)[i] = q[i + 1]
          BY <2>13, <3>1, PopIndices
        <5>3. sendOrder'[r] = Tail(q) /\ air'[r] = Tail(air[p])
          BY <2>3, <2>7, <2>13, <3>1, <4>2
        <5> QED BY <2>2, <5>1, <5>2, <5>3
      <4> QED BY <4>1, <4>2
    <3> QED BY <2>1, <3>1 DEF InStep
  <2>15. OwnFate'
    <3>1. ASSUME ~disturbed, NEW g \in Packets, future'[g] \in {"ok", "error"}
          PROVE future'[g] = fate'[g]
      <4>1. \A x \in Packets : future[x] \in {"ok", "error"} => future[x] = fate[x]
        BY <3>1 DEF OwnFate
      <4>2. h = f BY <2>6, <2>13, <3>1
      <4>3. CASE g = f
        <5>1. future[f] = "pending" BY <1>0, <2>2, <2>4, <4>1 DEF EspNowTypeOK
        <5> QED BY <2>5, <2>6, <2>13, <3>1, <4>2, <4>3, <5>1
      <4>4. CASE g # f BY <2>5, <2>6, <3>1, <4>1, <4>2, <4>4
      <4> QED BY <4>3, <4>4
    <3> QED BY <2>1, <3>1 DEF OwnFate
  <2>16. NoneInvented'
    <3>1. CASE s = "ok" BY <2>2, <2>4, <2>5, <2>6, <3>1, OneConfirmed
    <3>2. CASE s = "error"
      <4>1. \A g \in Packets : future'[g] = "ok" <=> future[g] = "ok" BY <2>6, <3>2
      <4>2. \A g \in Packets : fate'[g] = "ok" <=> fate[g] = "ok" BY <2>4, <2>5, <3>2
      <4> QED BY <4>1, <4>2, SameConfirmed
    <3> QED BY <3>1, <3>2
  <2> QED BY <2>8, <2>10, <2>11, <2>12, <2>14, <2>15, <2>16
<1>11. CASE UNCHANGED espNowVars
  BY <1>11
  DEF espNowVars, driver, EspNowTypeOK, HeldOK, Held, PacketsOK, NewOK, InStep, OwnFate,
      NoneInvented
<1> QED
  BY <1>1, <1>2, <1>3, <1>4, <1>5, <1>6, <1>7, <1>8, <1>9, <1>10, <1>11
  DEF EspNowNext, CallerStep, Report

\* AsyncEspNow's state keeps its types.
THEOREM EspNowTypeCorrect == EspNowSpec => []EspNowTypeOK
<1>1. EspNowIInv => EspNowTypeOK BY DEF EspNowIInv
<1> QED BY <1>1, EspNowInitIInv, EspNowNextIInv, PTL DEF EspNowSpec, EspNowSafeSpec

\* The promises of the frames that the driver has stand at the front of the peer's
\* queue, in the driver's order, until one of four things has put them out of step.
THEOREM QueuesInStep == EspNowSpec => []InStep
<1>1. EspNowIInv => InStep BY DEF EspNowIInv
<1> QED BY <1>1, EspNowInitIInv, EspNowNextIInv, PTL DEF EspNowSpec, EspNowSafeSpec

\* Until then send()'s future says what became of its own frame.
THEOREM FuturesTellTheirFate == EspNowSpec => []OwnFate
<1>1. EspNowIInv => OwnFate BY DEF EspNowIInv
<1> QED BY <1>1, EspNowInitIInv, EspNowNextIInv, PTL DEF EspNowSpec, EspNowSafeSpec

\* And even after it no more futures are confirmed than frames were.
THEOREM NothingInvented == EspNowSpec => []NoneInvented
<1>1. EspNowIInv => NoneInvented BY DEF EspNowIInv
<1> QED BY <1>1, EspNowInitIInv, EspNowNextIInv, PTL DEF EspNowSpec, EspNowSafeSpec

(***************************************************************************)
(* Interaction.                                                            *)
(***************************************************************************)
\* The exchange a message belongs to: that of the send or request that began it.
Root(m) == IF info[m].kind = "response" THEN info[m].re ELSE m
Owner(m) == IF info[m].kind = "response" THEN info[m].to ELSE info[m].from

\* Something that bears the message's id is still about.
Alive(m) ==
  \/ InChannel(m)
  \/ InPieces(m)
  \/ /\ info[m].kind = "request"
     /\ \/ requests[info[m].from][info[m].id] = m
        \/ m \notin cleaned /\ (Fails(m) \/ sent[m] = "sending")
        \/ delivered[m] # "no" /\ Responses(m) = {}

\* No message is empty.  A response goes back to where its request came from,
\* under its id, and is the only one.
InfoOK ==
  /\ \A m \in Made : info[m].size # 0
  /\ \A m \in Of("response") :
       /\ info[m].re \in Of("request")
       /\ info[m].to = info[info[m].re].from
       /\ info[m].id = info[info[m].re].id
  /\ \A m, o \in Of("response") : info[m].re = info[o].re => m = o

\* Nothing has become of a message that was not made.
FreshOK ==
  \A m \in Messages \ Made :
    /\ answer[m] = None /\ sent[m] = "no" /\ delivered[m] = "no"
    /\ m \notin cancelled \cup cleaned \cup gaps \cup rejected

EntriesOK ==
  \A n \in Nodes, i \in Ids :
    LET r == requests[n][i]
    IN  r # None => /\ r \in Of("request") /\ info[r].from = n /\ info[r].id = i
                    /\ answer[r] = None /\ r \notin cancelled

\* The frames of a message are on their way to its receiver, in their order.
AirOK(n) ==
  /\ \A j \in 1..Len(channel[n]) :
       LET f == channel[n][j]
       IN  f.msg \in Made /\ info[f.msg].to = n /\ f.index \in 0..(Count(f.msg) - 1)
  /\ \A i, j \in 1..Len(channel[n]) :
       i < j /\ channel[n][i].msg = channel[n][j].msg =>
         channel[n][i].index < channel[n][j].index
ChannelOK == \A n \in Nodes : AirOK(n)

\* One exchange at a time bears an id of its owner.
AloneOK ==
  \A m, o \in Made :
    Alive(m) /\ Alive(o) /\ Owner(m) = Owner(o) /\ info[m].id = info[o].id =>
      Root(m) = Root(o)

\* No request was cancelled, and one that was cleaned up has been sent or has failed.
SentOK == cancelled = {} /\ \A r \in cleaned : sent[r] # "sending"

\* Answers are the responses to their requests, and were put together before.
AnswersOK ==
  /\ \A r \in Messages : answer[r] # None =>
       /\ answer[r] \in Of("response") /\ info[answer[r]].re = r
       /\ delivered[answer[r]] # "no"
  /\ \A m \in Of("response") :
       delivered[m] # "no" => answer[info[m].re] = m \/ info[m].re \in cleaned

WaitingOK ==
  \A r \in Of("request") :
    answer[r] = None /\ r \notin cleaned => requests[info[r].from][info[r].id] = r

\* An entry holds parts of one message, counted, and all of them came before those
\* that are still on their way.
PartsOf(n, k) == DOMAIN partial[n][k].parts
Holds(n, k, m) ==
  LET e == partial[n][k]
  IN  /\ DOMAIN e = {"count", "received", "parts"}
      /\ info[m].to = n /\ Key(m) = k
      /\ e.count = Count(m)
      /\ DOMAIN e.parts \subseteq 0..(Count(m) - 1) /\ DOMAIN e.parts # {}
      /\ \A i \in DOMAIN e.parts : e.parts[i] = m
      /\ e.received = Cardinality(DOMAIN e.parts) /\ e.received # e.count
      /\ \A j \in 1..Len(channel[n]) : channel[n][j].msg = m =>
           \A i \in DOMAIN e.parts : i < channel[n][j].index
PartialOK ==
  /\ partial = [n \in Nodes |-> partial[n]]
  /\ \A n \in Nodes : \A k \in DOMAIN partial[n] : \E m \in Made : Holds(n, k, m)

\* What was put together is whole, and nothing of it is left.
DoneOK ==
  \A m \in Made : delivered[m] # "no" =>
    delivered[m] = "whole" /\ ~InChannel(m) /\ ~InPieces(m)

InAir(n, m, i) == \E j \in 1..Len(channel[n]) : channel[n][j] = Frame(m, i)
Here(m, i) ==
  Key(m) \in DOMAIN partial[info[m].to] /\ i \in PartsOf(info[m].to, Key(m))

\* The frames of a message that has lost none are on their way or were received.
CompleteOK ==
  \A m \in Made \ (gaps \cup rejected) : delivered[m] = "no" =>
    /\ InChannel(m)
    /\ \A n \in Nodes, i \in 0..(Count(m) - 1) :
         info[m].to = n => InAir(n, m, i) \/ Here(m, i)

Always == TypeOK /\ InfoOK /\ FreshOK /\ EntriesOK /\ ChannelOK
Orderly ==
  /\ AloneOK /\ SentOK /\ AnswersOK /\ WaitingOK /\ PartialOK /\ DoneOK /\ CompleteOK
InteractionIInv == Always /\ (reused \/ Orderly)
Infos == [kind : {"send", "request", "response"}, from : Nodes, to : Nodes,
          size : Nat, re : Messages \cup {None}, id : Ids]
FrameRecords == [msg : Messages, index : Nat]

\* A message that is not empty has at least one part.
LEMMA PartsCountFacts ==
  ASSUME NEW s \in Nat
  PROVE  PartsCount(s) \in Nat /\ (s # 0 => PartsCount(s) # 0)
<1>1. MaxData \in Nat \ {0} BY InteractionAssumption
<1>2. /\ s \div MaxData \in Nat /\ s % MaxData \in Nat
      /\ s = MaxData * (s \div MaxData) + (s % MaxData)
  BY <1>1, SMTT(30)
<1>3. s \div MaxData = 0 /\ s % MaxData = 0 => s = 0 BY <1>1, <1>2, SMTT(30)
<1> QED BY <1>2, <1>3 DEF PartsCount

\* What the types say of a message.
LEMMA MadeFacts ==
  ASSUME TypeOK
  PROVE  /\ info \in Seq(Infos) /\ Len(info) \in Nat /\ Made \subseteq Messages
         /\ None \notin Messages
         /\ \A m \in Made : info[m] \in Infos /\ Count(m) \in Nat
<1>1. info \in Seq(Infos) /\ Len(info) \in Nat /\ Len(info) <= MaxMessages
  BY LenProperties DEF TypeOK, Infos
<1>2. Made \subseteq Messages BY <1>1, InteractionAssumption DEF Made, Messages
<1>3. None \notin Messages BY InteractionAssumption DEF Messages
<1>4. \A m \in Made : info[m] \in Infos BY <1>1, ElementOfSeq DEF Made
<1>5. \A m \in Made : info[m].size \in Nat BY <1>4 DEF Infos
<1>6. \A m \in Made : Count(m) \in Nat BY <1>5, PartsCountFacts DEF Count
<1> QED BY <1>1, <1>2, <1>3, <1>4, <1>6

\* Where no message is made, all of them stay what they are.
LEMMA SameInfo ==
  ASSUME info' = info
  PROVE  /\ Made' = Made
         /\ \A kind : Of(kind)' = Of(kind)
         /\ \A m : /\ Key(m)' = Key(m) /\ Count(m)' = Count(m)
                   /\ Root(m)' = Root(m) /\ Owner(m)' = Owner(m)
                   /\ Responses(m)' = Responses(m)
BY DEF Made, Of, Key, Count, Root, Owner, Responses

\* The frames on their way to a node, by their places.
LEMMA ChannelFacts ==
  ASSUME TypeOK, NEW n \in Nodes
  PROVE  /\ channel[n] \in Seq(FrameRecords) /\ Len(channel[n]) \in Nat
         /\ \A j \in 1..Len(channel[n]) : channel[n][j] \in FrameRecords
<1>1. channel[n] \in Seq(FrameRecords) BY DEF TypeOK, FrameRecords
<1> QED BY <1>1, LenProperties, ElementOfSeq

\* What taking the oldest frame off a channel does to the frames.
TakenFrom(n) ==
  LET f == Head(channel[n])
  IN  /\ f.msg \in Made /\ info[f.msg].to = n /\ f = Frame(f.msg, f.index)
      /\ f.index \in 0..(Count(f.msg) - 1)
      /\ InChannel(f.msg) /\ InAir(n, f.msg, f.index)
      /\ channel' \in [Nodes -> Seq(FrameRecords)]
      /\ ChannelOK'
      /\ \A m : InChannel(m)' => InChannel(m)
      /\ \A m : InChannel(m) /\ m # f.msg => InChannel(m)'
      /\ \A p \in Nodes : \A m, i :
           InAir(p, m, i) /\ (m = f.msg => i # f.index) => InAir(p, m, i)'
      /\ \A p \in Nodes : \A j \in 1..Len(channel'[p]) :
           \E i \in 1..Len(channel[p]) : channel[p][i] = channel'[p][j]
      /\ \A p \in Nodes : \A j \in 1..Len(channel'[p]) : channel'[p][j].msg = f.msg =>
           p = n /\ f.index < channel'[p][j].index

\* Taking the oldest frame off a channel does that.
LEMMA TailFacts ==
  ASSUME TypeOK, ChannelOK, NEW n \in Nodes, channel[n] # <<>>,
         channel' = [channel EXCEPT ![n] = Tail(@)], info' = info
  PROVE  TakenFrom(n)
<1> DEFINE f == Head(channel[n])
           Count0(m) == 0..(Count(m) - 1)
<1>1. /\ Len(channel[n]) \in Nat \ {0} /\ f = channel[n][1] /\ f \in FrameRecords
      /\ Tail(channel[n]) \in Seq(FrameRecords)
      /\ Len(Tail(channel[n])) = Len(channel[n]) - 1
      /\ \A i \in 1..Len(Tail(channel[n])) : Tail(channel[n])[i] = channel[n][i + 1]
  <2>1. channel[n] \in Seq(FrameRecords) BY ChannelFacts
  <2> QED BY <2>1, PopIndices
<1>2. channel \in [Nodes -> Seq(FrameRecords)] BY DEF TypeOK, FrameRecords
<1>3. /\ channel'[n] = Tail(channel[n])
      /\ \A p \in Nodes : p # n => channel'[p] = channel[p]
      /\ channel' \in [Nodes -> Seq(FrameRecords)]
  BY <1>1, <1>2
<1>4. \A p \in Nodes : \A j \in 1..Len(channel'[p]) :
        \E i \in 1..Len(channel[p]) : channel[p][i] = channel'[p][j]
  <2> SUFFICES ASSUME NEW p \in Nodes, NEW j \in 1..Len(channel'[p])
               PROVE  \E i \in 1..Len(channel[p]) : channel[p][i] = channel'[p][j]
    OBVIOUS
  <2>1. CASE p = n
    <3>1. j + 1 \in 1..Len(channel[n]) /\ channel[n][j + 1] = channel'[n][j]
      BY <2>1, <1>1, <1>3
    <3> QED BY <3>1, <2>1
  <2>2. CASE p # n BY <2>2, <1>3
  <2> QED BY <2>1, <2>2
<1>5. \A p \in Nodes : \A j \in 1..Len(channel[p]) :
        \/ p = n /\ channel[p][j] = f
        \/ \E i \in 1..Len(channel'[p]) : channel'[p][i] = channel[p][j]
  <2> SUFFICES ASSUME NEW p \in Nodes, NEW j \in 1..Len(channel[p]),
                      ~(p = n /\ channel[p][j] = f)
               PROVE  \E i \in 1..Len(channel'[p]) : channel'[p][i] = channel[p][j]
    OBVIOUS
  <2>1. CASE p = n
    <3>1. j - 1 \in 1..Len(channel'[n]) /\ (j - 1) + 1 = j BY <2>1, <1>1, <1>3
    <3>2. channel'[n][j - 1] = channel[n][j] BY <3>1, <1>1, <1>3
    <3> QED BY <3>1, <3>2, <2>1
  <2>2. CASE p # n BY <2>2, <1>3
  <2> QED BY <2>1, <2>2
<1>6. \A p \in Nodes : AirOK(p) BY DEF ChannelOK
<1>7. /\ f.msg \in Made /\ info[f.msg].to = n /\ f.index \in Count0(f.msg)
      /\ f = Frame(f.msg, f.index)
  <2>1. 1 \in 1..Len(channel[n]) BY <1>1
  <2>2. f.msg \in Made /\ info[f.msg].to = n /\ f.index \in Count0(f.msg)
    BY <2>1, <1>1, <1>6 DEF AirOK
  <2> QED BY <2>2, <1>1 DEF FrameRecords, Frame
<1>8. InChannel(f.msg) /\ InAir(n, f.msg, f.index)
  <2>1. 1 \in 1..Len(channel[n]) BY <1>1
  <2> QED BY <2>1, <1>1, <1>7 DEF InChannel, InAir
<1>9. \A m : InChannel(m)' => InChannel(m) BY <1>4 DEF InChannel
<1>10. \A m : InChannel(m) /\ m # f.msg => InChannel(m)'
  <2> SUFFICES ASSUME NEW m, InChannel(m), m # f.msg PROVE InChannel(m)' OBVIOUS
  <2>1. PICK p \in Nodes : \E j \in 1..Len(channel[p]) : channel[p][j].msg = m
    BY DEF InChannel
  <2>2. PICK j \in 1..Len(channel[p]) : channel[p][j].msg = m BY <2>1
  <2>3. \E i \in 1..Len(channel'[p]) : channel'[p][i] = channel[p][j] BY <1>5, <2>2
  <2> QED BY <2>2, <2>3 DEF InChannel
<1>11. \A p \in Nodes : \A m, i :
         InAir(p, m, i) /\ (m = f.msg => i # f.index) => InAir(p, m, i)'
  <2> SUFFICES ASSUME NEW p \in Nodes, NEW m, NEW i, InAir(p, m, i),
                      m = f.msg => i # f.index
               PROVE  InAir(p, m, i)'
    OBVIOUS
  <2>1. PICK j \in 1..Len(channel[p]) : channel[p][j] = Frame(m, i) BY DEF InAir
  <2>2. channel[p][j] # f BY <2>1 DEF Frame
  <2>3. PICK k \in 1..Len(channel'[p]) : channel'[p][k] = channel[p][j]
    BY <2>2, <1>5
  <2> QED BY <2>1, <2>3 DEF InAir
<1>12. \A p \in Nodes : \A j \in 1..Len(channel'[p]) : channel'[p][j].msg = f.msg =>
         p = n /\ f.index < channel'[p][j].index
  <2> SUFFICES ASSUME NEW p \in Nodes, NEW j \in 1..Len(channel'[p]),
                      channel'[p][j].msg = f.msg
               PROVE  p = n /\ f.index < channel'[p][j].index
    OBVIOUS
  <2>1. PICK i \in 1..Len(channel[p]) : channel[p][i] = channel'[p][j] BY <1>4
  <2>2. info[f.msg].to = p BY <2>1, <1>6 DEF AirOK
  <2>3. p = n BY <2>2, <1>7
  <2>4. /\ 1 \in 1..Len(channel[n]) /\ j + 1 \in 1..Len(channel[n]) /\ 1 < j + 1
        /\ channel[n][j + 1] = channel'[n][j]
    BY <2>3, <1>1, <1>3
  <2>5. f.index < channel[n][j + 1].index BY <2>4, <2>3, <1>1, <1>6 DEF AirOK
  <2> QED BY <2>3, <2>4, <2>5
<1>13. ChannelOK'
  <2> SUFFICES ASSUME NEW p \in Nodes PROVE AirOK(p)' BY DEF ChannelOK
  <2>1. Made' = Made /\ \A m : Count(m)' = Count(m) BY SameInfo
  <2>2. CASE p # n
    <3>1. channel'[p] = channel[p] BY <2>2, <1>3
    <3> QED BY <3>1, <1>6, <2>1 DEF AirOK
  <2>3. CASE p = n
    <3>1. ASSUME NEW j \in 1..Len(channel'[n])
          PROVE  LET g == channel'[n][j]
                 IN  g.msg \in Made /\ info[g.msg].to = n /\ g.index \in Count0(g.msg)
      <4>1. PICK i \in 1..Len(channel[n]) : channel[n][i] = channel'[n][j] BY <1>4
      <4> QED BY <4>1, <1>6 DEF AirOK
    <3>2. ASSUME NEW i \in 1..Len(channel'[n]), NEW j \in 1..Len(channel'[n]),
                 i < j, channel'[n][i].msg = channel'[n][j].msg
          PROVE  channel'[n][i].index < channel'[n][j].index
      <4>1. /\ i + 1 \in 1..Len(channel[n]) /\ j + 1 \in 1..Len(channel[n])
            /\ i + 1 < j + 1
            /\ channel[n][i + 1] = channel'[n][i] /\ channel[n][j + 1] = channel'[n][j]
        BY <3>2, <1>1, <1>3
      <4> QED BY <4>1, <3>2, <1>6 DEF AirOK
    <3>3. AirOK(n)' BY <3>1, <3>2, <2>1 DEF AirOK
    <3> QED BY <3>3, <2>3
  <2> QED BY <2>2, <2>3
<1> QED
  BY <1>3, <1>4, <1>7, <1>8, <1>9, <1>10, <1>11, <1>12, <1>13 DEF TakenFrom

\* What making a message does to the messages and the frames.
MadeWith(m0, rec) ==
  /\ m0 \in Messages /\ m0 \notin Made /\ Made' = Made \cup {m0}
  /\ info' \in Seq(Infos) /\ Len(info') <= MaxMessages
  /\ info'[m0] = rec /\ \A m \in Made : info'[m] = info[m]
  /\ \A m \in Made : Key(m)' = Key(m) /\ Count(m)' = Count(m)
  /\ Count(m0)' = PartsCount(rec.size) /\ PartsCount(rec.size) \in Nat \ {0}
  /\ channel' \in [Nodes -> Seq(FrameRecords)]
  /\ ChannelOK'
  /\ \A m \in Made : InChannel(m)' <=> InChannel(m)
  /\ InChannel(m0)'
  /\ \A p \in Nodes : \A m, i : InAir(p, m, i) => InAir(p, m, i)'
  /\ \A i \in 0..(PartsCount(rec.size) - 1) : InAir(rec.to, m0, i)'
  /\ \A p \in Nodes : \A j \in 1..Len(channel'[p]) : channel'[p][j].msg # m0 =>
       j \in 1..Len(channel[p]) /\ channel'[p][j] = channel[p][j]

\* The place of a new frame in its channel.
LEMMA PlaceFacts ==
  ASSUME NEW l \in Nat, NEW c \in Nat \ {0}, NEW i \in 0..(c - 1)
  PROVE  /\ (l + i) + 1 \in 1..(l + c) /\ ~((l + i) + 1 <= l)
         /\ ((l + i) + 1) - l = i + 1 /\ i + 1 \in 1..c /\ (i + 1) - 1 = i
OBVIOUS

\* Making a message, whichever kind it is of.
LEMMA EmitFacts ==
  ASSUME TypeOK, ChannelOK, Len(info) < MaxMessages,
         NEW rec \in Infos, rec.size # 0,
         NEW m0, m0 = Len(info) + 1, Emit(m0, rec)
  PROVE  MadeWith(m0, rec)
<1> DEFINE c == PartsCount(rec.size)
           d == rec.to
           fs == Frames(m0, rec.size)
<1>1. /\ info \in Seq(Infos) /\ Len(info) \in Nat /\ Made \subseteq Messages
      /\ \A m \in Made : info[m] \in Infos
  BY MadeFacts
<1>2. m0 \in Messages /\ m0 \notin Made
  BY <1>1, InteractionAssumption DEF Messages, Made
<1>3. info' = Append(info, rec) BY DEF Emit
<1>4. /\ info' \in Seq(Infos) /\ Len(info') = m0 /\ info'[m0] = rec
      /\ \A m \in 1..Len(info) : info'[m] = info[m]
  BY <1>1, <1>3, AppendProperties
<1>5. Len(info') <= MaxMessages BY <1>1, <1>4, InteractionAssumption
<1>6. Made' = Made \cup {m0} BY <1>1, <1>4 DEF Made
<1>7. \A m \in Made : info'[m] = info[m] BY <1>4 DEF Made
<1>8. \A m \in Made : Key(m)' = Key(m) /\ Count(m)' = Count(m)
  BY <1>7 DEF Key, Count
<1>9. c \in Nat \ {0} /\ Count(m0)' = c
  <2>1. rec.size \in Nat BY DEF Infos
  <2> QED BY <2>1, <1>4, PartsCountFacts DEF Count
<1>10. d \in Nodes BY DEF Infos
<1>11. fs \in Seq(FrameRecords) /\ Len(fs) = c /\ \A i \in 1..c :
         fs[i] = Frame(m0, i - 1)
  <2>1. \A i \in 1..c : Frame(m0, i - 1) \in FrameRecords
    BY <1>2, <1>9 DEF Frame, FrameRecords
  <2>2. fs = [i \in 1..c |-> Frame(m0, i - 1)] BY DEF Frames
  <2> QED BY <2>1, <2>2, <1>9
<1> HIDE DEF fs, c
<1>12. channel \in [Nodes -> Seq(FrameRecords)] BY DEF TypeOK, FrameRecords
<1>13. channel' = [channel EXCEPT ![d] = @ \o fs] BY DEF Emit, fs
<1>14. /\ channel[d] \in Seq(FrameRecords) /\ Len(channel[d]) \in Nat
       /\ channel'[d] = channel[d] \o fs
       /\ \A p \in Nodes : p # d => channel'[p] = channel[p]
  BY <1>10, <1>12, <1>13, ChannelFacts
<1>a. c \in Nat \ {0} /\ Len(channel[d]) \in Nat BY <1>9, <1>14
<1>b. /\ channel[d] \o fs \in Seq(FrameRecords)
      /\ Len(channel[d] \o fs) = Len(channel[d]) + Len(fs)
      /\ \A j \in 1..(Len(channel[d]) + Len(fs)) : (channel[d] \o fs)[j] =
           IF j <= Len(channel[d]) THEN channel[d][j] ELSE fs[j - Len(channel[d])]
  BY <1>11, <1>14, ConcatProperties
<1>15. /\ channel'[d] \in Seq(FrameRecords) /\ Len(channel'[d]) = Len(channel[d]) + c
       /\ \A j \in 1..(Len(channel[d]) + c) : channel'[d][j] =
            IF j <= Len(channel[d]) THEN channel[d][j] ELSE fs[j - Len(channel[d])]
  BY <1>11, <1>14, <1>b
<1>16. channel' \in [Nodes -> Seq(FrameRecords)] BY <1>10, <1>12, <1>13, <1>14, <1>15
<1>17. \A p \in Nodes : \A j \in 1..Len(channel[p]) :
         j \in 1..Len(channel'[p]) /\ channel'[p][j] = channel[p][j]
  <2> SUFFICES ASSUME NEW p \in Nodes, NEW j \in 1..Len(channel[p])
               PROVE  j \in 1..Len(channel'[p]) /\ channel'[p][j] = channel[p][j]
    OBVIOUS
  <2>1. CASE p = d BY <2>1, <1>9, <1>14, <1>15
  <2>2. CASE p # d BY <2>2, <1>14
  <2> QED BY <2>1, <2>2
<1>18. \A p \in Nodes : \A j \in 1..Len(channel'[p]) :
         \/ j \in 1..Len(channel[p]) /\ channel'[p][j] = channel[p][j]
         \/ /\ p = d /\ j - Len(channel[d]) \in 1..c
            /\ channel'[p][j] = Frame(m0, (j - Len(channel[d])) - 1)
  <2> SUFFICES ASSUME NEW p \in Nodes, NEW j \in 1..Len(channel'[p]),
                      ~(j \in 1..Len(channel[p]) /\ channel'[p][j] = channel[p][j])
               PROVE  /\ p = d /\ j - Len(channel[d]) \in 1..c
                      /\ channel'[p][j] = Frame(m0, (j - Len(channel[d])) - 1)
    OBVIOUS
  <2>1. p = d BY <1>14
  <2>2. j \in 1..(Len(channel[d]) + c) /\ j \notin 1..Len(channel[d])
    <3>1. j \in 1..(Len(channel[d]) + c) BY <2>1, <1>15
    <3>2. ASSUME j \in 1..Len(channel[d]) PROVE FALSE BY <3>2, <2>1, <1>17
    <3> QED BY <3>1, <3>2
  <2>3. j - Len(channel[d]) \in 1..c /\ ~(j <= Len(channel[d]))
    BY <2>2, <1>9, <1>14
  <2>4. channel'[d][j] = fs[j - Len(channel[d])] BY <2>2, <2>3, <1>15
  <2> QED BY <2>1, <2>3, <2>4, <1>11
<1>19. \A i \in 0..(c - 1) : InAir(d, m0, i)'
  <2> SUFFICES ASSUME NEW i \in 0..(c - 1) PROVE InAir(d, m0, i)' OBVIOUS
  <2> DEFINE j == (Len(channel[d]) + i) + 1
  <2>1. /\ j \in 1..(Len(channel[d]) + c) /\ ~(j <= Len(channel[d]))
        /\ j - Len(channel[d]) = i + 1 /\ i + 1 \in 1..c /\ (i + 1) - 1 = i
    BY <1>a, PlaceFacts
  <2> HIDE DEF j
  <2>2. channel'[d][j] = fs[i + 1] BY <2>1, <1>15
  <2>3. j \in 1..Len(channel'[d]) /\ channel'[d][j] = Frame(m0, i)
    BY <2>1, <2>2, <1>11, <1>15
  <2> QED BY <2>3, <1>4 DEF InAir
<1>20. \A p \in Nodes : \A m, i : InAir(p, m, i) => InAir(p, m, i)'
  <2> SUFFICES ASSUME NEW p \in Nodes, NEW m, NEW i, InAir(p, m, i)
               PROVE  InAir(p, m, i)'
    OBVIOUS
  <2>1. PICK j \in 1..Len(channel[p]) : channel[p][j] = Frame(m, i) BY DEF InAir
  <2>2. j \in 1..Len(channel'[p]) /\ channel'[p][j] = Frame(m, i) BY <2>1, <1>17
  <2> QED BY <2>2 DEF InAir
<1>21. \A p \in Nodes : \A j \in 1..Len(channel'[p]) : channel'[p][j].msg # m0 =>
         j \in 1..Len(channel[p]) /\ channel'[p][j] = channel[p][j]
  <2> SUFFICES ASSUME NEW p \in Nodes, NEW j \in 1..Len(channel'[p]),
                      channel'[p][j].msg # m0
               PROVE  j \in 1..Len(channel[p]) /\ channel'[p][j] = channel[p][j]
    OBVIOUS
  <2>1. ASSUME NEW i, channel'[p][j] = Frame(m0, i) PROVE FALSE BY <2>1 DEF Frame
  <2> QED BY <2>1, <1>18
<1>22. InChannel(m0)'
  <2>1. InAir(d, m0, 0)' BY <1>19, <1>9
  <2>2. PICK j \in 1..Len(channel'[d]) : channel'[d][j] = Frame(m0, 0)
    BY <2>1 DEF InAir
  <2>3. channel'[d][j].msg = m0 BY <2>2 DEF Frame
  <2> QED BY <2>3, <1>10 DEF InChannel
<1>23. \A m \in Made : InChannel(m)' <=> InChannel(m)
  <2>1. ASSUME NEW m, InChannel(m) PROVE InChannel(m)' BY <2>1, <1>17 DEF InChannel
  <2>2. ASSUME NEW m \in Made, InChannel(m)' PROVE InChannel(m)
    <3>1. m # m0 BY <1>2
    <3>2. PICK p \in Nodes : \E j \in 1..Len(channel'[p]) : channel'[p][j].msg = m
      BY <2>2 DEF InChannel
    <3>3. PICK j \in 1..Len(channel'[p]) : channel'[p][j].msg = m BY <3>2
    <3> QED BY <3>1, <3>3, <1>21 DEF InChannel
  <2> QED BY <2>1, <2>2
<1>24. ChannelOK'
  <2> SUFFICES ASSUME NEW p \in Nodes PROVE AirOK(p)' BY DEF ChannelOK
  <2>1. AirOK(p) BY DEF ChannelOK
  <2>2. ASSUME NEW j \in 1..Len(channel'[p]), NEW m, channel'[p][j].msg = m
        PROVE  /\ m \in Made' /\ info'[m].to = p
               /\ channel'[p][j].index \in 0..(Count(m)' - 1)
    <3>1. CASE j \in 1..Len(channel[p]) /\ channel'[p][j] = channel[p][j]
      <4>1. /\ channel[p][j].msg \in Made /\ info[channel[p][j].msg].to = p
            /\ channel[p][j].index \in 0..(Count(channel[p][j].msg) - 1)
        BY <3>1, <2>1 DEF AirOK
      <4> QED BY <4>1, <3>1, <2>2, <1>6, <1>7, <1>8
    <3>2. CASE /\ p = d /\ j - Len(channel[d]) \in 1..c
               /\ channel'[p][j] = Frame(m0, (j - Len(channel[d])) - 1)
      <4>1. (j - Len(channel[d])) - 1 \in 0..(c - 1) BY <3>2, <1>9, <1>14
      <4>2. /\ channel'[p][j].msg = m0
            /\ channel'[p][j].index = (j - Len(channel[d])) - 1
        BY <3>2 DEF Frame
      <4> QED BY <4>1, <4>2, <3>2, <2>2, <1>4, <1>6, <1>9
    <3> QED BY <3>1, <3>2, <1>18
  <2>3. ASSUME NEW i \in 1..Len(channel'[p]), NEW j \in 1..Len(channel'[p]),
               i < j, channel'[p][i].msg = channel'[p][j].msg
        PROVE  channel'[p][i].index < channel'[p][j].index
    <3>1. CASE channel'[p][i].msg = m0
      <4>1. ASSUME NEW k \in 1..Len(channel'[p]), channel'[p][k].msg = m0
            PROVE  /\ p = d /\ channel'[p][k].index = (k - Len(channel[d])) - 1
                   /\ k \in Nat
        <5>1. ~(k \in 1..Len(channel[p]) /\ channel'[p][k] = channel[p][k])
          BY <4>1, <2>1, <1>2 DEF AirOK
        <5>2. p = d /\ channel'[p][k] = Frame(m0, (k - Len(channel[d])) - 1)
          BY <5>1, <1>18
        <5>3. Len(channel'[p]) \in Nat BY <1>16, LenProperties
        <5> QED BY <5>2, <5>3 DEF Frame
      <4>2. i \in Nat /\ j \in Nat /\ Len(channel[d]) \in Nat BY <4>1, <3>1, <2>3, <1>14
      <4>3. (i - Len(channel[d])) - 1 < (j - Len(channel[d])) - 1 BY <4>2, <2>3
      <4> QED BY <4>1, <4>3, <3>1, <2>3
    <3>2. CASE channel'[p][i].msg # m0
      <4>1. /\ i \in 1..Len(channel[p]) /\ channel'[p][i] = channel[p][i]
            /\ j \in 1..Len(channel[p]) /\ channel'[p][j] = channel[p][j]
        BY <3>2, <2>3, <1>21
      <4> QED BY <4>1, <2>1, <2>3 DEF AirOK
    <3> QED BY <3>1, <3>2
  <2> QED BY <2>2, <2>3 DEF AirOK
<1> HIDE DEF d
<1>25. /\ m0 \in Messages /\ m0 \notin Made /\ Made' = Made \cup {m0}
       /\ info' \in Seq(Infos) /\ Len(info') <= MaxMessages
       /\ info'[m0] = rec /\ \A m \in Made : info'[m] = info[m]
       /\ \A m \in Made : Key(m)' = Key(m) /\ Count(m)' = Count(m)
       /\ Count(m0)' = c /\ c \in Nat \ {0}
  BY <1>2, <1>4, <1>5, <1>6, <1>7, <1>8, <1>9
<1> QED
  BY <1>25, <1>16, <1>19, <1>20, <1>21, <1>22, <1>23, <1>24 DEF MadeWith, c, d

\* A step that makes message m0: what Send, Request and Respond have in common.
OwnerOf(rec) == IF rec.kind = "response" THEN rec.to ELSE rec.from
IsResponse(rec) ==
  /\ rec.re \in Of("request") /\ Responses(rec.re) = {}
  /\ rec.to = info[rec.re].from /\ rec.id = info[rec.re].id
IdIsFree(rec) ==
  \A m \in Made : Alive(m) /\ Owner(m) = OwnerOf(rec) /\ info[m].id = rec.id =>
    rec.kind = "response" /\ Root(m) = rec.re
Makes(m0, rec) ==
  /\ rec \in Infos /\ rec.size # 0
  /\ m0 = Len(info) + 1 /\ Len(info) < MaxMessages
  /\ Emit(m0, rec)
  /\ requests' = IF rec.kind = "request" THEN [requests EXCEPT ![rec.from][rec.id] = m0]
                 ELSE requests
  /\ cancelled' = IF rec.kind = "request"
                    THEN cancelled \cup ({requests[rec.from][rec.id]} \ {None})
                    ELSE cancelled
  /\ UNCHANGED <<partial, answer, cleaned, delivered, rejected, gaps>>
  /\ nextId' \in [Nodes -> Ids] /\ reused' \in BOOLEAN
  /\ rec.kind = "response" => IsResponse(rec)
  /\ ~reused' => ~reused /\ IdIsFree(rec)

\* The id of a new exchange, and that nothing alive bears it unless it is reused.
LEMMA TakeIdFacts ==
  ASSUME TypeOK, NEW n \in Nodes, TakeId(n)
  PROVE  /\ nextId[n] \in Ids /\ nextId' \in [Nodes -> Ids] /\ reused' \in BOOLEAN
         /\ ~reused' => /\ ~reused
                        /\ \A m \in Made :
                             ~(Alive(m) /\ Owner(m) = n /\ info[m].id = nextId[n])
<1>1. IdCount \in Nat \ {0} BY InteractionAssumption
<1>2. nextId \in [Nodes -> Ids] BY DEF TypeOK
<1>3. nextId[n] \in Nat BY <1>2 DEF Ids
<1>4. (nextId[n] + 1) % IdCount \in 0..(IdCount - 1) BY <1>1, <1>3, SMTT(30)
<1>5. nextId' \in [Nodes -> Ids] BY <1>2, <1>4 DEF TakeId, Ids
<1>6. reused' = (reused \/ InUse(n, nextId[n])) BY DEF TakeId
<1>7. reused' \in BOOLEAN BY <1>6 DEF TypeOK
<1>8. ASSUME ~InUse(n, nextId[n]), NEW m \in Made,
             Alive(m), Owner(m) = n, info[m].id = nextId[n]
      PROVE  FALSE
  <2>1. n = IF info[m].kind = "response" THEN info[m].to ELSE info[m].from
    BY <1>8 DEF Owner
  <2>2. \/ InChannel(m) \/ InPieces(m)
        \/ /\ info[m].kind = "request"
           /\ \/ requests[n][nextId[n]] = m
              \/ m \notin cleaned /\ (Fails(m) \/ sent[m] = "sending")
              \/ delivered[m] # "no" /\ Responses(m) = {}
    BY <1>8, <2>1 DEF Alive
  <2> QED BY <2>1, <2>2, <1>8 DEF InUse
<1> QED BY <1>2, <1>5, <1>6, <1>7, <1>8

\* The sizes a message can have.
LEMMA SizeFacts ==
  ASSUME TypeOK, NEW size \in NextSizes
  PROVE  Len(info) < MaxMessages /\ size \in Nat \ {0}
<1>1. Len(info) \in Nat BY MadeFacts
<1>2. Len(info) < MaxMessages /\ size \in Sizes[Len(info) + 1] BY DEF NextSizes
<1>3. Len(info) + 1 \in 1..MaxMessages BY <1>1, <1>2, InteractionAssumption
<1> QED BY <1>2, <1>3, InteractionAssumption

\* send() makes a message.
LEMMA SendMakes ==
  ASSUME Always, NEW n \in Nodes, NEW t \in Nodes, NEW size \in NextSizes,
         Send(n, t, size), NEW m0, m0 = Len(info) + 1
  PROVE  Makes(m0, New(n, t, "send", size, None, nextId[n]))
<1> DEFINE rec == New(n, t, "send", size, None, nextId[n])
<1>1. TypeOK BY DEF Always
<1>2. TakeId(n) BY DEF Send
<1>3. Len(info) < MaxMessages /\ size \in Nat \ {0} BY <1>1, SizeFacts
<1>4. nextId[n] \in Ids BY <1>1, <1>2, TakeIdFacts
<1>5. /\ rec \in Infos /\ rec.size # 0 /\ rec.kind = "send"
      /\ rec.from = n /\ rec.id = nextId[n]
  BY <1>3, <1>4 DEF New, Infos
<1>6. /\ Emit(m0, rec) /\ requests' = requests /\ cancelled' = cancelled
      /\ UNCHANGED <<partial, answer, cleaned, delivered, rejected, gaps>>
  BY DEF Send, tables, promises
<1> HIDE DEF rec
<1>7. /\ nextId' \in [Nodes -> Ids] /\ reused' \in BOOLEAN
      /\ ~reused' => ~reused /\ IdIsFree(rec)
  BY <1>1, <1>2, <1>5, TakeIdFacts DEF IdIsFree, OwnerOf
<1> QED BY <1>3, <1>5, <1>6, <1>7 DEF Makes, rec

\* request() makes a message.
LEMMA RequestMakes ==
  ASSUME Always, NEW n \in Nodes, NEW t \in Nodes, NEW size \in NextSizes,
         Request(n, t, size), NEW m0, m0 = Len(info) + 1
  PROVE  Makes(m0, New(n, t, "request", size, None, nextId[n]))
<1> DEFINE rec == New(n, t, "request", size, None, nextId[n])
<1>1. TypeOK BY DEF Always
<1>2. TakeId(n) BY DEF Request
<1>3. Len(info) < MaxMessages /\ size \in Nat \ {0} BY <1>1, SizeFacts
<1>4. nextId[n] \in Ids BY <1>1, <1>2, TakeIdFacts
<1>5. /\ rec \in Infos /\ rec.size # 0 /\ rec.kind = "request"
      /\ rec.from = n /\ rec.id = nextId[n]
  BY <1>3, <1>4 DEF New, Infos
<1>6. /\ Emit(m0, rec)
      /\ requests' = [requests EXCEPT ![n][nextId[n]] = m0]
      /\ cancelled' = cancelled \cup ({requests[n][nextId[n]]} \ {None})
      /\ UNCHANGED <<partial, answer, cleaned, delivered, rejected, gaps>>
  BY DEF Request
<1> HIDE DEF rec
<1>7. /\ nextId' \in [Nodes -> Ids] /\ reused' \in BOOLEAN
      /\ ~reused' => ~reused /\ IdIsFree(rec)
  BY <1>1, <1>2, <1>5, TakeIdFacts DEF IdIsFree, OwnerOf
<1> QED BY <1>3, <1>5, <1>6, <1>7 DEF Makes, rec

\* respond() makes a message, under the id of a request that is still responded to.
LEMMA RespondMakes ==
  ASSUME InteractionIInv, NEW r \in Messages, NEW size \in NextSizes,
         Respond(r, size), NEW m0, m0 = Len(info) + 1
  PROVE  Makes(m0, New(info[r].to, info[r].from, "response", size, r, info[r].id))
<1> DEFINE rec == New(info[r].to, info[r].from, "response", size, r, info[r].id)
<1>1. TypeOK BY DEF InteractionIInv, Always
<1>2. Len(info) < MaxMessages /\ size \in Nat \ {0} BY <1>1, SizeFacts
<1>3. /\ r \in Of("request") /\ delivered[r] # "no" /\ Responses(r) = {}
      /\ Emit(m0, rec) /\ reused' = reused
      /\ UNCHANGED <<nextId, requests, partial, answer, cancelled, cleaned, delivered,
                     rejected, gaps>>
  BY DEF Respond, tables, promises, history, CanMake
<1>4. r \in Made /\ info[r].kind = "request" /\ info[r] \in Infos
  BY <1>1, <1>3, MadeFacts DEF Of
<1>5. /\ rec \in Infos /\ rec.size # 0 /\ rec.kind = "response"
      /\ rec.re = r /\ rec.id = info[r].id /\ rec.to = info[r].from
  BY <1>2, <1>4 DEF New, Infos
<1>6. nextId' \in [Nodes -> Ids] /\ reused' \in BOOLEAN BY <1>1, <1>3 DEF TypeOK
<1> HIDE DEF rec
<1>7. IsResponse(rec) BY <1>3, <1>5 DEF IsResponse
<1>8. ~reused => IdIsFree(rec)
  <2> SUFFICES ASSUME ~reused PROVE IdIsFree(rec) OBVIOUS
  <2>1. AloneOK BY DEF InteractionIInv, Orderly
  <2>2. Alive(r) /\ Root(r) = r /\ Owner(r) = info[r].from
    BY <1>3, <1>4 DEF Alive, Root, Owner
  <2> QED BY <2>1, <2>2, <1>4, <1>5 DEF AloneOK, IdIsFree, OwnerOf
<1> QED BY <1>2, <1>3, <1>5, <1>6, <1>7, <1>8 DEF Makes, rec

\* Making a message keeps the types and what holds whether or not ids are reused.
LEMMA MakesAlways ==
  ASSUME Always, NEW m0, NEW rec, Makes(m0, rec)
  PROVE  Always' /\ MadeWith(m0, rec)
<1>1. TypeOK /\ InfoOK /\ FreshOK /\ EntriesOK /\ ChannelOK BY DEF Always
<1>2. /\ rec \in Infos /\ rec.size # 0
      /\ m0 = Len(info) + 1 /\ Len(info) < MaxMessages /\ Emit(m0, rec)
  BY DEF Makes
<1>3. MadeWith(m0, rec) BY <1>1, <1>2, EmitFacts
<1>4. /\ m0 \in Messages /\ m0 \notin Made /\ Made' = Made \cup {m0}
      /\ info' \in Seq(Infos) /\ Len(info') <= MaxMessages
      /\ info'[m0] = rec /\ \A m \in Made : info'[m] = info[m]
      /\ channel' \in [Nodes -> Seq(FrameRecords)]
      /\ ChannelOK'
  BY <1>3 DEF MadeWith
<1>5. /\ Made \subseteq Messages /\ None \notin Messages
      /\ \A m \in Made : info[m] \in Infos
  BY <1>1, MadeFacts
<1>6. /\ requests' = IF rec.kind = "request"
                       THEN [requests EXCEPT ![rec.from][rec.id] = m0] ELSE requests
      /\ cancelled' = IF rec.kind = "request"
                        THEN cancelled \cup ({requests[rec.from][rec.id]} \ {None})
                        ELSE cancelled
      /\ UNCHANGED <<partial, answer, cleaned, delivered, rejected, gaps>>
      /\ rec.kind = "response" => IsResponse(rec)
      /\ nextId' \in [Nodes -> Ids] /\ reused' \in BOOLEAN
  BY DEF Makes
<1>7. rec.from \in Nodes /\ rec.id \in Ids BY <1>2 DEF Infos
<1>8. requests \in [Nodes -> [Ids -> Messages \cup {None}]] BY <1>1 DEF TypeOK
<1>9. sent' \in [Messages -> {"no", "sending", "ok", "failed"}]
      /\ \A m \in Messages : m # m0 => sent'[m] = sent[m]
  BY <1>1, <1>2, <1>4 DEF TypeOK, Emit
<1>10. requests' \in [Nodes -> [Ids -> Messages \cup {None}]]
  BY <1>4, <1>6, <1>7, <1>8
<1>11. \A n \in Nodes, i \in Ids :
         /\ \/ requests'[n][i] = requests[n][i]
            \/ requests'[n][i] = m0 /\ rec.kind = "request" /\ rec.from = n /\
                 rec.id = i
         /\ rec.kind = "request" /\ rec.from = n /\ rec.id = i => requests'[n][i] = m0
  BY <1>6, <1>7, <1>8
<1>12. \A r \in cancelled' : r \in cancelled
         \/ /\ rec.kind = "request" /\ r = requests[rec.from][rec.id] /\ r # None
            /\ r \in Of("request") /\ info[r].from = rec.from /\ info[r].id = rec.id
  BY <1>1, <1>6, <1>7 DEF EntriesOK
<1>13. TypeOK'
  <2>1. cancelled' \in SUBSET Messages BY <1>1, <1>5, <1>12 DEF TypeOK, Of
  <2>2. /\ answer' \in [Messages -> Messages \cup {None}]
        /\ cleaned' \in SUBSET Messages
        /\ delivered' \in [Messages -> {"no", "whole", "torn"}]
        /\ rejected' \in SUBSET Messages /\ gaps' \in SUBSET Messages
    BY <1>1, <1>6 DEF TypeOK
  <2> QED BY <2>1, <2>2, <1>4, <1>6, <1>9, <1>10 DEF TypeOK, Infos, FrameRecords
<1>14. \A kind : Of(kind)' = IF rec.kind = kind THEN Of(kind) \cup {m0} ELSE Of(kind)
  BY <1>4 DEF Of
<1>15. InfoOK'
  <2>1. \A m \in Made' : info'[m].size # 0 BY <1>1, <1>2, <1>4 DEF InfoOK
  <2>2. ASSUME NEW m \in Of("response")'
        PROVE  /\ info'[m].re \in Of("request")'
               /\ info'[m].to = info'[info'[m].re].from
               /\ info'[m].id = info'[info'[m].re].id
    <3>1. CASE m \in Of("response")
      <4>1. /\ info'[m] = info[m] /\ info[m].re \in Of("request")
            /\ info'[info[m].re] = info[info[m].re]
        BY <3>1, <1>1, <1>4 DEF InfoOK, Of
      <4> QED BY <4>1, <3>1, <1>1, <1>14 DEF InfoOK
    <3>2. CASE m = m0 /\ rec.kind = "response"
      <4>1. /\ rec.re \in Of("request") /\ rec.to = info[rec.re].from
            /\ rec.id = info[rec.re].id /\ info'[rec.re] = info[rec.re]
        BY <3>2, <1>4, <1>6 DEF IsResponse, Of
      <4> QED BY <4>1, <3>2, <1>4, <1>14
    <3> QED BY <3>1, <3>2, <1>14
  <2>3. ASSUME NEW m \in Of("response")', NEW o \in Of("response")',
               info'[m].re = info'[o].re
        PROVE  m = o
    <3>1. ASSUME NEW x \in Of("response"), rec.kind = "response", rec.re = info[x].re
          PROVE  FALSE
      BY <3>1, <1>6 DEF IsResponse, Responses
    <3>2. \A x \in Of("response") : info'[x] = info[x] BY <1>4 DEF Of
    <3>3. CASE m \in Of("response") /\ o \in Of("response")
      BY <3>2, <3>3, <2>3, <1>1 DEF InfoOK
    <3>4. CASE m \in Of("response") /\ o = m0 /\ rec.kind = "response"
      BY <3>1, <3>2, <3>4, <2>3, <1>4
    <3>5. CASE o \in Of("response") /\ m = m0 /\ rec.kind = "response"
      BY <3>1, <3>2, <3>5, <2>3, <1>4
    <3> QED BY <3>3, <3>4, <3>5, <1>14
  <2> QED BY <2>1, <2>2, <2>3 DEF InfoOK
<1>16. FreshOK'
  <2> SUFFICES ASSUME NEW m \in Messages \ Made'
               PROVE  /\ answer'[m] = None /\ sent'[m] = "no" /\ delivered'[m] = "no"
                      /\ m \notin cancelled' \cup cleaned' \cup gaps' \cup rejected'
    BY DEF FreshOK
  <2>1. m \in Messages \ Made /\ m # m0 BY <1>4
  <2>2. /\ answer[m] = None /\ sent[m] = "no" /\ delivered[m] = "no"
        /\ m \notin cancelled \cup cleaned \cup gaps \cup rejected
    BY <2>1, <1>1 DEF FreshOK
  <2>3. m \notin cancelled' BY <2>1, <2>2, <1>12 DEF Of
  <2> QED BY <2>1, <2>2, <2>3, <1>6, <1>9
<1>17. EntriesOK'
  <2> SUFFICES ASSUME NEW n \in Nodes, NEW i \in Ids, NEW r, r = requests'[n][i],
                      r # None
               PROVE  /\ r \in Of("request")' /\ info'[r].from = n /\ info'[r].id = i
                      /\ answer'[r] = None /\ r \notin cancelled'
    BY DEF EntriesOK
  <2>1. CASE r = m0 /\ rec.kind = "request" /\ rec.from = n /\ rec.id = i
    <3>1. answer[m0] = None /\ m0 \notin cancelled BY <1>1, <1>4 DEF FreshOK
    <3>2. m0 \notin cancelled' BY <3>1, <1>4, <1>12 DEF Of
    <3> QED BY <3>1, <3>2, <2>1, <1>4, <1>6, <1>14
  <2>2. CASE ~(r = m0 /\ rec.kind = "request" /\ rec.from = n /\ rec.id = i)
    <3>1. r = requests[n][i] BY <2>2, <1>11
    <3>2. /\ r \in Of("request") /\ info[r].from = n /\ info[r].id = i
          /\ answer[r] = None /\ r \notin cancelled
      BY <3>1, <1>1 DEF EntriesOK
    <3>3. r \in Made /\ r # m0 BY <3>2, <1>4 DEF Of
    <3>4. r \notin cancelled'
      <4>1. ~(rec.kind = "request" /\ rec.from = n /\ rec.id = i)
        BY <3>3, <1>11
      <4> QED BY <4>1, <3>2, <1>12
    <3> QED BY <3>2, <3>3, <3>4, <1>4, <1>6, <1>14
  <2> QED BY <2>1, <2>2
<1> QED BY <1>3, <1>4, <1>13, <1>15, <1>16, <1>17 DEF Always

\* Making a message under an id that is free keeps exchanges apart and whole.
LEMMA MakesOrderly ==
  ASSUME Always, Orderly, NEW m0, NEW rec, Makes(m0, rec), ~reused'
  PROVE  Orderly'
<1>1. TypeOK /\ InfoOK /\ FreshOK /\ EntriesOK /\ ChannelOK BY DEF Always
<1>2. AloneOK /\ SentOK /\ AnswersOK /\ WaitingOK /\ PartialOK /\ DoneOK /\ CompleteOK
  BY DEF Orderly
<1>3. MadeWith(m0, rec) BY MakesAlways
<1>4. /\ m0 \in Messages /\ m0 \notin Made /\ Made' = Made \cup {m0}
      /\ info'[m0] = rec /\ \A m \in Made : info'[m] = info[m]
      /\ \A m \in Made : Key(m)' = Key(m) /\ Count(m)' = Count(m)
      /\ \A m \in Made : InChannel(m)' <=> InChannel(m)
  BY <1>3 DEF MadeWith
<1>5. /\ rec \in Infos /\ Emit(m0, rec)
      /\ requests' = IF rec.kind = "request"
                       THEN [requests EXCEPT ![rec.from][rec.id] = m0] ELSE requests
      /\ cancelled' = IF rec.kind = "request"
                        THEN cancelled \cup ({requests[rec.from][rec.id]} \ {None})
                        ELSE cancelled
      /\ UNCHANGED <<partial, answer, cleaned, delivered, rejected, gaps>>
      /\ IdIsFree(rec)
  BY DEF Makes
<1>6. rec.from \in Nodes /\ rec.id \in Ids /\ rec.to \in Nodes BY <1>5 DEF Infos
<1>7. requests \in [Nodes -> [Ids -> Messages \cup {None}]] BY <1>1 DEF TypeOK
<1>8. Made \subseteq Messages /\ None \notin Messages BY <1>1, MadeFacts
<1>9. \A m \in Messages : m # m0 => sent'[m] = sent[m] BY <1>1, <1>5 DEF TypeOK, Emit
<1>10. \A n \in Nodes, i \in Ids :
         \/ requests'[n][i] = requests[n][i]
         \/ requests'[n][i] = m0 /\ rec.kind = "request" /\ rec.from = n /\ rec.id = i
  BY <1>5, <1>6, <1>7
<1>11. rec.kind = "request" =>
         requests[rec.from][rec.id] = None /\ requests'[rec.from][rec.id] = m0
  <2> SUFFICES ASSUME rec.kind = "request" PROVE requests[rec.from][rec.id] = None
    BY <1>5, <1>6, <1>7
  <2> DEFINE r == requests[rec.from][rec.id]
  <2>1. ASSUME r # None PROVE FALSE
    <3>1. r \in Of("request") /\ info[r].from = rec.from /\ info[r].id = rec.id
      BY <2>1, <1>1, <1>6 DEF EntriesOK
    <3>2. requests[info[r].from][info[r].id] = r BY <3>1
    <3> HIDE DEF r
    <3>3. r \in Made /\ info[r].kind = "request" BY <3>1 DEF Of
    <3>4. Alive(r) /\ Owner(r) = rec.from BY <3>1, <3>2, <3>3 DEF Alive, Owner
    <3>5. OwnerOf(rec) = rec.from BY DEF OwnerOf
    <3> QED BY <3>1, <3>3, <3>4, <3>5, <1>5 DEF IdIsFree
  <2> QED BY <2>1
<1>12. cancelled' = {} BY <1>2, <1>5, <1>11 DEF SentOK
<1>13. \A kind : Of(kind)' = IF rec.kind = kind THEN Of(kind) \cup {m0} ELSE Of(kind)
  BY <1>4 DEF Of
<1>14. \A m \in Made : Root(m)' = Root(m) /\ Owner(m)' = Owner(m)
  BY <1>4 DEF Root, Owner
<1>15. ASSUME NEW m \in Made, Alive(m)' PROVE Alive(m)
  <2>1. m # m0 /\ m \in Messages /\ info'[m] = info[m] BY <1>4, <1>8
  <2>2. InPieces(m)' => InPieces(m) BY <1>5 DEF InPieces
  <2>3. InChannel(m)' => InChannel(m) BY <1>4
  <2>4. sent'[m] = sent[m] BY <2>1, <1>9
  <2>5. Fails(m)' => Fails(m) BY <2>4, <1>2, <1>12 DEF Fails, SentOK
  <2>6. Responses(m)' = {} => Responses(m) = {}
    <3>1. ASSUME NEW o \in Responses(m) PROVE o \in Responses(m)'
      <4>1. o \in Of("response") /\ info[o].re = m BY <3>1 DEF Responses
      <4>2. o \in Of("response")' /\ info'[o] = info[o] BY <4>1, <1>4, <1>13 DEF Of
      <4> QED BY <4>1, <4>2 DEF Responses
    <3> QED BY <3>1
  <2>7. info[m].from \in Nodes /\ info[m].id \in Ids BY <1>1, MadeFacts DEF Infos
  <2>8. requests'[info[m].from][info[m].id] = m
          => requests[info[m].from][info[m].id] = m
    BY <2>1, <2>7, <1>10
  <2>9. \/ InChannel(m)' \/ InPieces(m)'
        \/ /\ info[m].kind = "request"
           /\ \/ requests'[info[m].from][info[m].id] = m
              \/ m \notin cleaned /\ (Fails(m)' \/ sent[m] = "sending")
              \/ delivered[m] # "no" /\ Responses(m)' = {}
    BY <1>15, <2>1, <2>4, <1>5 DEF Alive
  <2> QED BY <2>2, <2>3, <2>5, <2>6, <2>8, <2>9 DEF Alive
<1>16. AloneOK'
  <2>1. /\ Owner(m0)' = OwnerOf(rec)
        /\ Root(m0)' = IF rec.kind = "response" THEN rec.re ELSE m0
    BY <1>4 DEF Owner, Root, OwnerOf
  <2>2. ASSUME NEW o \in Made, Alive(o)', Owner(o)' = Owner(m0)', info'[o].id = rec.id
        PROVE  Root(o)' = Root(m0)'
    <3>1. Alive(o) /\ Owner(o) = OwnerOf(rec) /\ info[o].id = rec.id
      BY <2>1, <2>2, <1>4, <1>14, <1>15
    <3> QED BY <3>1, <2>1, <1>5, <1>14 DEF IdIsFree
  <2>3. ASSUME NEW m \in Made, NEW o \in Made, Alive(m)', Alive(o)',
               Owner(m)' = Owner(o)', info'[m].id = info'[o].id
        PROVE  Root(m)' = Root(o)'
    BY <2>3, <1>2, <1>4, <1>14, <1>15 DEF AloneOK
  <2>4. ASSUME NEW m \in Made', NEW o \in Made', Alive(m)', Alive(o)',
               Owner(m)' = Owner(o)', info'[m].id = info'[o].id
        PROVE  Root(m)' = Root(o)'
    <3>1. CASE m \in Made /\ o \in Made BY <3>1, <2>3, <2>4
    <3>2. CASE m = m0 /\ o \in Made BY <3>2, <2>2, <2>4, <1>4
    <3>3. CASE m \in Made /\ o = m0 BY <3>3, <2>2, <2>4, <1>4
    <3>4. CASE m = m0 /\ o = m0 BY <3>4
    <3> QED BY <3>1, <3>2, <3>3, <3>4, <1>4
  <2> QED BY <2>4 DEF AloneOK
<1>17. SentOK'
  <2>1. \A r \in cleaned : r \in Messages /\ r # m0 BY <1>1, <1>4 DEF TypeOK, FreshOK
  <2> QED BY <2>1, <1>2, <1>5, <1>9, <1>12 DEF SentOK
<1>18. AnswersOK'
  <2>1. ASSUME NEW r \in Messages, answer[r] # None
        PROVE  /\ answer[r] \in Of("response")' /\ info'[answer[r]].re = r
               /\ delivered[answer[r]] # "no"
    <3>1. /\ answer[r] \in Of("response") /\ info[answer[r]].re = r
          /\ delivered[answer[r]] # "no"
      BY <2>1, <1>2 DEF AnswersOK
    <3> QED BY <3>1, <1>4, <1>13 DEF Of
  <2>2. ASSUME NEW m \in Of("response")', delivered[m] # "no"
        PROVE  answer[info'[m].re] = m \/ info'[m].re \in cleaned
    <3>1. m # m0 BY <2>2, <1>1, <1>4 DEF FreshOK
    <3>2. m \in Of("response") /\ info'[m] = info[m] BY <3>1, <1>4, <1>13 DEF Of
    <3> QED BY <3>2, <2>2, <1>2 DEF AnswersOK
  <2> QED BY <2>1, <2>2, <1>5 DEF AnswersOK
<1>19. WaitingOK'
  <2> SUFFICES ASSUME NEW r \in Of("request")', answer[r] = None, r \notin cleaned
               PROVE  requests'[info'[r].from][info'[r].id] = r
    BY <1>5 DEF WaitingOK
  <2>1. CASE r = m0 /\ rec.kind = "request" BY <2>1, <1>4, <1>11
  <2>2. CASE r \in Of("request")
    <3>1. requests[info[r].from][info[r].id] = r BY <2>2, <1>2 DEF WaitingOK
    <3>2. r \in Made /\ r # None /\ info'[r] = info[r]
      BY <2>2, <1>4, <1>8 DEF Of
    <3>3. info[r].from \in Nodes /\ info[r].id \in Ids
      BY <3>2, <1>1, MadeFacts DEF Infos
    <3> QED BY <3>1, <3>2, <3>3, <1>10, <1>11
  <2> QED BY <2>1, <2>2, <1>13
<1>20. PartialOK'
  <2>1. partial' = partial BY <1>5
  <2>2. ASSUME NEW n \in Nodes, NEW k \in DOMAIN partial[n], NEW m \in Made,
               Holds(n, k, m)
        PROVE  Holds(n, k, m)'
    <3>1. \A j \in 1..Len(channel'[n]) : channel'[n][j].msg # m0 =>
            j \in 1..Len(channel[n]) /\ channel'[n][j] = channel[n][j]
      BY <1>3 DEF MadeWith
    <3>2. /\ info'[m] = info[m] /\ Key(m)' = Key(m) /\ Count(m)' = Count(m) /\ m # m0
      BY <1>4
    <3> QED BY <3>1, <3>2, <2>1, <2>2 DEF Holds
  <2>3. \A n \in Nodes : \A k \in DOMAIN partial[n] : \E m \in Made : Holds(n, k, m)
    BY <1>2 DEF PartialOK
  <2>4. \A n \in Nodes : \A k \in DOMAIN partial[n] : \E m \in Made' : Holds(n, k, m)'
    BY <2>2, <2>3, <1>4
  <2>5. partial = [n \in Nodes |-> partial[n]] BY <1>2 DEF PartialOK
  <2> QED BY <2>1, <2>4, <2>5 DEF PartialOK
<1>21. DoneOK'
  <2> SUFFICES ASSUME NEW m \in Made', delivered[m] # "no"
               PROVE  delivered[m] = "whole" /\ ~InChannel(m)' /\ ~InPieces(m)'
    BY <1>5 DEF DoneOK
  <2>1. m \in Made BY <1>1, <1>4 DEF FreshOK
  <2>2. InPieces(m)' => InPieces(m) BY <1>5 DEF InPieces
  <2> QED BY <2>1, <2>2, <1>2, <1>4 DEF DoneOK
<1>22. CompleteOK'
  <2> SUFFICES ASSUME NEW m \in Made' \ (gaps \cup rejected), delivered[m] = "no"
               PROVE  /\ InChannel(m)'
                      /\ \A n \in Nodes, i \in 0..(Count(m)' - 1) :
                           info'[m].to = n => InAir(n, m, i)' \/ Here(m, i)'
    BY <1>5 DEF CompleteOK
  <2>1. CASE m = m0
    <3>1. /\ InChannel(m0)' /\ Count(m0)' = PartsCount(rec.size)
          /\ \A i \in 0..(PartsCount(rec.size) - 1) : InAir(rec.to, m0, i)'
      BY <1>3 DEF MadeWith
    <3> QED BY <3>1, <2>1, <1>4
  <2>2. CASE m \in Made
    <3>1. /\ InChannel(m)
          /\ \A n \in Nodes, i \in 0..(Count(m) - 1) :
               info[m].to = n => InAir(n, m, i) \/ Here(m, i)
      BY <2>2, <1>2, <1>5 DEF CompleteOK
    <3>2. \A p \in Nodes : \A i : InAir(p, m, i) => InAir(p, m, i)' BY <1>3 DEF MadeWith
    <3>3. \A i : Here(m, i) => Here(m, i)'
      <4>1. Key(m)' = Key(m) /\ info'[m] = info[m] /\ partial' = partial
        BY <2>2, <1>4, <1>5
      <4> QED BY <4>1 DEF Here, PartsOf
    <3> QED BY <3>1, <3>2, <3>3, <2>2, <1>4
  <2> QED BY <2>1, <2>2, <1>4
<1> QED BY <1>16, <1>17, <1>18, <1>19, <1>20, <1>21, <1>22 DEF Orderly

\* Of two messages alive at one receiver, the key tells which is which.
LEMMA KeyTells ==
  ASSUME Always, AloneOK, NEW m \in Made, NEW o \in Made, Alive(m), Alive(o),
         info[m].to = info[o].to, Key(m) = Key(o)
  PROVE  m = o
<1>1. /\ info[m].id = info[o].id /\ info[m].from = info[o].from
      /\ info[m].kind = "response" <=> info[o].kind = "response"
  BY DEF Key
<1>2. Owner(m) = Owner(o) BY <1>1 DEF Owner
<1>3. Root(m) = Root(o) BY <1>1, <1>2 DEF AloneOK
<1>4. CASE info[m].kind = "response"
  <2>1. /\ m \in Of("response") /\ o \in Of("response")
        /\ info[m].re = info[o].re
    BY <1>1, <1>3, <1>4 DEF Root, Of
  <2> QED BY <2>1 DEF Always, InfoOK
<1>5. CASE info[m].kind # "response" BY <1>1, <1>3, <1>5 DEF Root
<1> QED BY <1>4, <1>5

\* A step that makes no message begins no life: exchanges stay apart.
LEMMA QuietAlone ==
  ASSUME Always, Orderly, info' = info, cancelled' = cancelled,
         \A m \in Made : InChannel(m)' => InChannel(m),
         \A m \in Made : InPieces(m)' => InPieces(m) \/ InChannel(m),
         \A n \in Nodes, i \in Ids : requests'[n][i] \in {requests[n][i], None},
         cleaned \subseteq cleaned',
         \A m \in Made : sent'[m] = sent[m] \/ sent[m] = "sending",
         \A m \in Made : delivered'[m] = delivered[m] \/ InChannel(m)
  PROVE  AloneOK'
<1>1. /\ Made' = Made
      /\ \A m : Root(m)' = Root(m) /\ Owner(m)' = Owner(m)
                /\ Responses(m)' = Responses(m)
  BY SameInfo
<1>2. Made \subseteq Messages /\ None \notin Messages BY MadeFacts DEF Always
<1>3. ASSUME NEW m \in Made, Alive(m)' PROVE Alive(m)
  <2>1. info[m].from \in Nodes /\ info[m].id \in Ids
    BY MadeFacts DEF Always, Infos
  <2>2. requests'[info[m].from][info[m].id] = m
          => requests[info[m].from][info[m].id] = m
    BY <2>1, <1>2
  <2>3. Fails(m)' => Fails(m) \/ sent[m] = "sending" BY DEF Fails
  <2>4. \/ InChannel(m)' \/ InPieces(m)'
        \/ /\ info[m].kind = "request"
           /\ \/ requests'[info[m].from][info[m].id] = m
              \/ m \notin cleaned' /\ (Fails(m)' \/ sent'[m] = "sending")
              \/ delivered'[m] # "no" /\ Responses(m) = {}
    BY <1>1, <1>3 DEF Alive
  <2>5. m \notin cleaned' => m \notin cleaned OBVIOUS
  <2>6. sent'[m] = "sending" => sent[m] = "sending" OBVIOUS
  <2>7. delivered'[m] # "no" => delivered[m] # "no" \/ InChannel(m) OBVIOUS
  <2> QED BY <2>2, <2>3, <2>4, <2>5, <2>6, <2>7 DEF Alive
<1>4. AloneOK BY DEF Orderly
<1> QED BY <1>1, <1>3, <1>4 DEF AloneOK

\* What is on its way and in pieces stays as it is where nothing of it is touched.
LEMMA SamePieces ==
  ASSUME ChannelOK, PartialOK, DoneOK, CompleteOK,
         UNCHANGED <<info, channel, partial, delivered, gaps, rejected>>
  PROVE  /\ ChannelOK' /\ PartialOK' /\ DoneOK' /\ CompleteOK'
         /\ \A m : InChannel(m)' = InChannel(m) /\ InPieces(m)' = InPieces(m)
<1>1. /\ Made' = Made
      /\ \A m : Key(m)' = Key(m) /\ Count(m)' = Count(m)
  BY SameInfo
<1>2. \A m : InChannel(m)' = InChannel(m) /\ InPieces(m)' = InPieces(m)
  BY DEF InChannel, InPieces
<1>3. \A n, m, i : InAir(n, m, i)' <=> InAir(n, m, i) BY DEF InAir
<1>4. \A m, i : Here(m, i)' <=> Here(m, i) BY <1>1 DEF Here, PartsOf
<1>5. \A n, k, m : Holds(n, k, m)' <=> Holds(n, k, m) BY <1>1 DEF Holds
<1>6. ChannelOK' BY <1>1 DEF ChannelOK, AirOK
<1>7. PartialOK' BY <1>1, <1>5 DEF PartialOK
<1>8. DoneOK' BY <1>1, <1>2 DEF DoneOK
<1>9. CompleteOK' BY <1>1, <1>2, <1>3, <1>4 DEF CompleteOK
<1> QED BY <1>2, <1>6, <1>7, <1>8, <1>9

\* AsyncEspNow settles the frames of a request.
LEMMA SettlesNext ==
  ASSUME Always, NEW r \in Messages, NEW s \in {"ok", "failed"}, SendSettles(r, s)
  PROVE  Always' /\ (Orderly => Orderly')
<1>1. TypeOK /\ InfoOK /\ FreshOK /\ EntriesOK /\ ChannelOK BY DEF Always
<1>2. /\ sent[r] = "sending" /\ sent' = [sent EXCEPT ![r] = s]
      /\ UNCHANGED <<info, nextId, requests, partial, channel, answer, cancelled,
           cleaned,
                     delivered, rejected, gaps, reused>>
  BY DEF SendSettles, tables, promises, history
<1>3. Made' = Made /\ \A kind : Of(kind)' = Of(kind) BY <1>2, SameInfo
<1>4. /\ sent' \in [Messages -> {"no", "sending", "ok", "failed"}]
      /\ \A m \in Messages : sent'[m] = IF m = r THEN s ELSE sent[m]
  BY <1>1, <1>2 DEF TypeOK
<1>5. TypeOK' BY <1>1, <1>2, <1>4 DEF TypeOK
<1>6. InfoOK' BY <1>1, <1>2, <1>3 DEF InfoOK
<1>7. r \in Made BY <1>1, <1>2 DEF FreshOK
<1>8. FreshOK' BY <1>1, <1>2, <1>3, <1>4, <1>7 DEF FreshOK
<1>9. EntriesOK' BY <1>1, <1>2, <1>3 DEF EntriesOK
<1>10. ChannelOK'
  <2>1. \A m : Count(m)' = Count(m) BY <1>2, SameInfo
  <2> QED BY <2>1, <1>1, <1>2, <1>3 DEF ChannelOK, AirOK
<1>11. ASSUME Orderly PROVE Orderly'
  <2>1. SentOK /\ AnswersOK /\ WaitingOK /\ PartialOK /\ DoneOK /\ CompleteOK
    BY <1>11 DEF Orderly
  <2>2. /\ PartialOK' /\ DoneOK' /\ CompleteOK'
        /\ \A m : InChannel(m)' = InChannel(m) /\ InPieces(m)' = InPieces(m)
    BY <1>1, <1>2, <2>1, SamePieces
  <2>3. AloneOK'
    <3>1. \A m \in Made : m \in Messages BY <1>1, MadeFacts
    <3> QED BY <1>2, <1>4, <1>11, <2>2, <3>1, QuietAlone
  <2>4. SentOK'
    <3>1. \A m \in cleaned : m \in Messages BY <1>1 DEF TypeOK
    <3> QED BY <3>1, <2>1, <1>2, <1>4 DEF SentOK
  <2>5. AnswersOK' /\ WaitingOK' BY <2>1, <1>2, <1>3 DEF AnswersOK, WaitingOK
  <2> QED BY <2>2, <2>3, <2>4, <2>5 DEF Orderly
<1> QED BY <1>5, <1>6, <1>8, <1>9, <1>10, <1>11 DEF Always

\* on_error erases the entry that has the id of the request that failed.
LEMMA CleanUpNext ==
  ASSUME Always, NEW r \in Messages, CleanUp(r)
  PROVE  Always' /\ (Orderly => Orderly')
<1>1. TypeOK /\ InfoOK /\ FreshOK /\ EntriesOK /\ ChannelOK BY DEF Always
<1>2. /\ r \in Of("request") /\ Fails(r) /\ r \notin cleaned
      /\ requests' = [requests EXCEPT ![info[r].from][info[r].id] = None]
      /\ cleaned' = cleaned \cup {r}
      /\ UNCHANGED <<info, nextId, partial, channel, sent, answer, cancelled, delivered,
                     rejected, gaps, reused>>
  BY DEF CleanUp, promises, history
<1>3. Made' = Made /\ \A kind : Of(kind)' = Of(kind) BY <1>2, SameInfo
<1>4. r \in Made /\ info[r].kind = "request" BY <1>2 DEF Of
<1>5. info[r].from \in Nodes /\ info[r].id \in Ids
  BY <1>1, <1>4, MadeFacts DEF Infos
<1>6. requests \in [Nodes -> [Ids -> Messages \cup {None}]] BY <1>1 DEF TypeOK
<1>7. /\ requests' \in [Nodes -> [Ids -> Messages \cup {None}]]
      /\ \A n \in Nodes, i \in Ids : requests'[n][i] =
           IF n = info[r].from /\ i = info[r].id THEN None ELSE requests[n][i]
  BY <1>2, <1>5, <1>6
<1>8. TypeOK'
  <2>1. cleaned' \in SUBSET Messages BY <1>1, <1>2 DEF TypeOK
  <2> QED BY <2>1, <1>1, <1>2, <1>7 DEF TypeOK
<1>9. InfoOK' BY <1>1, <1>2, <1>3 DEF InfoOK
<1>10. FreshOK' BY <1>1, <1>2, <1>3, <1>4 DEF FreshOK
<1>11. EntriesOK' BY <1>1, <1>2, <1>3, <1>7 DEF EntriesOK
<1>12. ChannelOK'
  <2>1. \A m : Count(m)' = Count(m) BY <1>2, SameInfo
  <2> QED BY <2>1, <1>1, <1>2, <1>3 DEF ChannelOK, AirOK
<1>13. ASSUME Orderly PROVE Orderly'
  <2>1. AloneOK /\ SentOK /\ AnswersOK /\ WaitingOK /\ PartialOK /\ DoneOK /\ CompleteOK
    BY <1>13 DEF Orderly
  <2>2. /\ PartialOK' /\ DoneOK' /\ CompleteOK'
        /\ \A m : InChannel(m)' = InChannel(m) /\ InPieces(m)' = InPieces(m)
    BY <1>1, <1>2, <2>1, SamePieces
  <2>3. AloneOK' BY <1>2, <1>7, <1>13, <2>2, QuietAlone
  <2>4. SentOK' BY <2>1, <1>2 DEF SentOK, Fails
  <2>5. AnswersOK' BY <2>1, <1>2, <1>3 DEF AnswersOK
  <2>6. ASSUME NEW o \in Of("request"), answer[o] = None, o \notin cleaned, o # r
        PROVE  requests'[info[o].from][info[o].id] = o
    <3>1. requests[info[o].from][info[o].id] = o BY <2>1, <2>6 DEF WaitingOK
    <3>2. o \in Made /\ info[o].kind = "request" BY <2>6 DEF Of
    <3>3. info[o].from \in Nodes /\ info[o].id \in Ids
      BY <1>1, <3>2, MadeFacts DEF Infos
    <3>4. Alive(o) /\ Root(o) = o /\ Owner(o) = info[o].from
      BY <3>1, <3>2 DEF Alive, Root, Owner
    <3>5. Alive(r) /\ Root(r) = r /\ Owner(r) = info[r].from
      BY <1>2, <1>4 DEF Alive, Root, Owner
    <3>6. ~(info[o].from = info[r].from /\ info[o].id = info[r].id)
      BY <3>2, <3>4, <3>5, <1>4, <2>1, <2>6 DEF AloneOK
    <3> QED BY <3>1, <3>3, <3>6, <1>7
  <2>7. WaitingOK' BY <2>6, <1>2, <1>3 DEF WaitingOK
  <2> QED BY <2>2, <2>3, <2>4, <2>5, <2>7 DEF Orderly
<1> QED BY <1>8, <1>9, <1>10, <1>11, <1>12, <1>13 DEF Always

\* A step that takes the oldest frame off the channel of n.
Takes(n) ==
  /\ channel[n] # <<>>
  /\ channel' = [channel EXCEPT ![n] = Tail(@)]
  /\ UNCHANGED <<info, nextId, sent, cancelled, cleaned, reused>>

\* Pieces that are not touched still are of one message, and before its next frame.
LEMMA HoldsKept ==
  ASSUME NEW n \in Nodes, TakenFrom(n), info' = info,
         NEW p \in Nodes, NEW k, NEW m, Holds(p, k, m), partial'[p][k] = partial[p][k]
  PROVE  Holds(p, k, m)'
<1>1. Key(m)' = Key(m) /\ Count(m)' = Count(m) BY SameInfo
<1>2. ASSUME NEW j \in 1..Len(channel'[p]), channel'[p][j].msg = m,
             NEW i \in DOMAIN partial[p][k].parts
      PROVE  i < channel'[p][j].index
  <2>1. PICK l \in 1..Len(channel[p]) : channel[p][l] = channel'[p][j]
    BY DEF TakenFrom
  <2> QED BY <2>1, <1>2 DEF Holds
<1> QED BY <1>1, <1>2 DEF Holds

\* Frames of other messages stay on their way.
LEMMA OthersComplete ==
  ASSUME TypeOK, CompleteOK, NEW n \in Nodes, TakenFrom(n), info' = info,
         NEW m \in Made \ (gaps \cup rejected), delivered[m] = "no",
         m # Head(channel[n]).msg, \A i : Here(m, i) => Here(m, i)'
  PROVE  /\ InChannel(m)'
         /\ \A p \in Nodes, i \in 0..(Count(m) - 1) :
              info[m].to = p => InAir(p, m, i)' \/ Here(m, i)'
<1>1. /\ InChannel(m)
      /\ \A p \in Nodes, i \in 0..(Count(m) - 1) :
           info[m].to = p => InAir(p, m, i) \/ Here(m, i)
  BY DEF CompleteOK
<1> QED BY <1>1 DEF TakenFrom

\* A frame is lost, or called ill-formed.
LEMMA MissNext ==
  ASSUME Always, NEW n \in Nodes, Takes(n),
         UNCHANGED <<requests, partial, answer, delivered>>,
         \/ gaps' = gaps \cup {Head(channel[n]).msg} /\ rejected' = rejected
         \/ rejected' = rejected \cup {Head(channel[n]).msg} /\ gaps' = gaps
  PROVE  Always' /\ (Orderly => Orderly')
<1> DEFINE x == Head(channel[n]).msg
<1>1. TypeOK /\ InfoOK /\ FreshOK /\ EntriesOK /\ ChannelOK BY DEF Always
<1>2. /\ channel[n] # <<>>
      /\ channel' = [channel EXCEPT ![n] = Tail(@)]
      /\ UNCHANGED <<info, nextId, sent, cancelled, cleaned, reused>>
  BY DEF Takes
<1>3. TakenFrom(n) BY <1>1, <1>2, TailFacts
<1>4. /\ Made' = Made /\ \A kind : Of(kind)' = Of(kind)
      /\ \A m : Key(m)' = Key(m) /\ Count(m)' = Count(m)
  BY <1>2, SameInfo
<1>5. /\ x \in Made /\ ChannelOK' /\ channel' \in [Nodes -> Seq(FrameRecords)]
      /\ \A m : InChannel(m)' => InChannel(m)
  BY <1>3 DEF TakenFrom
<1>6. Made \subseteq Messages BY <1>1, MadeFacts
<1>7. gaps' \cup rejected' = gaps \cup rejected \cup {x} OBVIOUS
<1> HIDE DEF x
<1>8. TypeOK'
  <2>1. gaps' \in SUBSET Messages /\ rejected' \in SUBSET Messages
    BY <1>1, <1>5, <1>6 DEF TypeOK, x
  <2> QED BY <2>1, <1>1, <1>2, <1>5 DEF TypeOK, FrameRecords
<1>9. InfoOK' BY <1>1, <1>2, <1>4 DEF InfoOK
<1>10. FreshOK' BY <1>1, <1>2, <1>4, <1>5, <1>7 DEF FreshOK
<1>11. EntriesOK' BY <1>1, <1>2, <1>4 DEF EntriesOK
<1>12. ASSUME Orderly PROVE Orderly'
  <2>1. SentOK /\ AnswersOK /\ WaitingOK /\ PartialOK /\ DoneOK /\ CompleteOK
    BY <1>12 DEF Orderly
  <2>2. \A m : InPieces(m)' <=> InPieces(m) BY DEF InPieces
  <2>3. AloneOK' BY <1>2, <1>5, <1>12, <2>2, QuietAlone
  <2>4. SentOK' /\ AnswersOK' /\ WaitingOK'
    BY <2>1, <1>2, <1>4 DEF SentOK, AnswersOK, WaitingOK
  <2>5. PartialOK'
    <3>1. ASSUME NEW p \in Nodes, NEW k \in DOMAIN partial[p], NEW m \in Made,
                 Holds(p, k, m)
          PROVE  Holds(p, k, m)'
      BY <3>1, <1>2, <1>3, HoldsKept
    <3> QED BY <3>1, <2>1, <1>4 DEF PartialOK
  <2>6. DoneOK' BY <2>1, <2>2, <1>4, <1>5 DEF DoneOK
  <2>7. CompleteOK'
    <3> SUFFICES ASSUME NEW m \in Made \ (gaps \cup rejected), m # x,
                        delivered[m] = "no"
                 PROVE  /\ InChannel(m)'
                        /\ \A p \in Nodes, i \in 0..(Count(m) - 1) :
                             info[m].to = p => InAir(p, m, i)' \/ Here(m, i)'
      BY <1>2, <1>4, <1>7 DEF CompleteOK
    <3>1. \A i : Here(m, i) => Here(m, i)' BY <1>2, <1>4 DEF Here, PartsOf
    <3> QED BY <3>1, <2>1, <1>1, <1>2, <1>3, OthersComplete DEF x
  <2> QED BY <2>3, <2>4, <2>5, <2>6, <2>7 DEF Orderly
<1> QED BY <1>5, <1>8, <1>9, <1>10, <1>11, <1>12 DEF Always

\* The entry a frame belongs to, with and without its part.
PartsAre(e, m, s) ==
  /\ DOMAIN e = {"count", "received", "parts"} /\ e.count = Count(m)
  /\ DOMAIN e.parts = s /\ \A i \in s : e.parts[i] = m
  /\ e.received = Cardinality(s)

\* An entry with one part more.
LEMMA ExceptFacts ==
  ASSUME NEW e, DOMAIN e = {"count", "received", "parts"}, NEW t, NEW q,
         NEW g, g = [e EXCEPT !.received = t, !.parts = q]
  PROVE  DOMAIN g = DOMAIN e /\ g.count = e.count /\ g.received = t /\ g.parts = q
OBVIOUS

\* With its next part an entry has the parts of one message that were received in order;
\* and if as many as the message has, then all of them.
LEMMA PartFacts ==
  ASSUME Always, Orderly, NEW n \in Nodes, channel[n] # <<>>, TakenFrom(n),
         NEW f, f = Head(channel[n]), NEW e, e = WithPart(Entry(n, f), f)
  PROVE  /\ \E s \in SUBSET (0..(Count(f.msg) - 1)) :
              /\ PartsAre(e, f.msg, s) /\ f.index \in s
              /\ \A i \in s : i <= f.index
              /\ Key(f.msg) \in DOMAIN partial[n] =>
                   PartsOf(n, Key(f.msg)) \subseteq s
              /\ s # 0..(Count(f.msg) - 1) => e.received # e.count
              /\ s = 0..(Count(f.msg) - 1) => e.received = e.count
<1> DEFINE m == f.msg
           all == 0..(Count(m) - 1)
           e0 == Entry(n, f)
<1>1. /\ m \in Made /\ info[m].to = n /\ f.index \in all /\ InChannel(m)
  BY DEF TakenFrom
<1>2. TypeOK /\ AloneOK /\ PartialOK BY DEF Always, Orderly
<1>3. Count(m) \in Nat /\ f.index \in Nat BY <1>1, <1>2, MadeFacts
<1>4. PICK s0 \in SUBSET all :
        /\ PartsAre(e0, m, s0) /\ \A i \in s0 : i < f.index
        /\ Key(m) \in DOMAIN partial[n] => PartsOf(n, Key(m)) = s0
  <2>1. CASE Key(m) \notin DOMAIN partial[n]
    <3>1. e0 = [count |-> Count(m), received |-> 0, parts |-> [i \in {} |-> None]]
      BY <2>1 DEF Entry
    <3>2. PartsAre(e0, m, {}) BY <3>1, FS_EmptySet DEF PartsAre
    <3> QED BY <3>2, <2>1
  <2>2. CASE Key(m) \in DOMAIN partial[n]
    <3>1. e0 = partial[n][Key(m)] BY <2>2 DEF Entry
    <3>2. PICK o \in Made : Holds(n, Key(m), o) BY <2>2, <1>2 DEF PartialOK
    <3>3. InPieces(o)
      <4>1. PICK i \in DOMAIN partial[n][Key(m)].parts : TRUE BY <3>2 DEF Holds
      <4>2. partial[n][Key(m)].parts[i] = o BY <3>2 DEF Holds
      <4> QED BY <4>1, <4>2, <2>2 DEF InPieces
    <3>4. o = m
      <4>1. Alive(o) /\ Alive(m) BY <3>3, <1>1 DEF Alive
      <4>2. info[o].to = info[m].to /\ Key(o) = Key(m) BY <3>2, <1>1 DEF Holds
      <4> QED BY <4>1, <4>2, <1>1, <1>2, KeyTells
    <3> DEFINE s == DOMAIN partial[n][Key(m)].parts
    <3>5. /\ DOMAIN e0 = {"count", "received", "parts"}
          /\ e0.count = Count(m) /\ s \subseteq all
          /\ \A i \in s : e0.parts[i] = m
          /\ e0.received = Cardinality(s)
          /\ \A j \in 1..Len(channel[n]) : channel[n][j].msg = m =>
               \A i \in s : i < channel[n][j].index
      <4>1. Holds(n, Key(m), m) BY <3>2, <3>4
      <4> QED BY <4>1, <3>1 DEF Holds
    <3>6. PartsAre(e0, m, s) BY <3>1, <3>5 DEF PartsAre
    <3>7. 1 \in 1..Len(channel[n]) /\ channel[n][1] = f
      <4>1. channel[n] \in Seq(FrameRecords) BY <1>2, ChannelFacts
      <4>2. Len(channel[n]) \in Nat \ {0} /\ f = channel[n][1] BY <4>1, PopIndices
      <4> QED BY <4>2
    <3>8. \A i \in s : i < f.index BY <3>5, <3>7
    <3> QED BY <3>5, <3>6, <3>8, <2>2 DEF PartsOf
  <2> QED BY <2>1, <2>2
<1> DEFINE s == s0 \cup {f.index}
<1> HIDE DEF e0
<1>5. s \in SUBSET all BY <1>1, <1>4
<1>6. f.index \notin s0 BY <1>3, <1>4
<1>7. \A i \in s : i <= f.index BY <1>3, <1>4
<1>8. IsFiniteSet(all) /\ Cardinality(all) = Count(m)
  <2>1. Count(m) - 1 \in Int /\ (0 > Count(m) - 1 => Count(m) = 0)
        /\ (Count(m) - 1) - 0 + 1 = Count(m)
    BY <1>3
  <2> QED BY <2>1, FS_Interval
<1>9. IsFiniteSet(s0) /\ IsFiniteSet(s) BY <1>4, <1>5, <1>8, FS_Subset
<1>10. Cardinality(s) = Cardinality(s0) + 1 BY <1>6, <1>9, FS_AddElement
<1>11. Cardinality(s) = Count(m) => s = all BY <1>5, <1>8, FS_Subset
<1>12. PartsAre(e, m, s)
  <2> DEFINE q == [i \in DOMAIN e0.parts \cup {f.index} |->
                     IF i = f.index THEN m ELSE e0.parts[i]]
             t == e0.received + 1
  <2>1. e = [e0 EXCEPT !.received = t, !.parts = q] BY DEF WithPart, e0
  <2>2. /\ DOMAIN e0 = {"count", "received", "parts"} /\ e0.count = Count(m)
        /\ DOMAIN e0.parts = s0 /\ \A i \in s0 : e0.parts[i] = m
        /\ e0.received = Cardinality(s0)
    BY <1>4 DEF PartsAre
  <2>3. DOMAIN q = s /\ \A i \in s : q[i] = m BY <2>2
  <2> HIDE DEF q, t
  <2>4. /\ DOMAIN e = {"count", "received", "parts"} /\ e.count = Count(m)
        /\ e.received = t /\ e.parts = q
    BY <2>1, <2>2, ExceptFacts
  <2>5. e.received = Cardinality(s) BY <2>2, <2>4, <1>10 DEF t
  <2> QED BY <2>3, <2>4, <2>5 DEF PartsAre
<1>13. e.count = Count(m) /\ e.received = Cardinality(s) BY <1>12 DEF PartsAre
<1>14. (s # all => e.received # e.count) /\ (s = all => e.received = e.count)
  BY <1>8, <1>11, <1>13
<1>15. Key(m) \in DOMAIN partial[n] => PartsOf(n, Key(m)) \subseteq s BY <1>4
<1>16. f.index \in s OBVIOUS
<1> HIDE DEF s
<1> QED BY <1>5, <1>7, <1>12, <1>14, <1>15, <1>16

\* What taking a frame leaves as it was.
LEMMA TakesFacts ==
  ASSUME Always, NEW n \in Nodes, Takes(n)
  PROVE  /\ TakenFrom(n)
         /\ Made' = Made /\ \A kind : Of(kind)' = Of(kind)
         /\ \A m : Key(m)' = Key(m) /\ Count(m)' = Count(m)
         /\ InfoOK' /\ ChannelOK' /\ channel' \in [Nodes -> Seq(FrameRecords)]
<1>1. TypeOK /\ InfoOK /\ ChannelOK BY DEF Always
<1>2. /\ channel[n] # <<>> /\ info' = info
      /\ channel' = [channel EXCEPT ![n] = Tail(@)]
  BY DEF Takes
<1>3. TakenFrom(n) BY <1>1, <1>2, TailFacts
<1>4. /\ Made' = Made /\ \A kind : Of(kind)' = Of(kind)
      /\ \A m : Key(m)' = Key(m) /\ Count(m)' = Count(m)
  BY <1>2, SameInfo
<1>5. InfoOK' BY <1>1, <1>2, <1>4 DEF InfoOK
<1> QED BY <1>3, <1>4, <1>5 DEF TakenFrom

\* A part is received, and is not the last one.
LEMMA ReceivePartNext ==
  ASSUME Always, NEW n \in Nodes, ReceivePart(n)
  PROVE  Always' /\ (Orderly => Orderly')
<1>0. PICK f : f = Head(channel[n]) OBVIOUS
<1>k. PICK key : key = Key(f.msg) OBVIOUS
<1> DEFINE m == f.msg
           e == WithPart(Entry(n, f), f)
           all == 0..(Count(f.msg) - 1)
<1>1. TypeOK /\ InfoOK /\ FreshOK /\ EntriesOK /\ ChannelOK BY DEF Always
<1>2. /\ Takes(n) /\ e.received # e.count
      /\ UNCHANGED <<requests, answer, delivered, rejected, gaps>>
      /\ partial' = [partial EXCEPT ![n] =
                       [k \in DOMAIN @ \cup {key} |-> IF k = key THEN e ELSE @[k]]]
  BY <1>0, <1>k DEF ReceivePart, Takes, promises, history
<1>3. /\ channel[n] # <<>>
      /\ UNCHANGED <<info, nextId, sent, cancelled, cleaned, reused>>
  BY <1>2 DEF Takes
<1>4. /\ TakenFrom(n) /\ Made' = Made /\ \A kind : Of(kind)' = Of(kind)
      /\ \A x : Key(x)' = Key(x) /\ Count(x)' = Count(x)
      /\ InfoOK' /\ ChannelOK' /\ channel' \in [Nodes -> Seq(FrameRecords)]
  BY <1>2, TakesFacts
<1>5. /\ m \in Made /\ info[m].to = n /\ f.index \in all /\ InChannel(m)
      /\ \A x : InChannel(x)' => InChannel(x)
      /\ \A p \in Nodes : \A x,
           i : InAir(p, x, i) /\ (x = m => i # f.index) => InAir(p, x, i)'
      /\ \A p \in Nodes : \A j \in 1..Len(channel'[p]) : channel'[p][j].msg = m =>
           p = n /\ f.index < channel'[p][j].index
  BY <1>0, <1>4 DEF TakenFrom
<1>6. TypeOK' BY <1>1, <1>2, <1>3, <1>4 DEF TypeOK, FrameRecords
<1>7. FreshOK' BY <1>1, <1>2, <1>3, <1>4 DEF FreshOK
<1>8. EntriesOK' BY <1>1, <1>2, <1>3, <1>4 DEF EntriesOK
<1>9. ASSUME Orderly PROVE Orderly'
  <2>1. SentOK /\ AnswersOK /\ WaitingOK /\ PartialOK /\ DoneOK /\ CompleteOK
    BY <1>9 DEF Orderly
  <2>2. PICK s \in SUBSET all :
          /\ PartsAre(e, m, s) /\ f.index \in s /\ \A i \in s : i <= f.index
          /\ key \in DOMAIN partial[n] => PartsOf(n, key) \subseteq s
          /\ s = all => e.received = e.count
    BY <1>0, <1>k, <1>3, <1>4, <1>9, PartFacts
  <2>3. s # all BY <1>2, <2>2
  <2>4. /\ DOMAIN e = {"count", "received", "parts"} /\ e.count = Count(m)
        /\ DOMAIN e.parts = s /\ \A i \in s : e.parts[i] = m
        /\ e.received = Cardinality(s)
    BY <2>2 DEF PartsAre
  <2> HIDE DEF e
  <2>5. partial = [p \in Nodes |-> partial[p]] BY <2>1 DEF PartialOK
  <2>6. /\ partial' = [p \in Nodes |-> partial'[p]]
        /\ partial'[n] = [k \in DOMAIN partial[n] \cup {key} |->
                            IF k = key THEN e ELSE partial[n][k]]
        /\ \A p \in Nodes : p # n => partial'[p] = partial[p]
    BY <1>2, <2>5
  <2>7. /\ DOMAIN partial'[n] = DOMAIN partial[n] \cup {key} /\ partial'[n][key] = e
        /\ \A k \in DOMAIN partial[n] : k # key => partial'[n][k] = partial[n][k]
    BY <2>6
  <2>8. \A p \in Nodes : \A k \in DOMAIN partial'[p] :
          \/ p = n /\ k = key /\ partial'[p][k] = e
          \/ k \in DOMAIN partial[p] /\ partial'[p][k] = partial[p][k]
    BY <2>6, <2>7
  <2>9. ASSUME NEW x, InPieces(x)', x # m PROVE InPieces(x)
    <3>1. PICK p \in Nodes : \E k \in DOMAIN partial'[p] :
            \E i \in DOMAIN partial'[p][k].parts : partial'[p][k].parts[i] = x
      BY <2>9 DEF InPieces
    <3>2. PICK k \in DOMAIN partial'[p] :
            \E i \in DOMAIN partial'[p][k].parts : partial'[p][k].parts[i] = x
      BY <3>1
    <3>3. ~(p = n /\ k = key /\ partial'[p][k] = e) BY <3>2, <2>4, <2>9
    <3> QED BY <3>2, <3>3, <2>8 DEF InPieces
  <2>10. AloneOK' BY <1>2, <1>3, <1>5, <1>9, <2>9, QuietAlone
  <2>11. SentOK' /\ AnswersOK' /\ WaitingOK'
    BY <2>1, <1>2, <1>3, <1>4 DEF SentOK, AnswersOK, WaitingOK
  <2>12. DoneOK' BY <2>1, <2>9, <1>2, <1>4, <1>5 DEF DoneOK
  <2>13. Holds(n, key, m)'
    <3>1. Key(m)' = key /\ Count(m)' = Count(m) /\ info'[m].to = n
      BY <1>k, <1>3, <1>4, <1>5
    <3>2. ASSUME NEW j \in 1..Len(channel'[n]), channel'[n][j].msg = m, NEW i \in s
          PROVE  i < channel'[n][j].index
      <4>1. channel'[n][j] \in FrameRecords BY <1>4, ElementOfSeq
      <4>2. channel'[n][j].index \in Nat BY <4>1 DEF FrameRecords
      <4>3. f.index < channel'[n][j].index BY <1>5, <3>2
      <4>4. i <= f.index /\ i \in all BY <2>2
      <4>5. i \in Int /\ f.index \in Int BY <4>4, <1>5
      <4> QED BY <4>2, <4>3, <4>4, <4>5
    <3>3. e.received # e.count BY <1>2 DEF e
    <3> QED BY <3>1, <3>2, <3>3, <2>2, <2>4, <2>7 DEF Holds
  <2>14. PartialOK'
    <3>1. ASSUME NEW p \in Nodes, NEW k \in DOMAIN partial'[p]
          PROVE  \E x \in Made : Holds(p, k, x)'
      <4>1. CASE p = n /\ k = key BY <4>1, <2>13, <1>5
      <4>2. CASE ~(p = n /\ k = key)
        <5>1. k \in DOMAIN partial[p] /\ partial'[p][k] = partial[p][k]
          BY <4>2, <2>8
        <5>2. PICK x \in Made : Holds(p, k, x) BY <5>1, <2>1 DEF PartialOK
        <5>3. Holds(p, k, x)' BY <5>1, <5>2, <1>3, <1>4, HoldsKept
        <5> QED BY <5>3
      <4> QED BY <4>1, <4>2
    <3> QED BY <3>1, <2>6, <1>4 DEF PartialOK
  <2>15. CompleteOK'
    <3>1. ASSUME NEW x \in Made \ (gaps \cup rejected), delivered[x] = "no"
          PROVE  /\ InChannel(x)'
                 /\ \A p \in Nodes, i \in 0..(Count(x) - 1) :
                      info[x].to = p => InAir(p, x, i)' \/ Here(x, i)'
      <4>1. info[x].to \in Nodes BY <1>1, MadeFacts DEF Infos
      <4>2. ASSUME NEW i, Here(x, i) PROVE Here(x, i)'
        <5>1. /\ Key(x) \in DOMAIN partial[info[x].to]
              /\ i \in PartsOf(info[x].to, Key(x))
          BY <4>2 DEF Here
        <5>2. CASE info[x].to = n /\ Key(x) = key
          <6>1. i \in s BY <5>1, <5>2, <2>2
          <6> QED BY <6>1, <5>2, <2>4, <2>7, <1>3, <1>4 DEF Here, PartsOf
        <5>3. CASE info[x].to = n /\ Key(x) # key
          BY <5>1, <5>3, <2>7, <1>3, <1>4 DEF Here, PartsOf
        <5>4. CASE info[x].to # n
          BY <5>1, <5>4, <4>1, <2>6, <1>3, <1>4 DEF Here, PartsOf
        <5> QED BY <5>2, <5>3, <5>4
      <4>3. CASE x # m BY <4>2, <4>3, <3>1, <2>1, <1>0, <1>1, <1>3, <1>4, OthersComplete
      <4>4. CASE x = m
        <5>1. ASSUME NEW i \in all PROVE i \in s \/ InAir(n, m, i)'
          <6>1. InAir(n, m, i) \/ Here(m, i)
            BY <4>4, <3>1, <2>1, <1>5 DEF CompleteOK
          <6>2. Here(m, i) => i \in s BY <2>2, <1>k, <1>5 DEF Here
          <6>3. InAir(n, m, i) /\ i \notin s => InAir(n, m, i)' BY <2>2, <1>5
          <6> QED BY <6>1, <6>2, <6>3
        <5>2. \A i \in s : Here(m, i)'
          BY <2>4, <2>7, <1>k, <1>3, <1>4, <1>5 DEF Here, PartsOf
        <5>3. PICK i \in all : i \notin s BY <2>3
        <5>4. InAir(n, m, i)' BY <5>1, <5>3
        <5>5. InChannel(m)'
          <6>1. PICK j \in 1..Len(channel'[n]) : channel'[n][j] = Frame(m, i)
            BY <5>4 DEF InAir
          <6>2. channel'[n][j].msg = m BY <6>1 DEF Frame
          <6> QED BY <6>1, <6>2 DEF InChannel
        <5> QED BY <5>1, <5>2, <5>5, <4>4, <1>5
      <4> QED BY <4>3, <4>4
    <3> QED BY <3>1, <1>2, <1>3, <1>4 DEF CompleteOK
  <2> QED BY <2>10, <2>11, <2>12, <2>14, <2>15 DEF Orderly
<1> QED BY <1>4, <1>6, <1>7, <1>8, <1>9 DEF Always

\* What a whole message does to the table of requests: it resolves the request that has
\* its id if it is a response, and nothing otherwise.
LEMMA ResolveFacts ==
  ASSUME TypeOK, EntriesOK, NEW n \in Nodes, NEW m \in Made, info[m].to = n,
         Resolve(n, m)
  PROVE  /\ answer' \in [Messages -> Messages \cup {None}]
         /\ requests' \in [Nodes -> [Ids -> Messages \cup {None}]]
         /\ \/ /\ answer' = answer /\ requests' = requests
               /\ info[m].kind = "response" => requests[n][info[m].id] = None
            \/ \E r \in Of("request") :
                 /\ info[m].kind = "response" /\ r = requests[n][info[m].id]
                 /\ info[r].from = n /\ info[r].id = info[m].id /\ answer[r] = None
                 /\ \A o \in Messages : answer'[o] = IF o = r THEN m ELSE answer[o]
                 /\ \A p \in Nodes, i \in Ids : requests'[p][i] =
                      IF p = n /\ i = info[m].id THEN None ELSE requests[p][i]
<1>1. /\ answer \in [Messages -> Messages \cup {None}]
      /\ requests \in [Nodes -> [Ids -> Messages \cup {None}]]
  BY DEF TypeOK
<1>2. m \in Messages /\ info[m].id \in Ids BY MadeFacts DEF Infos
<1>3. PICK r : r = requests[n][info[m].id] OBVIOUS
<1>4. CASE info[m].kind = "response" /\ r # None
  <2>1. /\ r \in Of("request") /\ info[r].from = n /\ info[r].id = info[m].id
        /\ answer[r] = None
    BY <1>2, <1>3, <1>4 DEF EntriesOK
  <2>2. r \in Messages BY <1>1, <1>2, <1>3, <1>4
  <2>3. /\ answer' = [answer EXCEPT ![r] = m]
        /\ requests' = [requests EXCEPT ![n][info[m].id] = None]
    BY <1>3, <1>4 DEF Resolve
  <2>4. /\ answer' \in [Messages -> Messages \cup {None}]
        /\ \A o \in Messages : answer'[o] = IF o = r THEN m ELSE answer[o]
    BY <2>2, <2>3, <1>1, <1>2
  <2>5. /\ requests' \in [Nodes -> [Ids -> Messages \cup {None}]]
        /\ \A p \in Nodes, i \in Ids : requests'[p][i] =
             IF p = n /\ i = info[m].id THEN None ELSE requests[p][i]
    BY <2>3, <1>1, <1>2
  <2> QED BY <2>1, <2>4, <2>5, <1>3, <1>4
<1>5. CASE ~(info[m].kind = "response" /\ r # None)
  <2>1. answer' = answer /\ requests' = requests BY <1>3, <1>5 DEF Resolve
  <2> QED BY <2>1, <1>1, <1>3, <1>5
<1> QED BY <1>4, <1>5

\* The last part is received: the message is whole, a response finds its request.
LEMMA ReceiveLastNext ==
  ASSUME Always, NEW n \in Nodes, ReceiveLast(n)
  PROVE  Always' /\ (Orderly => Orderly')
<1>0. PICK f : f = Head(channel[n]) OBVIOUS
<1>k. PICK key : key = Key(f.msg) OBVIOUS
<1>e. PICK e : e = WithPart(Entry(n, f), f) OBVIOUS
<1> DEFINE m == f.msg
           all == 0..(Count(f.msg) - 1)
<1>1. TypeOK /\ InfoOK /\ FreshOK /\ EntriesOK /\ ChannelOK BY DEF Always
<1>2. /\ Takes(n) /\ e.received = e.count
      /\ delivered' = [delivered EXCEPT ![m] = IF IsWhole(m, e) THEN "whole"
           ELSE "torn"]
      /\ partial' = [partial EXCEPT ![n] = Erase(@, key)]
      /\ Resolve(n, m)
      /\ UNCHANGED <<rejected, gaps>>
  BY <1>0, <1>k, <1>e DEF ReceiveLast, Takes, history
<1>3. /\ channel[n] # <<>>
      /\ UNCHANGED <<info, nextId, sent, cancelled, cleaned, reused>>
  BY <1>2 DEF Takes
<1>4. /\ TakenFrom(n) /\ Made' = Made /\ \A kind : Of(kind)' = Of(kind)
      /\ \A x : Key(x)' = Key(x) /\ Count(x)' = Count(x)
      /\ InfoOK' /\ ChannelOK' /\ channel' \in [Nodes -> Seq(FrameRecords)]
  BY <1>2, TakesFacts
<1>5. /\ m \in Made /\ info[m].to = n /\ f.index \in all /\ InChannel(m)
      /\ \A x : InChannel(x)' => InChannel(x)
      /\ \A p \in Nodes : \A j \in 1..Len(channel'[p]) : channel'[p][j].msg = m =>
           p = n /\ f.index < channel'[p][j].index
  BY <1>0, <1>4 DEF TakenFrom
<1>6. /\ Made \subseteq Messages /\ None \notin Messages
      /\ info[m].id \in Ids /\ Count(m) \in Nat
  BY <1>1, <1>5, MadeFacts DEF Infos
<1>7. /\ delivered' \in [Messages -> {"no", "whole", "torn"}]
      /\ \A x \in Messages : x # m => delivered'[x] = delivered[x]
      /\ delivered'[m] = IF IsWhole(m, e) THEN "whole" ELSE "torn"
  BY <1>1, <1>2, <1>5, <1>6 DEF TypeOK
<1>8. /\ answer' \in [Messages -> Messages \cup {None}]
      /\ requests' \in [Nodes -> [Ids -> Messages \cup {None}]]
      /\ \/ /\ answer' = answer /\ requests' = requests
            /\ info[m].kind = "response" => requests[n][info[m].id] = None
         \/ \E r \in Of("request") :
              /\ info[m].kind = "response" /\ r = requests[n][info[m].id]
              /\ info[r].from = n /\ info[r].id = info[m].id /\ answer[r] = None
              /\ \A o \in Messages : answer'[o] = IF o = r THEN m ELSE answer[o]
              /\ \A p \in Nodes, i \in Ids : requests'[p][i] =
                   IF p = n /\ i = info[m].id THEN None ELSE requests[p][i]
  BY <1>1, <1>2, <1>5, ResolveFacts
<1> DEFINE Idle == /\ answer' = answer /\ requests' = requests
                   /\ info[m].kind = "response" => requests[n][info[m].id] = None
           Resolves(r) ==
             /\ info[m].kind = "response" /\ r = requests[n][info[m].id]
             /\ info[r].from = n /\ info[r].id = info[m].id /\ answer[r] = None
             /\ \A o \in Messages : answer'[o] = IF o = r THEN m ELSE answer[o]
             /\ \A p \in Nodes, i \in Ids : requests'[p][i] =
                  IF p = n /\ i = info[m].id THEN None ELSE requests[p][i]
<1>9. Idle \/ \E r \in Of("request") : Resolves(r) BY <1>8
<1>10. TypeOK' BY <1>1, <1>2, <1>3, <1>4, <1>7, <1>8 DEF TypeOK, FrameRecords
<1>11. FreshOK'
  <2> SUFFICES ASSUME NEW x \in Messages \ Made
               PROVE  answer'[x] = None /\ delivered'[x] = "no"
    BY <1>1, <1>2, <1>3, <1>4 DEF FreshOK
  <2>1. answer[x] = None /\ delivered[x] = "no" BY <1>1 DEF FreshOK
  <2>2. answer'[x] = None
    <3>1. \A r \in Of("request") : r # x BY DEF Of
    <3> QED BY <3>1, <2>1, <1>9
  <2> QED BY <2>1, <2>2, <1>5, <1>7
<1>12. EntriesOK'
  <2> SUFFICES ASSUME NEW p \in Nodes, NEW i \in Ids, NEW o, o = requests'[p][i],
                      o # None
               PROVE  /\ o \in Of("request") /\ info[o].from = p /\ info[o].id = i
                      /\ answer'[o] = None /\ o \notin cancelled
    BY <1>3, <1>4 DEF EntriesOK
  <2>1. o = requests[p][i] BY <1>9
  <2>2. /\ o \in Of("request") /\ info[o].from = p /\ info[o].id = i
        /\ answer[o] = None /\ o \notin cancelled
    BY <2>1, <1>1 DEF EntriesOK
  <2>3. o \in Messages BY <2>2, <1>6 DEF Of
  <2>4. answer'[o] = None
    <3>1. CASE Idle BY <3>1, <2>2
    <3>2. ASSUME NEW r \in Of("request"), Resolves(r) PROVE answer'[o] = None
      BY <3>2, <2>2, <2>3
    <3> QED BY <3>1, <3>2, <1>9
  <2> QED BY <2>2, <2>4
<1> HIDE DEF Idle, Resolves
<1>13. ASSUME Orderly PROVE Orderly'
  <2>1. AloneOK /\ SentOK /\ AnswersOK /\ WaitingOK /\ PartialOK /\ DoneOK /\ CompleteOK
    BY <1>13 DEF Orderly
  <2>2. PICK s \in SUBSET all :
          /\ PartsAre(e, m, s) /\ \A i \in s : i <= f.index
          /\ s # all => e.received # e.count
    BY <1>0, <1>e, <1>3, <1>4, <1>13, PartFacts
  <2>3. s = all BY <1>2, <2>2
  <2>4. IsWhole(m, e) BY <2>2, <2>3 DEF PartsAre, IsWhole
  <2>5. delivered'[m] = "whole" BY <2>4, <1>7
  <2>6. partial = [p \in Nodes |-> partial[p]] BY <2>1 DEF PartialOK
  <2>7. /\ partial' = [p \in Nodes |-> partial'[p]]
        /\ partial'[n] = [k \in DOMAIN partial[n] \ {key} |-> partial[n][k]]
        /\ \A p \in Nodes : p # n => partial'[p] = partial[p]
    BY <1>2, <2>6 DEF Erase
  <2>8. \A p \in Nodes : \A k :
          /\ k \in DOMAIN partial'[p] =>
               /\ k \in DOMAIN partial[p] /\ partial'[p][k] = partial[p][k]
               /\ ~(p = n /\ k = key)
          /\ k \in DOMAIN partial[p] /\ ~(p = n /\ k = key) =>
               k \in DOMAIN partial'[p] /\ partial'[p][k] = partial[p][k]
    BY <2>7
  <2>9. \A x : InPieces(x)' => InPieces(x) BY <2>8 DEF InPieces
  <2>10. \A p \in Nodes, i \in Ids : requests'[p][i] \in {requests[p][i], None}
    BY <1>9 DEF Idle, Resolves
  <2>11. AloneOK'
    <3>1. \A x \in Made : delivered'[x] = delivered[x] \/ InChannel(x)
      BY <1>5, <1>6, <1>7
    <3> QED BY <3>1, <2>9, <2>10, <1>3, <1>5, <1>13, QuietAlone
  <2>12. SentOK' BY <2>1, <1>3 DEF SentOK
  <2>13. Alive(m) BY <1>5 DEF Alive
  <2>14. delivered[m] = "no" BY <2>1, <1>5 DEF DoneOK
  <2>15. ASSUME NEW r \in Of("request"), Resolves(r) PROVE info[m].re = r
    <3>1. /\ info[m].kind = "response" /\ r = requests[n][info[m].id]
          /\ info[r].from = n /\ info[r].id = info[m].id
      BY <2>15 DEF Resolves
    <3>2. r \in Made /\ info[r].kind = "request" BY DEF Of
    <3>3. requests[info[r].from][info[r].id] = r BY <3>1
    <3>4. Alive(r) /\ Owner(r) = n /\ Root(r) = r
      BY <3>1, <3>2, <3>3 DEF Alive, Owner, Root
    <3>5. Owner(m) = n /\ Root(m) = info[m].re BY <3>1, <1>5 DEF Owner, Root
    <3> QED BY <3>1, <3>2, <3>4, <3>5, <2>1, <2>13, <1>5 DEF AloneOK
  <2>16. AnswersOK'
    <3>1. ASSUME NEW r \in Messages, answer'[r] # None
          PROVE  /\ answer'[r] \in Of("response") /\ info[answer'[r]].re = r
                 /\ delivered'[answer'[r]] # "no"
      <4>1. CASE answer'[r] = answer[r]
        <5>1. /\ answer[r] \in Of("response") /\ info[answer[r]].re = r
              /\ delivered[answer[r]] # "no" /\ answer[r] \in Messages
          BY <4>1, <3>1, <2>1, <1>6 DEF AnswersOK, Of
        <5>2. answer[r] # m BY <5>1, <2>14
        <5> QED BY <4>1, <5>1, <5>2, <1>7
      <4>2. CASE answer'[r] # answer[r]
        <5>1. PICK q \in Of("request") : Resolves(q) BY <4>2, <1>9 DEF Idle
        <5>2. r = q /\ answer'[r] = m /\ info[m].kind = "response"
          BY <4>2, <5>1 DEF Resolves
        <5>3. info[m].re = r BY <5>1, <5>2, <2>15
        <5> QED BY <5>2, <5>3, <2>5, <1>5 DEF Of
      <4> QED BY <4>1, <4>2
    <3>2. ASSUME NEW o \in Of("response"), delivered'[o] # "no"
          PROVE  answer'[info[o].re] = o \/ info[o].re \in cleaned
      <4>1. /\ o \in Made /\ info[o].kind = "response" /\ info[o].re \in Of("request")
            /\ info[o].re \in Messages
        BY <1>1, <1>6 DEF Of, InfoOK
      <4>2. CASE o = m
        <5>1. ASSUME NEW r \in Of("request"), Resolves(r) PROVE answer'[info[m].re] = m
          <6>1. info[m].re = r BY <5>1, <2>15
          <6> QED BY <6>1, <5>1, <4>1, <4>2 DEF Resolves
        <5>2. CASE Idle
          <6>1. requests[n][info[m].id] = None BY <5>2, <4>1, <4>2 DEF Idle
          <6>2. /\ info[info[m].re].from = n /\ info[info[m].re].id = info[m].id
            BY <4>2, <1>1, <1>5 DEF InfoOK
          <6>3. info[m].re # None BY <4>1, <4>2, <1>6
          <6>4. answer[info[m].re] # None \/ info[m].re \in cleaned
            BY <6>1, <6>2, <6>3, <4>1, <4>2, <2>1 DEF WaitingOK
          <6>5. ASSUME answer[info[m].re] # None PROVE FALSE
            <7>1. PICK a : a = answer[info[m].re] OBVIOUS
            <7>2. a \in Of("response") /\ info[a].re = info[m].re /\ delivered[a] # "no"
              BY <7>1, <6>5, <4>1, <4>2, <2>1 DEF AnswersOK
            <7>3. a = m BY <7>2, <4>2, <1>1 DEF InfoOK
            <7> QED BY <7>2, <7>3, <2>14
          <6> QED BY <6>4, <6>5, <4>2
        <5> QED BY <5>1, <5>2, <4>2, <1>9
      <4>3. CASE o # m
        <5>1. delivered[o] # "no" BY <4>3, <3>2, <4>1, <1>6, <1>7
        <5>2. answer[info[o].re] = o \/ info[o].re \in cleaned
          BY <5>1, <2>1 DEF AnswersOK
        <5>3. ASSUME NEW r \in Of("request"), Resolves(r), answer[info[o].re] = o
              PROVE  answer'[info[o].re] = o
          <6>1. answer[r] = None /\ o # None BY <5>3, <4>1, <1>6 DEF Resolves
          <6>2. info[o].re # r BY <6>1, <5>3
          <6> QED BY <6>2, <5>3, <4>1 DEF Resolves
        <5> QED BY <5>2, <5>3, <1>9 DEF Idle
      <4> QED BY <4>2, <4>3
    <3> QED BY <3>1, <3>2, <1>3, <1>4 DEF AnswersOK
  <2>17. WaitingOK'
    <3> SUFFICES ASSUME NEW o \in Of("request"), answer'[o] = None, o \notin cleaned
                 PROVE  requests'[info[o].from][info[o].id] = o
      BY <1>3, <1>4 DEF WaitingOK
    <3>1. o \in Made /\ o \in Messages BY <1>6 DEF Of
    <3>2. info[o].from \in Nodes /\ info[o].id \in Ids
      BY <3>1, <1>1, MadeFacts DEF Infos
    <3>3. CASE Idle BY <3>3, <2>1 DEF Idle, WaitingOK
    <3>4. ASSUME NEW r \in Of("request"), Resolves(r)
          PROVE  requests'[info[o].from][info[o].id] = o
      <4>1. m # None BY <1>5, <1>6
      <4>2. o # r /\ answer[o] = None BY <4>1, <3>1, <3>4 DEF Resolves
      <4>3. requests[info[o].from][info[o].id] = o BY <4>2, <2>1 DEF WaitingOK
      <4>4. ~(info[o].from = n /\ info[o].id = info[m].id)
        BY <4>2, <4>3, <3>4 DEF Resolves
      <4> QED BY <4>3, <4>4, <3>2, <3>4 DEF Resolves
    <3> QED BY <3>3, <3>4, <1>9
  <2>18. PartialOK'
    <3>1. ASSUME NEW p \in Nodes, NEW k \in DOMAIN partial'[p]
          PROVE  \E x \in Made : Holds(p, k, x)'
      <4>1. k \in DOMAIN partial[p] /\ partial'[p][k] = partial[p][k] BY <2>8
      <4>2. PICK x \in Made : Holds(p, k, x) BY <4>1, <2>1 DEF PartialOK
      <4>3. Holds(p, k, x)' BY <4>1, <4>2, <1>3, <1>4, HoldsKept
      <4> QED BY <4>3
    <3> QED BY <3>1, <2>7, <1>4 DEF PartialOK
  <2>19. ~InChannel(m)'
    <3>1. ASSUME NEW p \in Nodes, NEW j \in 1..Len(channel'[p]), channel'[p][j].msg = m
          PROVE  FALSE
      <4>1. p = n /\ f.index < channel'[p][j].index BY <3>1, <1>5
      <4>2. channel'[p][j].index \in 0..(Count(m)' - 1)
        BY <3>1, <1>4 DEF ChannelOK, AirOK
      <4>3. channel'[p][j].index \in s BY <4>2, <2>3, <1>4
      <4>4. channel'[p][j].index <= f.index BY <4>3, <2>2
      <4>5. channel'[p][j].index \in Nat /\ f.index \in Nat
        <5>1. channel'[p][j].index \in all BY <4>2, <1>4
        <5>2. \A i \in all : i \in Nat BY <1>6
        <5> QED BY <5>1, <5>2, <1>5
      <4> QED BY <4>1, <4>4, <4>5
    <3> QED BY <3>1 DEF InChannel
  <2>20. ~InPieces(m)'
    <3>1. ASSUME NEW p \in Nodes, NEW k \in DOMAIN partial'[p],
                 NEW i \in DOMAIN partial'[p][k].parts, partial'[p][k].parts[i] = m
          PROVE  FALSE
      <4>1. /\ k \in DOMAIN partial[p] /\ partial'[p][k] = partial[p][k]
            /\ ~(p = n /\ k = key)
        BY <2>8
      <4>2. PICK x \in Made : Holds(p, k, x) BY <4>1, <2>1 DEF PartialOK
      <4>3. x = m /\ info[x].to = p /\ Key(x) = k BY <4>1, <4>2, <3>1 DEF Holds
      <4> QED BY <4>1, <4>3, <1>5, <1>k
    <3> QED BY <3>1 DEF InPieces
  <2>21. DoneOK'
    <3>1. ASSUME NEW x \in Made, delivered'[x] # "no"
          PROVE  delivered'[x] = "whole" /\ ~InChannel(x)' /\ ~InPieces(x)'
      <4>1. CASE x = m BY <4>1, <2>5, <2>19, <2>20
      <4>2. CASE x # m
        <5>1. delivered'[x] = delivered[x] BY <4>2, <1>6, <1>7
        <5> QED BY <5>1, <3>1, <2>1, <2>9, <1>5 DEF DoneOK
      <4> QED BY <4>1, <4>2
    <3> QED BY <3>1, <1>4 DEF DoneOK
  <2>22. CompleteOK'
    <3>1. ASSUME NEW x \in Made \ (gaps \cup rejected), delivered'[x] = "no"
          PROVE  /\ InChannel(x)'
                 /\ \A p \in Nodes, i \in 0..(Count(x) - 1) :
                      info[x].to = p => InAir(p, x, i)' \/ Here(x, i)'
      <4>1. x # m BY <3>1, <2>5
      <4>2. delivered[x] = "no" BY <4>1, <3>1, <1>6, <1>7
      <4>3. Alive(x) BY <4>2, <3>1, <2>1 DEF CompleteOK, Alive
      <4>4. ~(info[x].to = n /\ Key(x) = key)
        BY <4>1, <4>3, <2>1, <2>13, <1>5, <1>k, KeyTells
      <4>5. info[x].to \in Nodes BY <1>1, MadeFacts DEF Infos
      <4>6. \A i : Here(x, i) => Here(x, i)'
        BY <4>4, <4>5, <2>8, <1>3, <1>4 DEF Here, PartsOf
      <4> QED BY <4>1, <4>2, <4>6, <3>1, <2>1, <1>0, <1>1, <1>3, <1>4, OthersComplete
    <3> QED BY <3>1, <1>2, <1>3, <1>4 DEF CompleteOK
  <2> QED
    BY <2>11, <2>12, <2>16, <2>17, <2>18, <2>21, <2>22 DEF Orderly
<1> QED BY <1>4, <1>10, <1>11, <1>12, <1>13 DEF Always

\* The initial state satisfies the inductive invariant.
LEMMA InteractionInitIInv == Init => InteractionIInv
<1> SUFFICES ASSUME Init PROVE InteractionIInv OBVIOUS
<1>1. /\ info = <<>> /\ Len(info) = 0 /\ Made = {} /\ \A kind : Of(kind) = {}
      /\ channel = [n \in Nodes |-> <<>>] /\ \A n \in Nodes : Len(channel[n]) = 0
  BY DEF Init, Made, Of
<1>2. MaxMessages \in Nat /\ IdCount \in Nat \ {0} BY InteractionAssumption
<1>3. TypeOK
  <2>1. nextId \in [Nodes -> Ids] BY <1>2 DEF Init, Ids
  <2>2. info \in Seq(Infos) /\ channel \in [Nodes -> Seq(FrameRecords)]
    BY <1>1
  <2>3. Len(info) <= MaxMessages BY <1>1, <1>2
  <2>4. requests \in [Nodes -> [Ids -> Messages \cup {None}]] BY DEF Init
  <2>5. /\ sent \in [Messages -> {"no", "sending", "ok", "failed"}]
        /\ answer \in [Messages -> Messages \cup {None}]
        /\ cancelled \in SUBSET Messages /\ cleaned \in SUBSET Messages
        /\ delivered \in [Messages -> {"no", "whole", "torn"}]
        /\ rejected \in SUBSET Messages /\ gaps \in SUBSET Messages
        /\ reused \in BOOLEAN
    BY DEF Init
  <2> QED BY <2>1, <2>2, <2>3, <2>4, <2>5 DEF TypeOK, Infos, FrameRecords
<1>4. InfoOK /\ FreshOK BY <1>1 DEF Init, InfoOK, FreshOK
<1>5. EntriesOK BY DEF Init, EntriesOK
<1>6. ChannelOK BY <1>1 DEF ChannelOK, AirOK
<1>7. AloneOK /\ SentOK /\ AnswersOK /\ WaitingOK /\ DoneOK /\ CompleteOK
  BY <1>1 DEF Init, AloneOK, SentOK, AnswersOK, WaitingOK, DoneOK, CompleteOK
<1>8. PartialOK BY DEF Init, PartialOK
<1> QED
  BY <1>3, <1>4, <1>5, <1>6, <1>7, <1>8 DEF InteractionIInv, Always, Orderly

\* Every step keeps it.
LEMMA InteractionNextIInv == InteractionIInv /\ [Next]_vars => InteractionIInv'
<1> SUFFICES ASSUME InteractionIInv, [Next]_vars PROVE InteractionIInv' OBVIOUS
<1>1. Always /\ (reused \/ Orderly) BY DEF InteractionIInv
<1>2. ASSUME NEW m0, NEW rec, Makes(m0, rec) PROVE InteractionIInv'
  <2>1. Always' BY <1>1, <1>2, MakesAlways
  <2>2. ~reused' => ~reused BY <1>2 DEF Makes
  <2>3. ~reused' => Orderly' BY <2>2, <1>1, <1>2, MakesOrderly
  <2> QED BY <2>1, <2>3 DEF InteractionIInv
<1>3. ASSUME Always', Orderly => Orderly', reused' = reused PROVE InteractionIInv'
  BY <1>1, <1>3 DEF InteractionIInv
<1>4. ASSUME NEW n \in Nodes, NEW t \in Nodes, NEW size \in NextSizes, Send(n, t, size)
      PROVE  InteractionIInv'
  <2>1. PICK m0 : m0 = Len(info) + 1 OBVIOUS
  <2>2. Makes(m0, New(n, t, "send", size, None, nextId[n]))
    BY <2>1, <1>1, <1>4, SendMakes
  <2>3. PICK rec : rec = New(n, t, "send", size, None, nextId[n]) OBVIOUS
  <2> QED BY <2>2, <2>3, <1>2
<1>5. ASSUME NEW n \in Nodes, NEW t \in Nodes, NEW size \in NextSizes,
             Request(n, t, size)
      PROVE  InteractionIInv'
  <2>1. PICK m0 : m0 = Len(info) + 1 OBVIOUS
  <2>2. Makes(m0, New(n, t, "request", size, None, nextId[n]))
    BY <2>1, <1>1, <1>5, RequestMakes
  <2>3. PICK rec : rec = New(n, t, "request", size, None, nextId[n]) OBVIOUS
  <2> QED BY <2>2, <2>3, <1>2
<1>6. ASSUME NEW r \in Messages, NEW size \in NextSizes, Respond(r, size)
      PROVE  InteractionIInv'
  <2>1. PICK m0 : m0 = Len(info) + 1 OBVIOUS
  <2>2. Makes(m0, New(info[r].to, info[r].from, "response", size, r, info[r].id))
    BY <2>1, <1>6, RespondMakes
  <2>3. PICK rec :
          rec = New(info[r].to, info[r].from, "response", size, r, info[r].id)
    OBVIOUS
  <2> QED BY <2>2, <2>3, <1>2
<1>7. ASSUME NEW r \in Messages, NEW s \in {"ok", "failed"}, SendSettles(r, s)
      PROVE  InteractionIInv'
  <2>1. reused' = reused BY <1>7 DEF SendSettles, history
  <2> QED BY <2>1, <1>1, <1>3, <1>7, SettlesNext
<1>8. ASSUME NEW r \in Messages, CleanUp(r) PROVE InteractionIInv'
  <2>1. reused' = reused BY <1>8 DEF CleanUp, history
  <2> QED BY <2>1, <1>1, <1>3, <1>8, CleanUpNext
<1>9. ASSUME NEW n \in Nodes, Lose(n) PROVE InteractionIInv'
  <2>1. /\ Takes(n) /\ UNCHANGED <<requests, partial, answer, delivered>>
        /\ gaps' = gaps \cup {Head(channel[n]).msg} /\ rejected' = rejected
        /\ reused' = reused
    BY <1>9 DEF Lose, Takes, tables, promises
  <2> QED BY <2>1, <1>1, <1>3, MissNext
<1>10. ASSUME NEW n \in Nodes, Reject(n) PROVE InteractionIInv'
  <2>1. /\ Takes(n) /\ UNCHANGED <<requests, partial, answer, delivered>>
        /\ rejected' = rejected \cup {Head(channel[n]).msg} /\ gaps' = gaps
        /\ reused' = reused
    BY <1>10 DEF Reject, Takes, tables, promises, history
  <2> QED BY <2>1, <1>1, <1>3, MissNext
<1>11. ASSUME NEW n \in Nodes, ReceivePart(n) PROVE InteractionIInv'
  <2>1. reused' = reused BY <1>11 DEF ReceivePart, history
  <2> QED BY <2>1, <1>1, <1>3, <1>11, ReceivePartNext
<1>12. ASSUME NEW n \in Nodes, ReceiveLast(n) PROVE InteractionIInv'
  <2>1. reused' = reused BY <1>12 DEF ReceiveLast, history
  <2> QED BY <2>1, <1>1, <1>3, <1>12, ReceiveLastNext
<1>13. CASE UNCHANGED vars
  <2>1. UNCHANGED <<info, nextId, requests, partial, channel, sent, answer, cancelled,
                    cleaned, delivered, rejected, gaps, reused>>
    BY <1>13 DEF vars, tables, promises, history
  <2>2. /\ Made' = Made /\ \A kind : Of(kind)' = Of(kind)
        /\ \A m : /\ Count(m)' = Count(m) /\ Root(m)' = Root(m)
                  /\ Owner(m)' = Owner(m) /\ Responses(m)' = Responses(m)
    BY <2>1, SameInfo
  <2>3. TypeOK' /\ InfoOK' /\ FreshOK' /\ EntriesOK' /\ ChannelOK'
    <3>1. TypeOK /\ InfoOK /\ FreshOK /\ EntriesOK /\ ChannelOK BY <1>1 DEF Always
    <3>2. TypeOK' BY <3>1, <2>1 DEF TypeOK
    <3>3. InfoOK' BY <3>1, <2>1, <2>2 DEF InfoOK
    <3>4. FreshOK' BY <3>1, <2>1, <2>2 DEF FreshOK
    <3>5. EntriesOK' BY <3>1, <2>1, <2>2 DEF EntriesOK
    <3>6. ChannelOK' BY <3>1, <2>1, <2>2 DEF ChannelOK, AirOK
    <3> QED BY <3>2, <3>3, <3>4, <3>5, <3>6
  <2>4. ASSUME Orderly PROVE Orderly'
    <3>1. /\ SentOK /\ AnswersOK /\ WaitingOK /\ PartialOK /\ DoneOK /\ CompleteOK
          /\ ChannelOK
      BY <2>4, <1>1 DEF Orderly, Always
    <3>2. /\ PartialOK' /\ DoneOK' /\ CompleteOK'
          /\ \A m : InChannel(m)' = InChannel(m) /\ InPieces(m)' = InPieces(m)
      BY <3>1, <2>1, SamePieces
    <3>3. AloneOK' BY <3>2, <2>1, <2>4, <1>1, QuietAlone
    <3>4. SentOK' /\ AnswersOK' /\ WaitingOK'
      BY <3>1, <2>1, <2>2 DEF SentOK, AnswersOK, WaitingOK
    <3> QED BY <3>2, <3>3, <3>4 DEF Orderly
  <2> QED BY <2>1, <2>3, <2>4, <1>3 DEF Always
<1> QED
  BY <1>4, <1>5, <1>6, <1>7, <1>8, <1>9, <1>10, <1>11, <1>12, <1>13
  DEF Next, OnPacketReceived

\* The types of Interaction, for any nodes, sizes, ids and numbers of messages.
THEOREM InteractionTypeCorrect == Spec => []TypeOK
<1>1. InteractionIInv => TypeOK BY DEF InteractionIInv, Always
<1> QED BY <1>1, InteractionInitIInv, InteractionNextIInv, PTL DEF Spec

\* What _on_packet_received gives to the application is one message with all its parts,
\* although it counts parts and does not tell them apart, until an id is reused.
THEOREM MessagesAreWhole == Spec => []Whole
<1>1. InteractionIInv => Whole
  <2> SUFFICES ASSUME InteractionIInv, ~reused, NEW m \in Messages
               PROVE  delivered[m] # "torn"
    BY DEF Whole
  <2>1. Orderly /\ FreshOK BY DEF InteractionIInv, Always
  <2>2. CASE m \in Made BY <2>1, <2>2 DEF Orderly, DoneOK
  <2>3. CASE m \notin Made BY <2>1, <2>3 DEF FreshOK
  <2> QED BY <2>2, <2>3
<1> QED BY <1>1, InteractionInitIInv, InteractionNextIInv, PTL DEF Spec

\* A request is answered by its own response, and the response that has come through has
\* answered it unless it had failed, until an id is reused.
THEOREM RequestsGetTheirAnswers == Spec => []AnswersFit
<1>1. InteractionIInv => AnswersFit
  BY DEF InteractionIInv, Orderly, AnswersOK, AnswersFit
<1> QED BY <1>1, InteractionInitIInv, InteractionNextIInv, PTL DEF Spec

\* _requests holds the requests that wait and no others, whatever is sent, fails, is
\* answered or lost: no promise in it has been resolved.
THEOREM OnlyWaitingRequests == Spec => []TableFits
<1>1. InteractionIInv => TableFits
  <2> SUFFICES ASSUME InteractionIInv PROVE TableFits OBVIOUS
  <2>1. EntriesOK /\ (reused \/ WaitingOK) BY DEF InteractionIInv, Always, Orderly
  <2>2. \A n \in Nodes, i \in Ids : LET r == requests[n][i] IN
          r # None => /\ info[r].from = n /\ info[r].id = i
                      /\ answer[r] = None /\ r \notin cancelled
    BY <2>1 DEF EntriesOK
  <2>3. reused \/ \A r \in Of("request") :
          answer[r] = None /\ r \notin cancelled \cup cleaned =>
            requests[info[r].from][info[r].id] = r
    BY <2>1 DEF WaitingOK
  <2> QED BY <2>2, <2>3 DEF TableFits
<1> QED BY <1>1, InteractionInitIInv, InteractionNextIInv, PTL DEF Spec

\* A message none of whose frames is lost or called ill-formed is delivered with its
\* last frame, for any sizes and whatever else is sent, until an id is reused.
THEOREM NoMessageGetsStuck == Spec => []AllDelivered
<1>1. InteractionIInv => AllDelivered
  <2> SUFFICES ASSUME InteractionIInv, ~reused, NEW m \in Made \ (gaps \cup rejected)
               PROVE  InChannel(m) \/ delivered[m] = "whole"
    BY DEF AllDelivered
  <2>1. DoneOK /\ CompleteOK BY DEF InteractionIInv, Orderly
  <2> QED BY <2>1 DEF DoneOK, CompleteOK
<1> QED BY <1>1, InteractionInitIInv, InteractionNextIInv, PTL DEF Spec
=============================================================================
