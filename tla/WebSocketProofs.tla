--------------------------- MODULE WebSocketProofs ---------------------------
(***************************************************************************)
(* Proofs about WebSocket, for any clients, packets and size of the ring,  *)
(* and however the unlocked loads and stores of the two tasks fall: types, *)
(* that acquire() never returns nullptr, that only whole packets set the   *)
(* parameter; and, until the tasks meet, that requests are handled in      *)
(* order and that the clients know the value of the parameter.             *)
(***************************************************************************)
EXTENDS WebSocket, FiniteSets, SequenceTheorems, FiniteSetTheorems, TLAPS

\* What the main loop stores into _used was loaded from a ring that was not empty.
LoopOK == loop.pc = "store" => loop.reg # 0

\* What is in the ring, or on its way there, passed the check of on_event.
ShortOK ==
  /\ net.request.packet.len <= MaxLen
  /\ \A k \in 0..(Size - 1) : slots[k].packet.len <= MaxLen

IInv == TypeOK /\ NeverNull /\ LoopOK /\ ShortOK

\* The remainder lies below the divisor.
LEMMA ModRange ==
  ASSUME NEW a \in Nat, NEW b \in Nat \ {0}
  PROVE  a % b \in 0..(b - 1)
BY SMT

\* Below the divisor a number is its own remainder, and below its double the
\* remainder is the difference.
LEMMA ModOnce ==
  ASSUME NEW a \in Nat, NEW b \in Nat \ {0}, a < b + b
  PROVE  a % b = IF a < b THEN a ELSE a - b
BY SMT

\* A request that is made of what a client sends is a request.
LEMMA RequestFacts ==
  ASSUME IInv
  PROVE  /\ Blank \in Requests /\ Blank.packet.len <= MaxLen
         /\ \A c \in Clients, p \in Packets : [client |-> c, packet |-> p] \in Requests
BY WebSocketAssumption DEF Requests, Contents, Blank, NoPacket

\* The initial state satisfies the inductive invariant.
LEMMA InitIInv == Init => IInv
<1> SUFFICES ASSUME Init PROVE IInv OBVIOUS
<1> USE WebSocketAssumption DEF Init
<1>1. Blank \in Requests /\ Blank.packet.len <= MaxLen
  BY DEF Requests, Contents, Blank, NoPacket
<1>2. 0 \in 0..(Size - 1) /\ 0 \in 0..Size /\ 0 \in 0..MaxSent /\ 0 \in 0..MaxChanges
  OBVIOUS
<1>3. TypeOK
  <2>1. slots \in [0..(Size - 1) -> Requests] BY <1>1
  <2>2. net \in [pc : {"idle", "load", "store", "advance", "fill", "copy", "tell"}, reg : 0..(Size - 1),
                 slot : 0..(Size - 1), request : Requests] BY <1>1, <1>2
  <2>3. accepted \in Seq(Requests) /\ taken \in Seq(Requests) OBVIOUS
  <2>4. /\ clients \in [Clients -> {"new", "open", "closed"}]
        /\ view \in [Clients -> Values \cup {Unknown}]
    OBVIOUS
  <2>5. loop \in [pc : {"idle", "store", "answer", "tell"}, reg : 0..Size, slot : 0..(Size - 1)]
    BY <1>2
  <2> QED BY <1>2, <2>1, <2>2, <2>3, <2>4, <2>5 DEF TypeOK
<1>4. NeverNull /\ LoopOK BY DEF NeverNull, LoopOK
<1>5. ShortOK
  <2>1. net.request = Blank /\ \A k \in 0..(Size - 1) : slots[k] = Blank OBVIOUS
  <2> QED BY <1>1, <2>1 DEF ShortOK
<1> QED BY <1>3, <1>4, <1>5 DEF IInv

\* The history stays a pair of sequences of requests.
LEMMA MeetsTypes ==
  ASSUME TypeOK, NEW other, NEW in \in Seq(Requests), NEW out \in Seq(Requests),
         Meets(other, in, out)
  PROVE  accepted' \in Seq(Requests) /\ taken' \in Seq(Requests) /\ overlapped' \in BOOLEAN
<1>1. accepted \o in \in Seq(Requests) /\ taken \o out \in Seq(Requests) /\ <<>> \in Seq(Requests)
  BY DEF TypeOK
<1>2. overlapped' \in BOOLEAN BY DEF Meets, TypeOK
<1> QED BY <1>1, <1>2 DEF Meets

\* Every step preserves the inductive invariant.
LEMMA NextIInv == IInv /\ [Next]_vars => IInv'
<1> SUFFICES ASSUME IInv, [Next]_vars PROVE IInv' OBVIOUS
<1> USE WebSocketAssumption DEF IInv
<1>0. TypeOK OBVIOUS
<1>b. Blank \in Requests /\ Blank.packet.len <= MaxLen BY RequestFacts
<1>e. <<>> \in Seq(Requests) OBVIOUS
<1>1. ASSUME NEW c \in Clients, Connect(c) PROVE IInv'
  <2>1. clients' \in [Clients -> {"new", "open", "closed"}] /\ clientCount' \in Nat
    BY <1>1 DEF Connect, TypeOK
  <2>2. UNCHANGED <<ring, net, loop, value, view, bounds, accepted, taken, overlapped>>
    BY <1>1 DEF Connect
  <2> QED BY <2>1, <2>2 DEF TypeOK, NeverNull, LoopOK, ShortOK, ring, bounds
<1>2. ASSUME NEW c \in Clients, Disconnect(c) PROVE IInv'
  <2>1. clients' \in [Clients -> {"new", "open", "closed"}] /\ clientCount' \in Nat
    BY <1>2 DEF Disconnect, TypeOK
  <2>2. UNCHANGED <<ring, net, loop, value, view, bounds, accepted, taken, overlapped>>
    BY <1>2 DEF Disconnect
  <2> QED BY <2>1, <2>2 DEF TypeOK, NeverNull, LoopOK, ShortOK, ring, bounds
<1>3. ASSUME NEW c \in Clients, NEW p \in Packets, Reject(c, p) PROVE IInv'
  BY <1>3 DEF Reject, CanSend, TypeOK, NeverNull, LoopOK, ShortOK, ring, peers
<1>4. ASSUME NEW c \in Clients, NEW p \in Packets, Refuse(c, p) PROVE IInv'
  <2>1. Meets(loop, <<>>, <<>>) BY <1>4 DEF Refuse
  <2>2. accepted' \in Seq(Requests) /\ taken' \in Seq(Requests) /\ overlapped' \in BOOLEAN
    BY <1>0, <1>e, <2>1, MeetsTypes
  <2>a. sent \in 0..MaxSent /\ sent < MaxSent /\ sent' = sent + 1
    BY <1>4 DEF Refuse, CanSend, TypeOK
  <2>3. sent' \in 0..MaxSent BY <2>a
  <2> QED BY <1>4, <2>2, <2>3 DEF Refuse, CanSend, TypeOK, NeverNull, LoopOK, ShortOK, ring, peers
<1>5. ASSUME NEW c \in Clients, NEW p \in Packets, Receive(c, p) PROVE IInv'
  <2> DEFINE q == [client |-> c, packet |-> p]
  <2>a. sent \in 0..MaxSent /\ sent < MaxSent /\ sent' = sent + 1
    BY <1>5 DEF Receive, CanSend, TypeOK
  <2>b. p.len \in Nat /\ ~(p.len > MaxLen) BY <1>5 DEF Receive, TooLong
  <2>1. sent' \in 0..MaxSent /\ p.len <= MaxLen BY <2>a, <2>b
  <2>2. q \in Requests /\ q.packet.len <= MaxLen BY <2>1, RequestFacts
  <2>3. net' = [net EXCEPT !.pc = "load", !.request = q] BY <1>5 DEF Receive
  <2>4. net'.request = q /\ net'.pc = "load"
    BY <2>3 DEF TypeOK
  <2>5. Meets(loop, <<q>>, <<>>) BY <1>5, <2>4 DEF Receive
  <2>6. <<q>> \in Seq(Requests) BY <2>2
  <2> HIDE DEF q
  <2>7. accepted' \in Seq(Requests) /\ taken' \in Seq(Requests) /\ overlapped' \in BOOLEAN
    BY <1>0, <1>e, <2>5, <2>6, MeetsTypes
  <2>8. TypeOK'
    BY <1>5, <2>1, <2>2, <2>3, <2>7 DEF Receive, TypeOK, ring, peers
  <2>9. NeverNull' /\ LoopOK' /\ ShortOK'
    BY <1>5, <2>2, <2>4 DEF Receive, NeverNull, LoopOK, ShortOK, ring
  <2> QED BY <2>8, <2>9
<1>6. CASE NetStep
  <2>1. CASE AcquireLoad
    <3>1. Meets(loop, <<>>, <<>>) BY <2>1 DEF AcquireLoad
    <3>2. accepted' \in Seq(Requests) /\ taken' \in Seq(Requests) /\ overlapped' \in BOOLEAN
      BY <1>0, <1>e, <3>1, MeetsTypes
    <3>a. used \in 0..Size /\ used < Size BY <2>1 DEF AcquireLoad, NeverNull, TypeOK
    <3>3. used \in 0..(Size - 1) BY <3>a
    <3> QED BY <2>1, <3>2, <3>3
          DEF AcquireLoad, TypeOK, NeverNull, LoopOK, ShortOK, ring, peers, bounds
  <2>2. CASE AcquireStore
    <3>1. Meets(loop, <<>>, <<>>) BY <2>2 DEF AcquireStore
    <3>2. accepted' \in Seq(Requests) /\ taken' \in Seq(Requests) /\ overlapped' \in BOOLEAN
      BY <1>0, <1>e, <3>1, MeetsTypes
    <3>3. net.reg + 1 \in 0..Size BY DEF TypeOK
    <3> QED BY <2>2, <3>2, <3>3
          DEF AcquireStore, TypeOK, NeverNull, LoopOK, ShortOK, peers, bounds
  <2>3. CASE AcquireAdvance
    <3>1. Meets(loop, <<>>, <<>>) BY <2>3 DEF AcquireAdvance
    <3>2. accepted' \in Seq(Requests) /\ taken' \in Seq(Requests) /\ overlapped' \in BOOLEAN
      BY <1>0, <1>e, <3>1, MeetsTypes
    <3>a. next \in 0..(Size - 1) BY DEF TypeOK
    <3>b. next' = IF next + 1 >= Size THEN 0 ELSE next + 1 BY <2>3 DEF AcquireAdvance
    <3>3. next' \in 0..(Size - 1) BY <3>a, <3>b
    <3> QED BY <2>3, <3>2, <3>3
          DEF AcquireAdvance, TypeOK, NeverNull, LoopOK, ShortOK, peers, bounds
  <2>4. CASE FillHead
    <3>1. Meets(loop, <<>>, <<>>) BY <2>4 DEF FillHead
    <3>2. accepted' \in Seq(Requests) /\ taken' \in Seq(Requests) /\ overlapped' \in BOOLEAN
      BY <1>0, <1>e, <3>1, MeetsTypes
    <3> DEFINE old == slots[net.slot]
               torn == [old EXCEPT !.client = net.request.client,
                                   !.packet.len = net.request.packet.len]
    <3>3. net.slot \in 0..(Size - 1) /\ net.request \in Requests /\ old \in Requests
      BY DEF TypeOK
    <3>4. torn \in Requests /\ torn.packet.len <= MaxLen
      BY <3>3 DEF Requests, Contents, ShortOK
    <3>5. slots' = [slots EXCEPT ![net.slot] = torn]
      BY <2>4 DEF FillHead
    <3> HIDE DEF torn
    <3>a. slots' \in [0..(Size - 1) -> Requests]
      BY <3>3, <3>4, <3>5 DEF TypeOK
    <3>6. TypeOK'
      BY <2>4, <3>2, <3>a DEF FillHead, TypeOK, peers, bounds
    <3>7. NeverNull' /\ LoopOK'
      BY <2>4 DEF FillHead, TypeOK, NeverNull, LoopOK
    <3>8. ShortOK'
      BY <2>4, <3>3, <3>4, <3>5 DEF FillHead, TypeOK, ShortOK
    <3> QED BY <3>6, <3>7, <3>8
  <2>6. CASE FillData
    <3>1. Meets(loop, <<>>, <<>>) BY <2>6 DEF FillData
    <3>2. accepted' \in Seq(Requests) /\ taken' \in Seq(Requests) /\ overlapped' \in BOOLEAN
      BY <1>0, <1>e, <3>1, MeetsTypes
    <3>3. 0 \in 0..(Size - 1) OBVIOUS
    <3>4. slots' \in [0..(Size - 1) -> Requests] BY <2>6 DEF FillData, TypeOK
    <3>5. TypeOK'
      BY <1>b, <2>6, <3>2, <3>3, <3>4 DEF FillData, TypeOK, peers, bounds
    <3>6. NeverNull' /\ LoopOK'
      BY <2>6 DEF FillData, TypeOK, NeverNull, LoopOK
    <3>7. ShortOK'
      BY <1>b, <2>6 DEF FillData, TypeOK, ShortOK
    <3> QED BY <3>5, <3>6, <3>7
  <2>5. CASE ProcessNotification
    <3>1. Meets(loop, <<>>, <<>>) BY <2>5 DEF ProcessNotification
    <3>2. accepted' \in Seq(Requests) /\ taken' \in Seq(Requests) /\ overlapped' \in BOOLEAN
      BY <1>0, <1>e, <3>1, MeetsTypes
    <3> QED BY <2>5, <3>2
          DEF ProcessNotification, TypeOK, NeverNull, LoopOK, ShortOK, ring, peers, bounds
  <2> QED BY <1>6, <2>1, <2>2, <2>3, <2>4, <2>5, <2>6 DEF NetStep
<1>7. CASE LoopStep
  <2>0. /\ loop \in [pc : {"idle", "store", "answer", "tell"}, reg : 0..Size, slot : 0..(Size - 1)]
        /\ slots[loop.slot] \in Requests
        /\ 0 \in 0..(Size - 1)
    BY DEF TypeOK
  <2>p. /\ <<slots[loop.slot]>> \in Seq(Requests)
        /\ slots[loop.slot].packet.value \in Values
    BY <2>0 DEF Requests, Contents
  <2>1. CASE PopLoad
    <3>1. Meets(net, <<>>, <<>>) BY <2>1 DEF PopLoad
    <3>2. accepted' \in Seq(Requests) /\ taken' \in Seq(Requests) /\ overlapped' \in BOOLEAN
      BY <1>0, <1>e, <3>1, MeetsTypes
    <3>a. next \in 0..(Size - 1) /\ used \in 0..Size BY DEF TypeOK
    <3>3. Size + next - used \in Nat BY <3>a
    <3>4. (Size + next - used) % Size \in 0..(Size - 1) BY <3>3, ModRange
    <3> QED BY <2>1, <3>2, <3>4
          DEF PopLoad, TypeOK, NeverNull, LoopOK, ShortOK, ring, peers, bounds
  <2>2. CASE PopStore
    <3>1. Meets(net, <<>>, <<>>) BY <2>2 DEF PopStore
    <3>2. accepted' \in Seq(Requests) /\ taken' \in Seq(Requests) /\ overlapped' \in BOOLEAN
      BY <1>0, <1>e, <3>1, MeetsTypes
    <3>a. loop.reg \in 0..Size /\ loop.reg # 0 /\ used' = loop.reg - 1
      BY <2>0, <2>2 DEF PopStore, LoopOK
    <3>3. used' \in 0..(Size - 1) BY <3>a
    <3>4. loop' \in [pc : {"idle", "store", "answer", "tell"}, reg : 0..Size, slot : 0..(Size - 1)]
          /\ loop'.pc = "answer"
      BY <2>0, <2>2 DEF PopStore
    <3>b. used' \in 0..Size BY <3>3
    <3>5. TypeOK' BY <2>2, <3>2, <3>b, <3>4 DEF PopStore, TypeOK, peers, bounds
    <3>c. used' < Size BY <3>3
    <3>6. NeverNull' BY <3>c DEF NeverNull
    <3> QED BY <2>2, <3>4, <3>5, <3>6 DEF PopStore, LoopOK, ShortOK
  <2>3. CASE Apply
    <3>1. Meets(net, <<>>, <<>>) BY <2>3 DEF Apply
    <3>2. accepted' \in Seq(Requests) /\ taken' \in Seq(Requests) /\ overlapped' \in BOOLEAN
      BY <1>0, <1>e, <3>1, MeetsTypes
    <3>3. value' \in Values BY <2>3, <2>p DEF Apply
    <3> QED BY <2>3, <3>2, <3>3
          DEF Apply, TypeOK, NeverNull, LoopOK, ShortOK, ring, peers, bounds
  <2>4. CASE Tell
    <3>1. Meets(net, <<>>, <<slots[loop.slot]>>) BY <2>4 DEF Tell
    <3>2. accepted' \in Seq(Requests) /\ taken' \in Seq(Requests) /\ overlapped' \in BOOLEAN
      BY <1>0, <1>e, <2>p, <3>1, MeetsTypes
    <3>3. view' \in [Clients -> Values \cup {Unknown}] BY <2>4, <2>p DEF Tell, TypeOK
    <3> QED BY <2>0, <2>4, <3>2, <3>3
          DEF Tell, TypeOK, NeverNull, LoopOK, ShortOK, ring, peers, bounds
  <2>5. CASE Answer
    <3>1. Meets(net, <<>>, <<slots[loop.slot]>>) BY <2>5 DEF Answer
    <3>2. accepted' \in Seq(Requests) /\ taken' \in Seq(Requests) /\ overlapped' \in BOOLEAN
      BY <1>0, <1>e, <2>p, <3>1, MeetsTypes
    <3>3. view' \in [Clients -> Values \cup {Unknown}] BY <2>5 DEF Answer, TypeOK
    <3> QED BY <2>0, <2>5, <3>2, <3>3
          DEF Answer, TypeOK, NeverNull, LoopOK, ShortOK, ring, peers, bounds
  <2> QED BY <1>7, <2>1, <2>2, <2>3, <2>4, <2>5 DEF LoopStep
<1>8. ASSUME NEW v \in Values, Change(v) PROVE IInv'
  <2>1. Meets(loop, <<>>, <<>>) BY <1>8 DEF Change
  <2>2. accepted' \in Seq(Requests) /\ taken' \in Seq(Requests) /\ overlapped' \in BOOLEAN
    BY <1>0, <1>e, <2>1, MeetsTypes
  <2>3. changes \in 0..MaxChanges /\ changes < MaxChanges /\ changes' = changes + 1
    BY <1>8 DEF Change, TypeOK
  <2>4. changes' \in 0..MaxChanges BY <2>3
  <2> QED BY <1>8, <2>2, <2>4 DEF Change, TypeOK, NeverNull, LoopOK, ShortOK, ring, peers
<1>9. CASE UNCHANGED vars
  BY <1>9 DEF vars, ring, peers, bounds, TypeOK, NeverNull, LoopOK, ShortOK
<1> QED BY <1>1, <1>2, <1>3, <1>4, <1>5, <1>6, <1>7, <1>8, <1>9 DEF Next

\* The inductive invariant holds in every reachable state.
LEMMA AlwaysIInv == SafeSpec => []IInv
BY InitIInv, NextIInv, PTL DEF SafeSpec

\* _used stays within 0..Size and both indices within the buffer, whatever
\* updates the two tasks lose.
THEOREM TypeCorrect == SafeSpec => []TypeOK
BY AlwaysIInv, PTL DEF IInv

\* on_event never writes through a nullptr that acquire() returned: between its
\* can_acquire() and acquire() the ring does not fill.
THEOREM AcquireSucceeds == SafeSpec => []NeverNull
BY AlwaysIInv, PTL DEF IInv

\* What parses is as long as its header says, if it is no longer than MaxLen.
LEMMA ParsesWhole ==
  ASSUME NEW r \in Requests, r.packet.len <= MaxLen, Parses(r.packet)
  PROVE  r.packet.len = Header + r.packet.size
<1> USE WebSocketAssumption
<1>1. r.packet.len \in Nat /\ r.packet.size \in Nat BY DEF Requests, Contents
<1>2. r.packet.len < Byte + Byte BY <1>1
<1>3. r.packet.len % Byte = IF r.packet.len < Byte THEN r.packet.len ELSE r.packet.len - Byte
  BY <1>1, <1>2, ModOnce
<1> QED BY <1>1, <1>3 DEF Parses

\* Only a packet that is as long as its header says sets the parameter, though
\* parse_packet takes the length as a uint8_t and packets may be longer than that.
THEOREM WholePacketsOnly == SafeSpec => OnlyWholeSets
<1>1. IInv /\ [Next]_vars =>
        [Apply => LET p == slots[loop.slot].packet IN p.len = Header + p.size]_vars
  <2> SUFFICES ASSUME IInv, Apply
               PROVE  slots[loop.slot].packet.len = Header + slots[loop.slot].packet.size
    OBVIOUS
  <2>1. loop.slot \in 0..(Size - 1) /\ slots[loop.slot] \in Requests BY DEF IInv, TypeOK
  <2>2. slots[loop.slot].packet.len <= MaxLen BY <2>1 DEF IInv, ShortOK
  <2>3. Parses(slots[loop.slot].packet) BY DEF Apply
  <2> QED BY <2>1, <2>2, <2>3, ParsesWhole
<1> QED BY <1>1, AlwaysIInv, PTL DEF SafeSpec, OnlyWholeSets

(***************************************************************************)
(* The ring is in order until the tasks meet.                              *)
(***************************************************************************)
\* The slot that lies j places before w in the ring.
Back(w, j) == IF j <= w THEN w - j ELSE w + Size - j

\* A request is on its way into the ring, and its slot is counted already.
Putting == net.pc \in {"load", "store", "advance", "fill", "copy"}
Counted == net.pc \in {"advance", "fill", "copy"}

\* The requests in the ring that are whole: so many, up to that slot.
Filled == IF Counted THEN used - 1 ELSE used
Edge == IF Counted THEN net.slot ELSE next

\* The requests that the main loop has taken out.
Done == IF loop.pc \in {"answer", "tell"} THEN Len(taken) + 1 ELSE Len(taken)

Apart == net.pc = "idle" \/ loop.pc = "idle"

HistoryOK ==
  /\ Len(accepted) = Done + Filled + (IF Putting THEN 1 ELSE 0)
  /\ \A i \in 1..Len(taken) : taken[i] = accepted[i]

NetOK ==
  /\ net.pc = "store" => net.reg = used /\ net.slot = next
  /\ Counted => used # 0
  /\ net.pc = "advance" => net.slot = next
  /\ net.pc \in {"fill", "copy"} => next = IF net.slot + 1 >= Size THEN 0 ELSE net.slot + 1
  /\ Putting => Filled < Size /\ accepted[Len(accepted)] = net.request

PopOK ==
  /\ loop.pc = "store" => loop.reg = used /\ used # 0 /\ loop.slot = Back(next, used)
  /\ loop.pc \in {"answer", "tell"} => slots[loop.slot] = accepted[Done]

\* The whole requests are the last ones accepted, the newest next to the edge.
RingOK == \A j \in 1..Filled : slots[Back(Edge, j)] = accepted[Done + Filled + 1 - j]

Tidy == Apart /\ HistoryOK /\ NetOK /\ PopOK /\ RingOK

\* Adding what a step puts into a history.
LEMMA Extended ==
  ASSUME NEW S, NEW s \in Seq(S), NEW x \in S
  PROVE  /\ s \o <<>> = s
         /\ Len(s) \in Nat
         /\ s \o <<x>> \in Seq(S)
         /\ Len(s \o <<x>>) = Len(s) + 1
         /\ (s \o <<x>>)[Len(s) + 1] = x
         /\ \A i \in 1..Len(s) : (s \o <<x>>)[i] = s[i]
<1>1. <<x>> \in Seq(S) /\ Len(<<x>>) = 1 /\ <<x>>[1] = x OBVIOUS
<1>2. s \o <<>> = s /\ Len(s) \in Nat BY ConcatEmptySeq, LenProperties
<1>3. /\ s \o <<x>> \in Seq(S)
      /\ Len(s \o <<x>>) = Len(s) + Len(<<x>>)
      /\ \A i \in 1..(Len(s) + Len(<<x>>)) :
           (s \o <<x>>)[i] = IF i <= Len(s) THEN s[i] ELSE <<x>>[i - Len(s)]
  BY <1>1, ConcatProperties
<1>4. Len(s) + 1 \in 1..(Len(s) + Len(<<x>>)) /\ \A i \in 1..Len(s) : i \in 1..(Len(s) + Len(<<x>>))
  BY <1>1, <1>2
<1> QED BY <1>1, <1>2, <1>3, <1>4

\* A slot stays in the ring, and going back is the inverse of going on.
LEMMA BackFacts ==
  ASSUME NEW w \in 0..(Size - 1), NEW j \in 1..Size
  PROVE  /\ Back(w, j) \in 0..(Size - 1)
         /\ (Size + w - j) % Size = Back(w, j)
         /\ j < Size => Back(w, j) # w
         /\ LET on == IF w + 1 >= Size THEN 0 ELSE w + 1
            IN Back(on, 1) = w /\ (j # 1 => Back(on, j) = Back(w, j - 1))
<1> USE WebSocketAssumption
<1> DEFINE a == Size + w - j
<1>1. a \in Nat /\ a < Size + Size OBVIOUS
<1>2. a % Size = IF a < Size THEN a ELSE a - Size
  <2> HIDE DEF a
  <2> QED BY <1>1, ModOnce
<1> QED BY <1>1, <1>2 DEF Back

\* A step that does not meet the other task adds to the histories.
LEMMA MeetsNot ==
  ASSUME NEW other, NEW in, NEW out, Meets(other, in, out), ~overlapped'
  PROVE  /\ ~overlapped /\ other.pc = "idle"
         /\ accepted' = accepted \o in /\ taken' = taken \o out
BY DEF Meets

\* A step that changes neither the ring nor what the tasks are at in it.
LEMMA StutterTidy ==
  ASSUME Tidy, UNCHANGED <<used, next, slots, net, loop, accepted, taken>>
  PROVE  Tidy'
BY DEF Tidy, Apart, HistoryOK, NetOK, PopOK, RingOK, Done, Filled, Edge, Counted, Putting

\* The ring keeps the order: no step of either task disturbs it, as long as they do
\* not meet.
LEMMA NextTidy ==
  ASSUME IInv, overlapped \/ Tidy, [Next]_vars, ~overlapped'
  PROVE  Tidy'
<1> USE WebSocketAssumption
<1>0. /\ used \in 0..Size /\ next \in 0..(Size - 1) /\ net.slot \in 0..(Size - 1)
      /\ slots \in [0..(Size - 1) -> Requests]
      /\ net \in [pc : {"idle", "load", "store", "advance", "fill", "copy", "tell"},
                  reg : 0..(Size - 1), slot : 0..(Size - 1), request : Requests]
      /\ loop \in [pc : {"idle", "store", "answer", "tell"}, reg : 0..Size, slot : 0..(Size - 1)]
      /\ accepted \in Seq(Requests) /\ taken \in Seq(Requests)
  BY DEF IInv, TypeOK
<1>n. accepted \o <<>> = accepted /\ taken \o <<>> = taken /\ Len(accepted) \in Nat /\ Len(taken) \in Nat
  BY <1>0, ConcatEmptySeq, LenProperties
<1>1. ASSUME NEW c \in Clients, Connect(c) \/ Disconnect(c) PROVE Tidy'
  <2>1. UNCHANGED <<used, next, slots, net, loop, accepted, taken, overlapped>>
    BY <1>1 DEF Connect, Disconnect, ring
  <2> QED BY <2>1, StutterTidy
<1>2. ASSUME NEW c \in Clients, NEW p \in Packets, Reject(c, p) PROVE Tidy'
  <2>1. UNCHANGED <<used, next, slots, net, loop, accepted, taken, overlapped>>
    BY <1>2 DEF Reject, ring
  <2> QED BY <2>1, StutterTidy
<1>3. ASSUME NEW c \in Clients, NEW p \in Packets, Refuse(c, p) PROVE Tidy'
  <2>1. Meets(loop, <<>>, <<>>) BY <1>3 DEF Refuse
  <2>2. ~overlapped /\ accepted' = accepted /\ taken' = taken BY <1>n, <2>1, MeetsNot
  <2>3. UNCHANGED <<used, next, slots, net, loop, accepted, taken>>
    BY <1>3, <2>2 DEF Refuse, ring
  <2> QED BY <2>2, <2>3, StutterTidy
<1>4. ASSUME NEW c \in Clients, NEW p \in Packets, Receive(c, p) PROVE Tidy'
  <2> DEFINE q == [client |-> c, packet |-> p]
  <2>1. q \in Requests BY RequestFacts
  <2>2. /\ net.pc = "idle" /\ used < Size
        /\ net' = [net EXCEPT !.pc = "load", !.request = q]
        /\ UNCHANGED <<used, next, slots, loop>>
    BY <1>4 DEF Receive, CanSend, ring
  <2>3. net'.request = q /\ net'.pc = "load" BY <1>0, <2>2
  <2>4. Meets(loop, <<q>>, <<>>) BY <1>4, <2>3 DEF Receive
  <2> HIDE DEF q
  <2>5. /\ ~overlapped /\ loop.pc = "idle"
        /\ accepted' = accepted \o <<q>> /\ taken' = taken
    BY <1>n, <2>4, MeetsNot
  <2>6. /\ Len(accepted') = Len(accepted) + 1 /\ accepted'[Len(accepted) + 1] = q
        /\ \A i \in 1..Len(accepted) : accepted'[i] = accepted[i]
    BY <1>0, <2>1, <2>5, Extended
  <2>7. /\ Tidy /\ Done = Len(taken) /\ Filled = used /\ Edge = next /\ ~Putting
        /\ Done' = Len(taken) /\ Filled' = used /\ Edge' = next /\ Putting' /\ ~Counted'
    BY <2>2, <2>3, <2>5 DEF Done, Filled, Edge, Putting, Counted
  <2>8. Len(accepted) = Len(taken) + used BY <1>0, <1>n, <2>7 DEF Tidy, HistoryOK
  <2>9. HistoryOK'
    <3>1. \A i \in 1..Len(taken) : i \in 1..Len(accepted) BY <1>0, <1>n, <2>8
    <3>2. \A i \in 1..Len(taken) : taken'[i] = accepted'[i]
      BY <2>5, <2>6, <2>7, <3>1 DEF Tidy, HistoryOK
    <3> QED BY <1>0, <1>n, <2>5, <2>6, <2>7, <2>8, <3>2 DEF HistoryOK
  <2>10. NetOK' BY <1>0, <2>2, <2>3, <2>6, <2>7 DEF NetOK
  <2>11. PopOK' BY <2>2, <2>5 DEF PopOK
  <2>12. RingOK'
    <3> SUFFICES ASSUME NEW j \in 1..used
                 PROVE  slots[Back(next, j)] = accepted'[Len(taken) + used + 1 - j]
      BY <2>2, <2>7 DEF RingOK, Back
    <3>1. Len(taken) + used + 1 - j \in 1..Len(accepted) BY <1>0, <1>n, <2>8
    <3> QED BY <2>6, <2>7, <3>1 DEF Tidy, RingOK
  <2> QED BY <2>2, <2>5, <2>9, <2>10, <2>11, <2>12 DEF Tidy, Apart
<1>5. ASSUME NetStep \/ \E v \in Values : Change(v) PROVE Tidy'
  <2>1. Meets(loop, <<>>, <<>>) /\ loop' = loop
    BY <1>5 DEF NetStep, AcquireLoad, AcquireStore, AcquireAdvance, FillHead, FillData,
                ProcessNotification, Change
  <2>2. ~overlapped /\ loop.pc = "idle" /\ accepted' = accepted /\ taken' = taken
    BY <1>n, <2>1, MeetsNot
  <2>3. /\ Tidy /\ Done = Len(taken) /\ Done' = Len(taken) /\ Apart' /\ PopOK'
        /\ \A i \in 1..Len(taken) : taken[i] = accepted[i]
    BY <2>1, <2>2 DEF Done, Apart, PopOK, Tidy, HistoryOK
  <2>4. CASE ProcessNotification \/ \E v \in Values : Change(v)
    <3>1. /\ UNCHANGED <<used, next, slots>> /\ {net.pc, net'.pc} \subseteq {"idle", "tell"}
      BY <1>0, <2>4 DEF ProcessNotification, Change, ring
    <3>2. /\ ~Putting /\ ~Putting' /\ Filled' = Filled /\ Edge' = Edge /\ Filled = used
          /\ ~Counted /\ ~Counted' /\ net'.pc \notin {"store", "advance", "fill", "copy"}
      BY <3>1 DEF Putting, Filled, Edge, Counted
    <3>3. HistoryOK' /\ RingOK'
      BY <2>2, <2>3, <3>1, <3>2 DEF Tidy, HistoryOK, RingOK, Back
    <3>4. NetOK' BY <3>2 DEF NetOK
    <3> QED BY <2>3, <3>3, <3>4 DEF Tidy
  <2>5. CASE AcquireLoad
    <3>1. /\ UNCHANGED <<used, next, slots>> /\ net.pc = "load"
          /\ net' = [net EXCEPT !.pc = "store", !.reg = used, !.slot = next]
      BY <2>5 DEF AcquireLoad, ring
    <3>2. net'.pc = "store" /\ net'.reg = used /\ net'.slot = next /\ net'.request = net.request
      BY <1>0, <3>1
    <3>3. /\ Putting /\ Putting' /\ Filled' = Filled /\ Edge' = Edge /\ Filled = used
          /\ ~Counted /\ ~Counted'
      BY <3>1, <3>2 DEF Putting, Filled, Edge, Counted
    <3>4. HistoryOK' /\ RingOK'
      BY <2>2, <2>3, <3>1, <3>3 DEF Tidy, HistoryOK, RingOK, Back
    <3>5. NetOK' BY <2>2, <2>3, <3>1, <3>2, <3>3 DEF Tidy, NetOK
    <3> QED BY <2>3, <3>4, <3>5 DEF Tidy
  <2>6. CASE AcquireStore
    <3>1. /\ UNCHANGED <<next, slots>> /\ net.pc = "store"
          /\ used' = net.reg + 1 /\ net' = [net EXCEPT !.pc = "advance"]
      BY <2>6 DEF AcquireStore
    <3>2. net'.pc = "advance" /\ net'.slot = net.slot /\ net'.request = net.request
      BY <1>0, <3>1
    <3>3. net.reg = used /\ net.slot = next /\ used < Size /\ used' = used + 1
      BY <2>3, <3>1 DEF Tidy, NetOK, Putting, Filled, Counted
    <3>4. /\ Putting /\ Putting' /\ Filled = used /\ Filled' = used /\ Edge = next /\ Edge' = next
      BY <1>0, <3>1, <3>2, <3>3 DEF Putting, Filled, Edge, Counted
    <3>5. HistoryOK' /\ RingOK'
      BY <2>2, <2>3, <3>1, <3>4 DEF Tidy, HistoryOK, RingOK, Back
    <3>6. NetOK'
      BY <1>0, <2>2, <2>3, <3>1, <3>2, <3>3, <3>4 DEF Tidy, NetOK
    <3> QED BY <2>3, <3>5, <3>6 DEF Tidy
  <2>7. CASE AcquireAdvance
    <3>1. /\ UNCHANGED <<used, slots>> /\ net.pc = "advance"
          /\ next' = (IF next + 1 >= Size THEN 0 ELSE next + 1)
          /\ net' = [net EXCEPT !.pc = "fill"]
      BY <2>7 DEF AcquireAdvance
    <3>2. net'.pc = "fill" /\ net'.slot = net.slot /\ net'.request = net.request
      BY <1>0, <3>1
    <3>3. /\ Putting /\ Putting' /\ Counted /\ Counted'
          /\ Filled = used - 1 /\ Filled' = used - 1 /\ Edge' = Edge
      BY <3>1, <3>2 DEF Putting, Filled, Edge, Counted
    <3>4. HistoryOK' /\ RingOK'
      BY <2>2, <2>3, <3>1, <3>3 DEF Tidy, HistoryOK, RingOK, Back
    <3>5. NetOK' BY <2>2, <2>3, <3>1, <3>2, <3>3 DEF Tidy, NetOK
    <3> QED BY <2>3, <3>4, <3>5 DEF Tidy
  <2>8. CASE FillHead
    <3>1. /\ UNCHANGED <<used, next>> /\ net.pc = "fill"
          /\ \A k \in 0..(Size - 1) : k # net.slot => slots'[k] = slots[k]
          /\ net' = [net EXCEPT !.pc = "copy"]
      BY <1>0, <2>8 DEF FillHead
    <3>2. net'.pc = "copy" /\ net'.slot = net.slot /\ net'.request = net.request
      BY <1>0, <3>1
    <3>3. /\ Putting /\ Putting' /\ Counted /\ Counted' /\ Edge = net.slot /\ Edge' = net.slot
          /\ Filled = used - 1 /\ Filled' = used - 1
      BY <3>1, <3>2 DEF Putting, Filled, Edge, Counted
    <3>4. HistoryOK'
      BY <2>2, <2>3, <3>1, <3>3 DEF Tidy, HistoryOK
    <3>5. NetOK' BY <2>2, <2>3, <3>1, <3>2, <3>3 DEF Tidy, NetOK
    <3>6. RingOK'
      <4> SUFFICES ASSUME NEW j \in 1..(used - 1)
                   PROVE  slots'[Back(net.slot, j)] = accepted[Len(taken) + (used - 1) + 1 - j]
        BY <2>2, <2>3, <3>3 DEF RingOK, Back
      <4>1. j \in 1..Size /\ j < Size BY <1>0, <2>3, <3>3 DEF Tidy, NetOK
      <4>2. Back(net.slot, j) \in 0..(Size - 1) /\ Back(net.slot, j) # net.slot
        BY <1>0, <4>1, BackFacts
      <4>3. slots[Back(net.slot, j)] = accepted[Len(taken) + (used - 1) + 1 - j]
        BY <2>3, <3>3 DEF Tidy, RingOK
      <4> QED BY <3>1, <4>2, <4>3
    <3> QED BY <2>3, <3>4, <3>5, <3>6 DEF Tidy
  <2>9. CASE FillData
    <3>1. /\ UNCHANGED <<used, next>> /\ net.pc = "copy"
          /\ slots'[net.slot] = net.request
          /\ \A k \in 0..(Size - 1) : k # net.slot => slots'[k] = slots[k]
          /\ net'.pc = "idle"
      BY <1>0, <2>9 DEF FillData
    <3>2. /\ Putting /\ Counted /\ ~Putting' /\ ~Counted' /\ Edge = net.slot /\ Edge' = next
          /\ Filled = used - 1 /\ Filled' = used
      BY <3>1 DEF Putting, Filled, Edge, Counted
    <3>3. /\ Len(accepted) = Len(taken) + used /\ used \in 1..Size
          /\ accepted[Len(accepted)] = net.request
          /\ next = IF net.slot + 1 >= Size THEN 0 ELSE net.slot + 1
      BY <1>0, <1>n, <2>3, <3>1, <3>2 DEF Tidy, HistoryOK, NetOK
    <3>4. HistoryOK' BY <1>0, <1>n, <2>2, <2>3, <3>2, <3>3, <3>1 DEF HistoryOK
    <3>5. NetOK' BY <3>1, <3>2 DEF NetOK
    <3>6. RingOK'
      <4> SUFFICES ASSUME NEW j \in 1..used
                   PROVE  slots'[Back(next, j)] = accepted[Len(taken) + used + 1 - j]
        BY <2>2, <2>3, <3>1, <3>2 DEF RingOK, Back
      <4>1. j \in 1..Size BY <1>0
      <4>2. Back(next, 1) = net.slot /\ (j # 1 => Back(next, j) = Back(net.slot, j - 1))
        <5>1. LET on == IF net.slot + 1 >= Size THEN 0 ELSE net.slot + 1
              IN Back(on, 1) = net.slot /\ (j # 1 => Back(on, j) = Back(net.slot, j - 1))
          BY <1>0, <4>1, BackFacts
        <5> QED BY ONLY <3>3, <5>1, Zenon
      <4>3. CASE j = 1
        <5>1. Len(taken) + used + 1 - j = Len(accepted) BY <1>0, <1>n, <3>3, <4>3
        <5> QED BY <3>1, <3>3, <4>2, <4>3, <5>1
      <4>4. CASE j # 1
        <5>1. j - 1 \in 1..Size /\ j - 1 < Size /\ j - 1 \in 1..(used - 1)
          <6>1. used \in 0..Size /\ Size \in Nat BY <1>0
          <6> QED BY <4>4, <6>1
        <5>2. Back(net.slot, j - 1) \in 0..(Size - 1) /\ Back(net.slot, j - 1) # net.slot
          BY <1>0, <5>1, BackFacts
        <5>3. slots[Back(net.slot, j - 1)] = accepted[Len(taken) + (used - 1) + 1 - (j - 1)]
          BY <2>3, <3>2, <5>1 DEF Tidy, RingOK
        <5>4. Len(taken) + (used - 1) + 1 - (j - 1) = Len(taken) + used + 1 - j
          BY <1>0, <1>n
        <5> QED BY <3>1, <4>2, <4>4, <5>2, <5>3, <5>4
      <4> QED BY <4>3, <4>4
    <3> QED BY <2>3, <3>4, <3>5, <3>6 DEF Tidy
  <2> QED BY <1>5, <2>4, <2>5, <2>6, <2>7, <2>8, <2>9 DEF NetStep
<1>6. CASE LoopStep
  <2>1. ~overlapped /\ net.pc = "idle" /\ accepted' = accepted /\ net' = net
    BY <1>n, <1>6, MeetsNot DEF LoopStep, PopLoad, PopStore, Apply, Tell, Answer
  <2>2. /\ Tidy /\ ~Putting /\ ~Putting' /\ ~Counted /\ ~Counted' /\ Apart' /\ NetOK'
        /\ Filled = used /\ Filled' = used' /\ Edge = next /\ Edge' = next'
    BY <2>1 DEF Putting, Counted, Filled, Edge, Apart, NetOK
  <2>3. CASE PopLoad
    <3>1. /\ UNCHANGED <<used, next, slots>> /\ loop.pc = "idle" /\ used # 0
          /\ loop' = [pc |-> "store", reg |-> used, slot |-> (Size + next - used) % Size]
          /\ taken' = taken
      BY <1>n, <2>3, MeetsNot DEF PopLoad, ring
    <3>2. Done = Len(taken) /\ Done' = Len(taken) BY <3>1 DEF Done
    <3>3. HistoryOK' /\ RingOK'
      BY <2>1, <2>2, <3>1, <3>2 DEF Tidy, HistoryOK, RingOK, Back
    <3>4. used \in 1..Size BY <1>0, <3>1
    <3>5. (Size + next - used) % Size = Back(next, used) BY <1>0, <3>4, BackFacts
    <3>6. PopOK' BY <3>1, <3>5 DEF PopOK, Back
    <3> QED BY <2>2, <3>3, <3>6 DEF Tidy
  <2>4. CASE PopStore
    <3>1. /\ UNCHANGED <<next, slots>> /\ loop.pc = "store"
          /\ used' = loop.reg - 1 /\ loop' = [loop EXCEPT !.pc = "answer"]
          /\ taken' = taken
      BY <1>n, <2>4, MeetsNot DEF PopStore
    <3>2. loop'.pc = "answer" /\ loop'.slot = loop.slot BY <1>0, <3>1
    <3>3. /\ used' = used - 1 /\ used \in 1..Size /\ loop.slot = Back(next, used)
      <4>1. loop.reg = used /\ used # 0 /\ loop.slot = Back(next, used)
        BY <2>2, <3>1 DEF Tidy, PopOK
      <4>2. used \in 0..Size /\ Size \in Nat BY <1>0
      <4> QED BY ONLY <3>1, <4>1, <4>2
    <3>4. Done = Len(taken) /\ Done' = Len(taken) + 1 BY <3>1, <3>2 DEF Done
    <3>5. HistoryOK'
      <4>1. Len(accepted) = Len(taken) + used + 0 BY <2>2, <3>4 DEF Tidy, HistoryOK
      <4>2. Len(accepted) = (Len(taken) + 1) + (used - 1) + 0 BY <1>n, <3>3, <4>1
      <4> QED BY <2>1, <2>2, <3>1, <3>3, <3>4, <4>2 DEF Tidy, HistoryOK
    <3>6. RingOK'
      <4> SUFFICES ASSUME NEW j \in 1..(used - 1)
                   PROVE  slots[Back(next, j)] = accepted[(Len(taken) + 1) + (used - 1) + 1 - j]
        BY <2>1, <2>2, <3>1, <3>3, <3>4 DEF RingOK, Back
      <4>1. j \in 1..used BY <1>0
      <4>2. slots[Back(next, j)] = accepted[Len(taken) + used + 1 - j]
        BY <2>2, <3>4, <4>1 DEF Tidy, RingOK
      <4>3. (Len(taken) + 1) + (used - 1) + 1 - j = Len(taken) + used + 1 - j BY <1>0, <1>n
      <4> QED BY <4>2, <4>3
    <3>7. PopOK'
      <4>1. used \in 1..used /\ Len(taken) + used + 1 - used = Len(taken) + 1 BY <1>n, <3>3
      <4>2. slots[Back(next, used)] = accepted[Len(taken) + used + 1 - used]
        BY <2>2, <3>4, <4>1 DEF Tidy, RingOK
      <4> QED BY <2>1, <3>1, <3>2, <3>3, <3>4, <4>1, <4>2 DEF PopOK
    <3> QED BY <2>2, <3>5, <3>6, <3>7 DEF Tidy
  <2>5. CASE Apply
    <3>1. /\ UNCHANGED <<used, next, slots>> /\ loop.pc = "answer"
          /\ loop' = [loop EXCEPT !.pc = "tell"] /\ taken' = taken
      BY <1>n, <2>5, MeetsNot DEF Apply, ring
    <3>2. loop'.pc = "tell" /\ loop'.slot = loop.slot BY <1>0, <3>1
    <3>3. Done' = Done BY <3>1, <3>2 DEF Done
    <3>4. HistoryOK' /\ RingOK'
      BY <2>1, <2>2, <3>1, <3>3 DEF Tidy, HistoryOK, RingOK, Back
    <3>5. PopOK' BY <2>1, <2>2, <3>1, <3>2, <3>3 DEF Tidy, PopOK
    <3> QED BY <2>2, <3>4, <3>5 DEF Tidy
  <2>6. CASE Tell \/ Answer
    <3> DEFINE r == slots[loop.slot]
    <3>m. Meets(net, <<>>, <<r>>) BY <2>6 DEF Tell, Answer
    <3>1. /\ UNCHANGED <<used, next, slots>> /\ loop.pc \in {"answer", "tell"}
          /\ loop'.pc = "idle" /\ taken' = taken \o <<r>>
      <4>1. taken' = taken \o <<r>> BY <3>m, MeetsNot
      <4>2. UNCHANGED <<used, next, slots>> BY <2>6 DEF Tell, Answer, ring
      <4>3. loop.pc \in {"answer", "tell"} /\ loop'.pc = "idle" BY <2>6 DEF Tell, Answer
      <4> QED BY <4>1, <4>2, <4>3
    <3>2. r \in Requests BY <1>0
    <3>3. r = accepted[Done] /\ Done = Len(taken) + 1
      BY <2>2, <3>1 DEF Tidy, PopOK, Done
    <3> HIDE DEF r
    <3>4. /\ Len(taken') = Len(taken) + 1 /\ taken'[Len(taken) + 1] = r
          /\ \A i \in 1..Len(taken) : taken'[i] = taken[i]
      BY <1>0, <3>1, <3>2, Extended
    <3>5. Done' = Done BY <3>1, <3>3, <3>4 DEF Done
    <3>6. \A i \in 1..Len(taken') : i \in 1..Len(taken) \/ i = Len(taken) + 1
      BY <1>n, <3>4
    <3>7. \A i \in 1..Len(taken') : taken'[i] = accepted'[i]
      BY <2>1, <2>2, <3>3, <3>4, <3>6 DEF Tidy, HistoryOK
    <3>8. HistoryOK'
      BY <2>1, <2>2, <3>1, <3>5, <3>7 DEF Tidy, HistoryOK
    <3>9. RingOK' /\ PopOK'
      BY <2>1, <2>2, <3>1, <3>5 DEF Tidy, RingOK, PopOK, Back
    <3> QED BY <2>2, <3>8, <3>9 DEF Tidy
  <2> QED BY <1>6, <2>3, <2>4, <2>5, <2>6 DEF LoopStep
<1>7. CASE UNCHANGED vars
  <2>1. UNCHANGED <<used, next, slots, net, loop, accepted, taken, overlapped>>
    BY <1>7 DEF vars, ring
  <2> QED BY <2>1, StutterTidy
<1> QED BY <1>1, <1>2, <1>3, <1>4, <1>5, <1>6, <1>7 DEF Next

\* The ring starts in order.
LEMMA InitTidy == Init => Tidy
<1> SUFFICES ASSUME Init PROVE Tidy OBVIOUS
<1> USE DEF Init
<1>1. /\ Done = 0 /\ Filled = 0 /\ ~Putting /\ ~Counted
      /\ Len(accepted) = 0 /\ Len(taken) = 0
  BY DEF Done, Filled, Putting, Counted
<1>2. HistoryOK /\ RingOK BY <1>1 DEF HistoryOK, RingOK
<1>3. Apart /\ NetOK /\ PopOK BY <1>1 DEF Apart, NetOK, PopOK
<1> QED BY <1>2, <1>3 DEF Tidy

\* The order is kept in every reachable state, until the two tasks meet.
LEMMA AlwaysTidy == SafeSpec => [](IInv /\ (overlapped \/ Tidy))
<1>1. IInv /\ (overlapped \/ Tidy) /\ [Next]_vars => (overlapped \/ Tidy)'
  BY NextTidy
<1> QED BY <1>1, InitTidy, AlwaysIInv, PTL DEF SafeSpec

\* The first n elements of a sequence.
LEMMA FirstElements ==
  ASSUME NEW S, NEW t \in Seq(S), NEW n \in Nat, n <= Len(t)
  PROVE  /\ SubSeq(t, 1, n) \in Seq(S) /\ Len(SubSeq(t, 1, n)) = n
         /\ \A i \in 1..n : SubSeq(t, 1, n)[i] = t[i]
BY SMTT(20)

\* A sequence no longer than another, and equal to it element by element, is a
\* prefix of it.
LEMMA ElementwisePrefix ==
  ASSUME NEW S, NEW s \in Seq(S), NEW t \in Seq(S), Len(s) <= Len(t),
         \A i \in 1..Len(s) : s[i] = t[i]
  PROVE  IsPrefix(s, t)
<1>1. Len(s) \in Nat /\ Len(t) \in Nat BY LenProperties
<1>2. /\ SubSeq(t, 1, Len(s)) \in Seq(S) /\ Len(SubSeq(t, 1, Len(s))) = Len(s)
      /\ \A i \in 1..Len(s) : SubSeq(t, 1, Len(s))[i] = t[i]
  BY <1>1, FirstElements
<1>3. /\ SubSeq(s, 1, Len(s)) \in Seq(S) /\ Len(SubSeq(s, 1, Len(s))) = Len(s)
      /\ \A i \in 1..Len(s) : SubSeq(s, 1, Len(s))[i] = s[i]
  BY <1>1, FirstElements
<1>4. SubSeq(s, 1, Len(s)) = SubSeq(t, 1, Len(s)) BY <1>2, <1>3, SeqEqual
<1> QED BY <1>4 DEF IsPrefix

\* Requests leave the ring as they came in, one by one and in their order, for a
\* ring of any size and any number of times round it, until the tasks meet.
THEOREM RequestsInOrder == SafeSpec => []InOrder
<1>1. IInv /\ Tidy => IsPrefix(taken, accepted)
  <2> SUFFICES ASSUME IInv, Tidy PROVE IsPrefix(taken, accepted) OBVIOUS
  <2>1. accepted \in Seq(Requests) /\ taken \in Seq(Requests) BY DEF IInv, TypeOK
  <2>2. Len(taken) \in Nat /\ Len(accepted) \in Nat BY <2>1, LenProperties
  <2>3. Filled \in Nat
    BY WebSocketAssumption DEF IInv, TypeOK, Tidy, NetOK, Filled
  <2>4. PICK extra \in 0..1 : Len(accepted) = Done + Filled + extra
    <3>1. (IF Putting THEN 1 ELSE 0) \in 0..1 OBVIOUS
    <3> QED BY ONLY <3>1, Tidy, Zenon DEF Tidy, HistoryOK
  <2>5. Done = Len(taken) \/ Done = Len(taken) + 1 BY DEF Done
  <2>6. Len(taken) <= Len(accepted)
    BY ONLY <2>2, <2>3, <2>4, <2>5
  <2>7. \A i \in 1..Len(taken) : taken[i] = accepted[i] BY DEF Tidy, HistoryOK
  <2> QED BY <2>1, <2>6, <2>7, ElementwisePrefix
<1>2. IInv /\ (overlapped \/ Tidy) => InOrder BY <1>1 DEF InOrder
<1> QED BY <1>2, AlwaysTidy, PTL

(***************************************************************************)
(* What the clients know.                                                  *)
(***************************************************************************)
\* _client_count is the number of connections, of which a new one knows nothing; and
\* what is about to be told was set by the request in the slot.
CountOK == IsFiniteSet(Open) /\ clientCount = Cardinality(Open)
NewOK == \A c \in Clients : clients[c] = "new" => view[c] = Unknown
SetOK == overlapped \/ (loop.pc = "tell" => slots[loop.slot].packet.value = value)

ViewOK == CountOK /\ NewOK /\ SetOK /\ ViewsAgree

\* Whoever is connected is counted, and so is notified.
LEMMA AllNotified == CountOK => Notified = Open
<1> SUFFICES ASSUME CountOK, NEW c \in Open PROVE clientCount # 0 BY DEF Notified
<1>1. Open # {} OBVIOUS
<1> QED BY <1>1, FS_EmptySet DEF CountOK

\* A step that changes neither the views, nor who is connected, nor the parameter,
\* and that no task ends its telling with.
LEMMA SilentView ==
  ASSUME ViewOK, UNCHANGED <<peers, value, view>>, overlapped => overlapped',
         overlapped' \/ (net.pc # "tell" /\ loop.pc # "tell"),
         overlapped' \/ loop'.pc # "tell"
  PROVE  ViewOK'
<1>1. CountOK' /\ NewOK' BY DEF ViewOK, CountOK, NewOK, peers, Open
<1>2. SetOK' BY DEF SetOK
<1>3. ViewsAgree' BY DEF ViewOK, ViewsAgree, peers, Open
<1> QED BY <1>1, <1>2, <1>3 DEF ViewOK

\* Every step keeps the views right.
LEMMA NextView ==
  ASSUME IInv, ViewOK, [Next]_vars
  PROVE  ViewOK'
<1>0. /\ clients \in [Clients -> {"new", "open", "closed"}]
      /\ view \in [Clients -> Values \cup {Unknown}]
      /\ net \in [pc : {"idle", "load", "store", "advance", "fill", "copy", "tell"},
                  reg : 0..(Size - 1), slot : 0..(Size - 1), request : Requests]
      /\ loop \in [pc : {"idle", "store", "answer", "tell"}, reg : 0..Size, slot : 0..(Size - 1)]
      /\ clientCount \in Nat
  BY DEF IInv, TypeOK
<1>1. ASSUME NEW c \in Clients, Connect(c) PROVE ViewOK'
  <2>1. /\ net.pc = "idle" /\ clients[c] = "new" /\ clientCount' = clientCount + 1
        /\ clients' = [clients EXCEPT ![c] = "open"]
        /\ UNCHANGED <<slots, net, loop, value, view, overlapped>>
    BY <1>1 DEF Connect, ring
  <2>2. Open' = Open \cup {c} /\ c \notin Open BY <1>0, <2>1 DEF Open
  <2>3. CountOK' BY <2>1, <2>2, FS_AddElement DEF ViewOK, CountOK
  <2>4. NewOK' /\ SetOK' BY <1>0, <2>1 DEF ViewOK, NewOK, SetOK
  <2>5. view[c] = Unknown BY <2>1 DEF ViewOK, NewOK
  <2>6. ViewsAgree' BY <2>1, <2>2, <2>5 DEF ViewOK, ViewsAgree
  <2> QED BY <2>3, <2>4, <2>6 DEF ViewOK
<1>2. ASSUME NEW c \in Clients, Disconnect(c) PROVE ViewOK'
  <2>1. /\ clients[c] = "open" /\ clients' = [clients EXCEPT ![c] = "closed"]
        /\ clientCount' = IF clientCount > 0 THEN clientCount - 1 ELSE 0
        /\ UNCHANGED <<slots, net, loop, value, view, overlapped>>
    BY <1>2 DEF Disconnect, ring
  <2>2. Open' = Open \ {c} /\ c \in Open BY <1>0, <2>1 DEF Open
  <2>3. /\ clientCount = Cardinality(Open) /\ clientCount # 0
        /\ IsFiniteSet(Open') /\ Cardinality(Open') = Cardinality(Open) - 1
    BY <2>2, FS_RemoveElement, FS_EmptySet DEF ViewOK, CountOK
  <2>4. clientCount' = clientCount - 1 BY <1>0, <2>1, <2>3
  <2>5. CountOK' BY <2>3, <2>4 DEF CountOK
  <2>6. NewOK' /\ SetOK' BY <1>0, <2>1 DEF ViewOK, NewOK, SetOK
  <2>7. ViewsAgree' BY <2>1, <2>2 DEF ViewOK, ViewsAgree
  <2> QED BY <2>5, <2>6, <2>7 DEF ViewOK
<1>3. ASSUME NEW c \in Clients, NEW p \in Packets, Reject(c, p) PROVE ViewOK'
  BY <1>3 DEF Reject, ring, peers, ViewOK, CountOK, NewOK, SetOK, ViewsAgree, Open
<1>4. ASSUME NEW c \in Clients, NEW p \in Packets, Refuse(c, p) \/ Receive(c, p) PROVE ViewOK'
  <2>1. /\ net.pc = "idle" /\ loop' = loop /\ UNCHANGED <<peers, value, view>>
        /\ overlapped' = (overlapped \/ loop.pc # "idle")
    BY <1>4 DEF Refuse, Receive, CanSend, Meets
  <2> QED BY <2>1, SilentView
<1>5. ASSUME AcquireLoad \/ AcquireStore \/ AcquireAdvance \/ FillHead \/ FillData PROVE ViewOK'
  <2>1. /\ net.pc # "tell" /\ loop' = loop /\ UNCHANGED <<peers, value, view>>
        /\ overlapped' = (overlapped \/ loop.pc # "idle")
    BY <1>5 DEF AcquireLoad, AcquireStore, AcquireAdvance, FillHead, FillData, Meets
  <2> QED BY <2>1, SilentView
<1>6. ASSUME PopLoad \/ PopStore PROVE ViewOK'
  <2>1. /\ loop.pc # "tell" /\ loop'.pc # "tell" /\ UNCHANGED <<peers, value, view>>
        /\ overlapped' = (overlapped \/ net.pc # "idle")
    BY <1>0, <1>6 DEF PopLoad, PopStore, Meets
  <2> QED BY <2>1, SilentView
<1>7. ASSUME NEW v \in Values, Change(v) PROVE ViewOK'
  <2>1. /\ net' = [net EXCEPT !.pc = "tell"] /\ loop' = loop /\ UNCHANGED <<peers, view>>
        /\ overlapped' = (overlapped \/ loop.pc # "idle")
    BY <1>7 DEF Change, Meets
  <2>2. CountOK' /\ NewOK' BY <2>1 DEF ViewOK, CountOK, NewOK, peers, Open
  <2>3. SetOK' BY <2>1 DEF SetOK
  <2>4. net'.pc = "tell" BY <1>0, <2>1
  <2>5. ViewsAgree' BY <2>4 DEF ViewsAgree
  <2> QED BY <2>2, <2>3, <2>5 DEF ViewOK
<1>8. ASSUME ProcessNotification PROVE ViewOK'
  <2>1. /\ loop' = loop /\ UNCHANGED <<peers, value>>
        /\ view' = [c \in Clients |-> IF c \in Open THEN value ELSE view[c]]
        /\ overlapped' = (overlapped \/ loop.pc # "idle")
    BY <1>8, AllNotified DEF ProcessNotification, Meets, ViewOK
  <2>2. Open' = Open BY <2>1 DEF Open, peers
  <2>3. CountOK' BY <2>1, <2>2 DEF ViewOK, CountOK, peers
  <2>4. NewOK' BY <1>0, <2>1 DEF ViewOK, NewOK, Open, peers
  <2>5. SetOK' BY <2>1 DEF SetOK
  <2>6. \A c \in Open' : view'[c] = value' BY <2>1, <2>2 DEF Open
  <2>7. ViewsAgree' BY <2>6 DEF ViewsAgree
  <2> QED BY <2>3, <2>4, <2>5, <2>7 DEF ViewOK
<1>9. ASSUME Apply PROVE ViewOK'
  <2>1. /\ loop' = [loop EXCEPT !.pc = "tell"] /\ value' = slots[loop.slot].packet.value
        /\ UNCHANGED <<slots, peers, view>>
    BY <1>9 DEF Apply, ring
  <2>2. loop'.pc = "tell" /\ loop'.slot = loop.slot BY <1>0, <2>1
  <2>3. CountOK' /\ NewOK' BY <2>1 DEF ViewOK, CountOK, NewOK, peers, Open
  <2>4. SetOK' BY <2>1, <2>2 DEF SetOK
  <2>5. ViewsAgree' BY <2>2 DEF ViewsAgree
  <2> QED BY <2>3, <2>4, <2>5 DEF ViewOK
<1>10. ASSUME Tell PROVE ViewOK'
  <2> DEFINE r == slots[loop.slot]
  <2>1. /\ loop.pc = "tell" /\ loop'.pc = "idle" /\ UNCHANGED <<peers, value>>
        /\ view' = [c \in Clients |-> IF c \in Open /\ c = r.client THEN r.packet.value
                                      ELSE IF c \in Open THEN value ELSE view[c]]
        /\ overlapped' = (overlapped \/ net.pc # "idle")
    BY <1>10, AllNotified DEF Tell, Meets, ViewOK
  <2>2. Open' = Open BY <2>1 DEF Open, peers
  <2>3. CountOK' BY <2>1, <2>2 DEF ViewOK, CountOK, peers
  <2>4. NewOK' BY <1>0, <2>1 DEF ViewOK, NewOK, Open, peers
  <2>5. SetOK' BY <2>1 DEF SetOK
  <2>6. overlapped' \/ r.packet.value = value BY <2>1 DEF ViewOK, SetOK
  <2> HIDE DEF r
  <2>7. overlapped' \/ \A c \in Open' : view'[c] = value' BY <2>1, <2>2, <2>6 DEF Open
  <2>8. ViewsAgree' BY <2>7 DEF ViewsAgree
  <2> QED BY <2>3, <2>4, <2>5, <2>8 DEF ViewOK
<1>11. ASSUME Answer PROVE ViewOK'
  <2> DEFINE r == slots[loop.slot]
             shown == {c \in Clients : Parses(r.packet) /\ r.packet.type = "get" /\ c \in Open /\ c = r.client}
  <2>1. /\ loop.pc = "answer" /\ loop'.pc = "idle" /\ net' = net /\ UNCHANGED <<peers, value>>
        /\ view' = [c \in Clients |-> IF c \in shown THEN value ELSE view[c]]
        /\ overlapped' = (overlapped \/ net.pc # "idle")
    BY <1>11 DEF Answer, Meets
  <2>2. Open' = Open /\ shown \subseteq Open BY <2>1 DEF Open, peers
  <2> HIDE DEF shown
  <2>3. CountOK' BY <2>1, <2>2 DEF ViewOK, CountOK, peers
  <2>4. NewOK' BY <1>0, <2>1, <2>2 DEF ViewOK, NewOK, Open, peers
  <2>5. SetOK' BY <2>1 DEF SetOK
  <2>6. overlapped' \/ \A c \in Open : view[c] \in {Unknown, value}
    BY <2>1 DEF ViewOK, ViewsAgree
  <2>7. overlapped' \/ \A c \in Open' : view'[c] \in {Unknown, value'}
    BY <2>1, <2>2, <2>6 DEF Open
  <2>8. ViewsAgree' BY <2>7 DEF ViewsAgree
  <2> QED BY <2>3, <2>4, <2>5, <2>8 DEF ViewOK
<1>12. CASE UNCHANGED vars
  BY <1>12 DEF vars, ring, peers, ViewOK, CountOK, NewOK, SetOK, ViewsAgree, Open
<1> QED
  BY <1>1, <1>2, <1>3, <1>4, <1>5, <1>6, <1>7, <1>8, <1>9, <1>10, <1>11, <1>12
  DEF Next, NetStep, LoopStep

\* Whoever is connected and has heard of the parameter knows its value, whenever
\* nobody is about to tell it and until the tasks meet: for any clients, values and
\* packets, of whatever length, and however connections come and go.
THEOREM ViewsStayRight == SafeSpec => []ViewsAgree
<1>1. Init => ViewOK
  <2> SUFFICES ASSUME Init PROVE ViewOK OBVIOUS
  <2>1. Open = {} BY DEF Init, Open
  <2>2. CountOK BY <2>1, FS_EmptySet DEF Init, CountOK
  <2>3. NewOK /\ SetOK BY DEF Init, NewOK, SetOK
  <2>4. ViewsAgree BY <2>1 DEF ViewsAgree
  <2> QED BY <2>2, <2>3, <2>4 DEF ViewOK
<1>2. IInv /\ ViewOK /\ [Next]_vars => ViewOK' BY NextView
<1>3. ViewOK => ViewsAgree BY DEF ViewOK
<1> QED BY <1>1, <1>2, <1>3, AlwaysIInv, PTL DEF SafeSpec
=============================================================================
