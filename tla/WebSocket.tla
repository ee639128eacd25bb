------------------------------ MODULE WebSocket ------------------------------
(***************************************************************************)
(* network/server/ws.h with misc/circular_buffer.h and the parsing of      *)
(* network/protocol/binary.h: the task of AsyncTCP puts the packets of the *)
(* clients into a ring of requests, the main loop takes them out, one per  *)
(* call of handle_connection, and answers.  A packet may set a parameter,  *)
(* and then the other clients are notified.                                *)
(*                                                                         *)
(* The ring has no lock.  `_used++' and `_used--' are a load and a store   *)
(* each; a slot is filled after it was acquired, and read after it was     *)
(* given back.  The loads of one pop() (by can_pop(), for the index, and   *)
(* by `_used--') are one step: an acquire() between them raises what they  *)
(* read by one, as one before or after them does, and the index is taken   *)
(* modulo Size of whatever was read.  `overlapped' records that the two    *)
(* tasks have been busy with the ring, or with the parameter, at once.     *)
(***************************************************************************)
EXTENDS Integers, Sequences, SequencesExt

CONSTANTS
  Clients,         (* connections, one each                                 *)
  NoClient,
  Packets,         (* what clients send: [len, size, type, value], the size *)
                   (* being the one the header gives                        *)
  Values, Initial, (* of the parameter                                      *)
  Unknown,
  Size,            (* WS_MAX_PACKET_QUEUE                                   *)
  MaxLen,          (* WS_MAX_PACKET_SIZE                                    *)
  Header,          (* sizeof(PacketHeader)                                  *)
  Byte,            (* 2^8: parse_packet takes the length as a uint8_t       *)
  MaxSent,         (* bound: packets sent                                   *)
  MaxChanges       (* bound: changes of the parameter by others             *)

ASSUME WebSocketAssumption ==
  /\ Size \in Nat \ {0}
  /\ {MaxLen, Header, Byte} \subseteq Nat \ {0}
  /\ MaxLen < Byte + Header
  /\ Header <= Byte
  /\ Packets \subseteq [len : Nat, size : Nat, type : {"set", "get", "other"}, value : Values]
  /\ Initial \in Values
  /\ Unknown \notin Values
  /\ NoClient \notin Clients
  /\ MaxSent \in Nat /\ MaxChanges \in Nat

VARIABLES
  used, next, slots,  (* _used, _next_index, _buffer                        *)
  net,       (* AsyncTCP's task: where it is in on_event, and its registers *)
  loop,      (* the main loop, in handle_connection                         *)
  clients,   (* per connection: "new", "open" or "closed"                   *)
  clientCount,        (* _client_count                                      *)
  value,     (* the parameter                                               *)
  view,      (* per connection: what its client takes the parameter for     *)
  sent, changes,
  overlapped,
  accepted,  (* the requests put into the ring, in order, until then        *)
  taken      (* the requests handled, in order, until then                  *)

ring == <<used, next, slots>>
peers == <<clients, clientCount>>
bounds == <<sent, changes>>
vars == <<ring, net, loop, peers, value, view, bounds, accepted, taken, overlapped>>

NoPacket == [len |-> 0, size |-> 0, type |-> "other", value |-> Initial]
Blank == [client |-> NoClient, packet |-> NoPacket]
\* What a slot can hold: a packet that is being copied may be part of an older one.
Contents == [len : Nat, size : Nat, type : {"set", "get", "other"}, value : Values]
Requests == [client : Clients \cup {NoClient}, packet : Contents]

Init ==
  /\ used = 0
  /\ next = 0
  /\ slots = [k \in 0..(Size - 1) |-> Blank]
  /\ net = [pc |-> "idle", reg |-> 0, slot |-> 0, request |-> Blank]
  /\ loop = [pc |-> "idle", reg |-> 0, slot |-> 0]
  /\ clients = [c \in Clients |-> "new"]
  /\ clientCount = 0
  /\ value = Initial
  /\ view = [c \in Clients |-> Unknown]
  /\ sent = 0
  /\ changes = 0
  /\ accepted = <<>>
  /\ taken = <<>>
  /\ overlapped = FALSE

\* The task that takes a step in the ring meets the other one there, or does not
\* and what it puts in and what it has handled is recorded.
Meets(other, in, out) ==
  LET meets == overlapped \/ other.pc # "idle" IN
  /\ overlapped' = meets
  /\ accepted' = IF meets THEN <<>> ELSE accepted \o in
  /\ taken' = IF meets THEN <<>> ELSE taken \o out

(***************************************************************************)
(* AsyncTCP's task: on_event.                                              *)
(***************************************************************************)
Connect(c) ==
  /\ net.pc = "idle"
  /\ clients[c] = "new"
  /\ clients' = [clients EXCEPT ![c] = "open"]
  /\ clientCount' = clientCount + 1
  /\ UNCHANGED <<ring, net, loop, value, view, bounds, accepted, taken, overlapped>>

Disconnect(c) ==
  /\ net.pc = "idle"
  /\ clients[c] = "open"
  /\ clients' = [clients EXCEPT ![c] = "closed"]
  /\ clientCount' = IF clientCount > 0 THEN clientCount - 1 ELSE 0
  /\ UNCHANGED <<ring, net, loop, value, view, bounds, accepted, taken, overlapped>>

CanSend(c) == net.pc = "idle" /\ clients[c] = "open" /\ sent < MaxSent

\* The empty packet only.
TooLongEmpty(p) == p.len = 0

TooLong(p) == p.len = 0 \/ p.len > MaxLen

\* A packet that is answered PACKET_LENGTH_EXCEEDED at once.
Reject(c, p) ==
  /\ CanSend(c)
  /\ TooLong(p)
  /\ sent' = sent + 1
  /\ UNCHANGED <<ring, net, loop, peers, value, view, changes, accepted, taken, overlapped>>

\* One that is answered TOO_MANY_REQUEST at once, `Queue is full'.
Refuse(c, p) ==
  /\ CanSend(c)
  /\ ~TooLong(p)
  /\ used >= Size
  /\ sent' = sent + 1
  /\ Meets(loop, <<>>, <<>>)
  /\ UNCHANGED <<ring, net, loop, peers, value, view, changes>>

\* Takes a packet without asking whether there is room.
ReceiveUnchecked(c, p) ==
  /\ CanSend(c)
  /\ ~TooLong(p)
  /\ sent' = sent + 1
  /\ net' = [net EXCEPT !.pc = "load",
                        !.request = [client |-> c, packet |-> p]]
  /\ Meets(loop, <<net'.request>>, <<>>)
  /\ UNCHANGED <<ring, loop, peers, value, view, changes>>

\* One that can_acquire() has room for.
Receive(c, p) ==
  /\ CanSend(c)
  /\ ~TooLong(p)
  /\ used < Size
  /\ sent' = sent + 1
  /\ net' = [net EXCEPT !.pc = "load",
                        !.request = [client |-> c, packet |-> p]]
  /\ Meets(loop, <<net'.request>>, <<>>)
  /\ UNCHANGED <<ring, loop, peers, value, view, changes>>

\* acquire(): the slot, and the load of `_used++' ...
AcquireLoad ==
  /\ net.pc = "load"
  /\ net' = [net EXCEPT !.pc = "store", !.reg = used, !.slot = next]
  /\ Meets(loop, <<>>, <<>>)
  /\ UNCHANGED <<ring, loop, peers, value, view, bounds>>

\* ... the store ...
AcquireStore ==
  /\ net.pc = "store"
  /\ used' = net.reg + 1
  /\ net' = [net EXCEPT !.pc = "advance"]
  /\ Meets(loop, <<>>, <<>>)
  /\ UNCHANGED <<next, slots, loop, peers, value, view, bounds>>

\* ... and the next slot, which only this task writes.
AcquireAdvance ==
  /\ net.pc = "advance"
  /\ next' = IF next + 1 >= Size THEN 0 ELSE next + 1
  /\ net' = [net EXCEPT !.pc = "fill"]
  /\ Meets(loop, <<>>, <<>>)
  /\ UNCHANGED <<used, slots, loop, peers, value, view, bounds>>

\* The slot gets the client and the length ...
FillHead ==
  /\ net.pc = "fill"
  /\ slots' = [slots EXCEPT ![net.slot] =
                 [@ EXCEPT !.client = net.request.client,
                           !.packet.len = net.request.packet.len]]
  /\ net' = [net EXCEPT !.pc = "copy"]
  /\ Meets(loop, <<>>, <<>>)
  /\ UNCHANGED <<used, next, loop, peers, value, view, bounds>>

\* ... and the data.
FillData ==
  /\ net.pc = "copy"
  /\ slots' = [slots EXCEPT ![net.slot] = net.request]
  /\ net' = [net EXCEPT !.pc = "idle", !.reg = 0, !.slot = 0, !.request = Blank]
  /\ Meets(loop, <<>>, <<>>)
  /\ UNCHANGED <<used, next, loop, peers, value, view, bounds>>

(***************************************************************************)
(* The main loop: handle_connection.                                       *)
(***************************************************************************)
\* pop() of the newest request.
PopLoadNewest ==
  /\ loop.pc = "idle"
  /\ used # 0
  /\ loop' = [pc |-> "store", reg |-> used, slot |-> (Size + next - 1) % Size]
  /\ Meets(net, <<>>, <<>>)
  /\ UNCHANGED <<ring, net, peers, value, view, bounds>>

\* pop(): can_pop(), the oldest slot, and the load of `_used--' ...
PopLoad ==
  /\ loop.pc = "idle"
  /\ used # 0
  /\ loop' = [pc |-> "store", reg |-> used, slot |-> (Size + next - used) % Size]
  /\ Meets(net, <<>>, <<>>)
  /\ UNCHANGED <<ring, net, peers, value, view, bounds>>

\* A pop() that empties the ring.
PopStoreZero ==
  /\ loop.pc = "store"
  /\ used' = 0
  /\ loop' = [loop EXCEPT !.pc = "answer"]
  /\ Meets(net, <<>>, <<>>)
  /\ UNCHANGED <<next, slots, net, peers, value, view, bounds>>

\* ... and the store.  The slot is free from here on.
PopStore ==
  /\ loop.pc = "store"
  /\ used' = loop.reg - 1
  /\ loop' = [loop EXCEPT !.pc = "answer"]
  /\ Meets(net, <<>>, <<>>)
  /\ UNCHANGED <<next, slots, net, peers, value, view, bounds>>

\* parse_packet: the length is measured modulo 2^8.
Parses(p) == p.len % Byte >= Header /\ Header + p.size = p.len % Byte

Open == {c \in Clients : clients[c] = "open"}

\* _notify_clients: all that are connected, unless _client_count says that nobody is.
Notified == {c \in Open : clientCount # 0}

\* The sender is answered OK, and nobody else is told.
TellSender ==
  /\ loop.pc = "tell"
  /\ LET r == slots[loop.slot] IN
       /\ Meets(net, <<>>, <<r>>)
       /\ view' = [c \in Clients |-> IF c \in Open /\ c = r.client THEN r.packet.value ELSE view[c]]
  /\ loop' = [pc |-> "idle", reg |-> 0, slot |-> 0]
  /\ UNCHANGED <<ring, net, peers, value, bounds>>

\* The request is parsed.  It sets the parameter ...
Apply ==
  /\ loop.pc = "answer"
  /\ LET p == slots[loop.slot].packet IN Parses(p) /\ p.type = "set" /\ value' = p.value
  /\ loop' = [loop EXCEPT !.pc = "tell"]
  /\ Meets(net, <<>>, <<>>)
  /\ UNCHANGED <<ring, net, peers, view, bounds>>

\* ... the others are notified of what it is by now, and the sender is answered OK.
Tell ==
  /\ loop.pc = "tell"
  /\ LET r == slots[loop.slot] IN
       /\ Meets(net, <<>>, <<r>>)
       /\ view' = [c \in Clients |->
            IF c \in Open /\ c = r.client THEN r.packet.value
            ELSE IF c \in Notified THEN value ELSE view[c]]
  /\ loop' = [pc |-> "idle", reg |-> 0, slot |-> 0]
  /\ UNCHANGED <<ring, net, peers, value, bounds>>

\* Or it asks for the parameter, or is answered with an error.
Answer ==
  /\ loop.pc = "answer"
  /\ LET r == slots[loop.slot]
         shows == Parses(r.packet) /\ r.packet.type = "get"
     IN /\ ~(Parses(r.packet) /\ r.packet.type = "set")
        /\ Meets(net, <<>>, <<r>>)
        /\ view' = [c \in Clients |-> IF shows /\ c \in Open /\ c = r.client THEN value ELSE view[c]]
  /\ loop' = [pc |-> "idle", reg |-> 0, slot |-> 0]
  /\ UNCHANGED <<ring, net, peers, value, bounds>>

\* MqttServer, whose messages come on the same task of AsyncTCP, changes the
\* parameter, and the NotificationBus ...
Change(v) ==
  /\ net.pc = "idle"
  /\ changes < MaxChanges
  /\ changes' = changes + 1
  /\ value' = v
  /\ net' = [net EXCEPT !.pc = "tell"]
  /\ Meets(loop, <<>>, <<>>)
  /\ UNCHANGED <<ring, loop, peers, view, sent>>

\* ... has the clients notified.
ProcessNotification ==
  /\ net.pc = "tell"
  /\ view' = [c \in Clients |-> IF c \in Notified THEN value ELSE view[c]]
  /\ net' = [net EXCEPT !.pc = "idle"]
  /\ Meets(loop, <<>>, <<>>)
  /\ UNCHANGED <<ring, loop, peers, value, bounds>>

NetStep == AcquireLoad \/ AcquireStore \/ AcquireAdvance \/ FillHead \/ FillData \/ ProcessNotification
LoopStep == PopLoad \/ PopStore \/ Apply \/ Tell \/ Answer

Next ==
  \/ \E c \in Clients :
       \/ Connect(c)
       \/ Disconnect(c)
       \/ \E p \in Packets : Reject(c, p) \/ Refuse(c, p) \/ Receive(c, p)
  \/ NetStep
  \/ LoopStep
  \/ \E v \in Values : Change(v)

\* AsyncTCP's task is scheduled, and so is the main loop, which keeps calling
\* handle_connection.
SafeSpec == Init /\ [][Next]_vars
Spec == SafeSpec /\ WF_vars(NetStep) /\ WF_vars(LoopStep)

(***************************************************************************)
(* Properties.                                                             *)
(***************************************************************************)
\* However the loads and stores of the two tasks fall, and though updates of
\* _used get lost: _used never leaves 0..Size, so that every slot is a slot of the
\* buffer.
TypeOK ==
  /\ used \in 0..Size
  /\ next \in 0..(Size - 1)
  /\ slots \in [0..(Size - 1) -> Requests]
  /\ net \in [pc : {"idle", "load", "store", "advance", "fill", "copy", "tell"}, reg : 0..(Size - 1),
              slot : 0..(Size - 1), request : Requests]
  /\ loop \in [pc : {"idle", "store", "answer", "tell"}, reg : 0..Size, slot : 0..(Size - 1)]
  /\ clients \in [Clients -> {"new", "open", "closed"}]
  /\ clientCount \in Nat
  /\ value \in Values
  /\ view \in [Clients -> Values \cup {Unknown}]
  /\ sent \in 0..MaxSent
  /\ changes \in 0..MaxChanges
  /\ accepted \in Seq(Requests)
  /\ taken \in Seq(Requests)
  /\ overlapped \in BOOLEAN

\* acquire() never returns nullptr to on_event, which has asked can_acquire() and
\* does not look: nothing the main loop does meanwhile can fill the ring.
NeverNull == net.pc = "load" => used < Size

\* Requests are handled once each, in the order they came in, as they were sent:
\* the slot that pop() computes is the oldest one, across the end of the ring.
InOrder == overlapped \/ IsPrefix(taken, accepted)

\* Every request that was accepted is handled, though handle_connection handles
\* one at a time.
AllHandled == <>[](overlapped \/ Len(taken) = Len(accepted))

\* Whoever has heard of the parameter knows its value: the senders from the
\* answers, the others from the notifications, in whatever order packets,
\* changes by others, connections and disconnections come one after the other.  A
\* change by MqttServer while the main loop applies a packet is an overlap, and not
\* covered: the sender may then be answered OK, last, for a value that is gone by then.
ViewsAgree ==
  overlapped \/ "tell" \in {net.pc, loop.pc} \/ \A c \in Open : view[c] \in {Unknown, value}

\* Only a packet whose header gives its whole length sets the parameter, though
\* parse_packet sees the length modulo 2^8.
OnlyWholeSets ==
  [][Apply => LET p == slots[loop.slot].packet IN p.len = Header + p.size]_vars
=============================================================================
