----------------------------- MODULE Interaction -----------------------------
(***************************************************************************)
(* network/base/async_now_interactions.{h,cpp}: messages of several frames, *)
(* and requests with responses, between nodes that run this same code.     *)
(*                                                                         *)
(* send() and request() take an id from an eight-bit counter and cut the   *)
(* data into parts.  _on_packet_received, on the WiFi task, puts the parts *)
(* with the same id, direction and sender together, gives a whole message  *)
(* to the application, and a whole response to the request in _requests    *)
(* that has its id.  Whether a message was sent is known when AsyncEspNow  *)
(* has settled all its frames; what hangs on that runs on the dispatcher.  *)
(*                                                                         *)
(* Frames between two nodes arrive in the order they were sent, or not at  *)
(* all.  A size is counted in units of which a frame holds MaxData.  Sizes  *)
(* that _send_impl refuses (none, or too many) are left out: such a call   *)
(* ends as one does that loses all its frames and fails.                   *)
(*                                                                         *)
(* Two steps of the code are one here.  Taking an id, `_id++', is a load   *)
(* and a store, so two tasks that call at once may take the same id: one   *)
(* of the ways of `reused'.  And the frames of a message enter the channel *)
(* together, where those of two callers may alternate.  A message goes to  *)
(* one node: a request to the broadcast address, which NowIo's discovery   *)
(* makes and several nodes may answer, is left out.                        *)
(***************************************************************************)
EXTENDS Naturals, Sequences, FiniteSets

CONSTANTS Nodes,
          Sizes,       (* per message: the sizes it may have               *)
          MaxData,     (* ESP_NOW_INTERACTION_MAX_PACKET_DATA_LENGTH       *)
          IdCount,     (* 256: ids are counted modulo this                 *)
          None,
          MaxMessages, (* bound on calls of send, request and respond      *)
          MaxLost,     (* bound on messages that miss a frame              *)
          MaxAir       (* bound on the frames a new message finds on its way *)

ASSUME InteractionAssumption ==
  /\ Sizes \in [1..MaxMessages -> SUBSET (Nat \ {0})]
  /\ MaxData \in Nat \ {0}
  /\ IdCount \in Nat \ {0}
  /\ MaxMessages \in Nat /\ MaxLost \in Nat /\ MaxAir \in Nat
  /\ None \notin Nodes /\ None \notin Nat

Ids == 0..(IdCount - 1)
Messages == 1..MaxMessages

VARIABLES
  info,      (* the messages made so far: who sends what to whom           *)
  nextId,    (* per node: _id                                              *)
  requests,  (* per node and id: _requests, a request or None              *)
  partial,   (* per node: _messages, by key                                *)
  channel,   (* per node: the frames that are on their way to it           *)
  sent,      (* per request: "no", "sending", "ok" or "failed"             *)
  answer,    (* per request: the response its promise was resolved with, or None *)
  cancelled, (* requests whose promise was set_error                       *)
  cleaned,   (* requests whose on_error callback has run                   *)
  delivered, (* per message: "no", "whole" or "torn", when it was put together *)
  rejected,  (* messages with a part that was called ill-formed            *)
  gaps,      (* history: messages with a part that was lost                *)
  reused     (* history: an id was taken while its last use was not over   *)

tables == <<requests, partial>>
history == <<gaps, reused>>
promises == <<answer, cancelled>>
vars == <<info, nextId, tables, channel, sent, promises, cleaned, delivered, rejected, history>>

Init ==
  /\ info = <<>>
  /\ nextId = [n \in Nodes |-> 0]
  /\ requests = [n \in Nodes |-> [i \in Ids |-> None]]
  /\ partial = [n \in Nodes |-> [k \in {} |-> None]]
  /\ channel = [n \in Nodes |-> <<>>]
  /\ sent = [m \in Messages |-> "no"]
  /\ answer = [m \in Messages |-> None]
  /\ cancelled = {}
  /\ cleaned = {}
  /\ delivered = [m \in Messages |-> "no"]
  /\ rejected = {}
  /\ gaps = {}
  /\ reused = FALSE

Made == 1..Len(info)
Of(kind) == {m \in Made : info[m].kind = kind}

(***************************************************************************)
(* Parts.                                                                  *)
(***************************************************************************)
PartsCount(size) == (size \div MaxData) + (IF size % MaxData # 0 THEN 1 ELSE 0)
Count(m) == PartsCount(info[m].size)
PartSize(m, i) ==
  IF (i + 1) * MaxData <= info[m].size THEN MaxData ELSE info[m].size % MaxData

Frame(m, i) == [msg |-> m, index |-> i]
Frames(m, size) == [i \in 1..PartsCount(size) |-> Frame(m, i - 1)]

\* The test in the code: it compares the index with the size of the part.
IllFormed(f) ==
  LET size == PartSize(f.msg, f.index)
  IN Count(f.msg) # 1 /\ f.index + 1 < size /\ size # MaxData

\* Without is_response.
KeyOfIdOnly(m) == [id |-> info[m].id, response |-> FALSE, from |-> info[m].from]

\* EspNowMessageKey.
Key(m) == [id |-> info[m].id, response |-> info[m].kind = "response", from |-> info[m].from]

(***************************************************************************)
(* Sending.                                                                *)
(***************************************************************************)
InChannel(m) == \E n \in Nodes : \E j \in 1..Len(channel[n]) : channel[n][j].msg = m
InPieces(m) ==
  \E n \in Nodes : \E k \in DOMAIN partial[n] :
    \E i \in DOMAIN partial[n][k].parts : partial[n][k].parts[i] = m

\* The future of request(): it fails if the frames cannot be sent, and otherwise
\* ends as the promise in _requests does.
Fails(r) == sent[r] = "failed" \/ (sent[r] = "ok" /\ r \in cancelled)

Responses(r) == {m \in Of("response") : info[m].re = r}

\* Something that bears the id of an exchange that n began is still about: its
\* frames, a part without the others, a request in the table, or one that has
\* still to be cleaned up or responded to.
InUse(n, id) ==
  \E m \in Made :
    /\ info[m].id = id
    /\ n = IF info[m].kind = "response" THEN info[m].to ELSE info[m].from
    /\ \/ InChannel(m) \/ InPieces(m)
       \/ /\ info[m].kind = "request"
          /\ \/ requests[n][id] = m
             \/ m \notin cleaned /\ (Fails(m) \/ sent[m] = "sending")
             \/ delivered[m] # "no" /\ Responses(m) = {}

Emit(m, record) ==
  /\ info' = Append(info, record)
  /\ channel' = [channel EXCEPT ![record.to] = @ \o Frames(m, record.size)]
  /\ sent' = IF record.kind = "request" THEN [sent EXCEPT ![m] = "sending"] ELSE sent

\* From a counter that does not wrap.
TakeIdWide(n) ==
  /\ nextId' = [nextId EXCEPT ![n] = @ + 1]
  /\ reused' = (reused \/ InUse(n, nextId[n]))

\* An id for a new exchange, from the eight-bit counter.
TakeId(n) ==
  /\ nextId' = [nextId EXCEPT ![n] = (@ + 1) % IdCount]
  /\ reused' = (reused \/ InUse(n, nextId[n]))

New(n, to, kind, size, re, id) ==
  [kind |-> kind, from |-> n, to |-> to, size |-> size, re |-> re, id |-> id]

\* Bounds: so many messages, each with a size of its own, few of them on their way to
\* a node at once.
NextSizes == IF Len(info) < MaxMessages THEN Sizes[Len(info) + 1] ELSE {}
CanMake(to) == Len(channel[to]) <= MaxAir

Send(n, to, size) ==
  /\ CanMake(to) /\ n # to
  /\ TakeId(n)
  /\ Emit(Len(info) + 1, New(n, to, "send", size, None, nextId[n]))
  /\ UNCHANGED <<tables, promises, cleaned, delivered, rejected, gaps>>

\* A request cancels the one whose id it takes, if that still waits.
Request(n, to, size) ==
  LET r == Len(info) + 1
      id == nextId[n]
      old == requests[n][id]
  IN /\ CanMake(to) /\ n # to
     /\ TakeId(n)
     /\ requests' = [requests EXCEPT ![n][id] = r]
     /\ cancelled' = cancelled \cup ({old} \ {None})
     /\ Emit(r, New(n, to, "request", size, None, id))
     /\ UNCHANGED <<partial, answer, cleaned, delivered, rejected, gaps>>

\* A response under the next id of the responder.
RespondUnderOwnId(r, size) ==
  /\ r \in Of("request") /\ delivered[r] # "no" /\ Responses(r) = {}
  /\ CanMake(info[r].from)
  /\ LET n == info[r].to
     IN Emit(Len(info) + 1, New(n, info[r].from, "response", size, r, nextId[n]))
  /\ UNCHANGED <<nextId, tables, promises, cleaned, delivered, rejected, history>>

\* The application responds, once, to a request it was given.
Respond(r, size) ==
  /\ r \in Of("request") /\ delivered[r] # "no" /\ Responses(r) = {}
  /\ CanMake(info[r].from)
  /\ Emit(Len(info) + 1, New(info[r].to, info[r].from, "response", size, r, info[r].id))
  /\ UNCHANGED <<nextId, tables, promises, cleaned, delivered, rejected, history>>

\* AsyncEspNow has settled the frames of a request: all of them, or one of them
\* with an error.  (What becomes of other sends is told to their callers only.)
SendSettles(r, s) ==
  /\ sent[r] = "sending"
  /\ s = "ok" => ~InChannel(r)
  /\ sent' = [sent EXCEPT ![r] = s]
  /\ UNCHANGED <<info, nextId, tables, channel, promises, cleaned, delivered, rejected, history>>

\* request() has failed: on_error erases whatever request has the id by now.
CleanUp(r) ==
  /\ r \in Of("request") /\ Fails(r) /\ r \notin cleaned
  /\ requests' = [requests EXCEPT ![info[r].from][info[r].id] = None]
  /\ cleaned' = cleaned \cup {r}
  /\ UNCHANGED <<info, nextId, partial, channel, sent, promises, delivered, rejected, history>>

(***************************************************************************)
(* The channel and _on_packet_received.                                    *)
(***************************************************************************)
Lose(n) ==
  /\ channel[n] # <<>> /\ Cardinality(gaps \cup rejected) < MaxLost
  /\ channel' = [channel EXCEPT ![n] = Tail(@)]
  /\ gaps' = gaps \cup {Head(channel[n]).msg}
  /\ UNCHANGED <<info, nextId, tables, sent, promises, cleaned, delivered, rejected, reused>>

Reject(n) ==
  /\ channel[n] # <<>> /\ IllFormed(Head(channel[n]))
  /\ channel' = [channel EXCEPT ![n] = Tail(@)]
  /\ rejected' = rejected \cup {Head(channel[n]).msg}
  /\ UNCHANGED <<info, nextId, tables, sent, promises, cleaned, delivered, history>>

\* The record of the message a frame belongs to, made with its first part.
Entry(n, f) ==
  IF Key(f.msg) \in DOMAIN partial[n]
    THEN partial[n][Key(f.msg)]
    ELSE [count |-> Count(f.msg), received |-> 0, parts |-> [i \in {} |-> None]]

\* Counts the parts by the index of the last one.
WithPartByIndex(e, f) ==
  [e EXCEPT !.received = f.index,
            !.parts = [i \in DOMAIN @ \cup {f.index} |-> IF i = f.index THEN f.msg ELSE @[i]]]

WithPart(e, f) ==
  [e EXCEPT !.received = @ + 1,
            !.parts = [i \in DOMAIN @ \cup {f.index} |-> IF i = f.index THEN f.msg ELSE @[i]]]

Erase(table, key) == [k \in DOMAIN table \ {key} |-> table[k]]

\* One part more, but not the last one.
ReceivePart(n) ==
  /\ channel[n] # <<>> /\ ~IllFormed(Head(channel[n]))
  /\ channel' = [channel EXCEPT ![n] = Tail(@)]
  /\ LET f == Head(channel[n])
         e == WithPart(Entry(n, f), f)
         key == Key(f.msg)
     IN /\ e.received # e.count
        /\ partial' = [partial EXCEPT ![n] =
                         [k \in DOMAIN @ \cup {key} |-> IF k = key THEN e ELSE @[k]]]
  /\ UNCHANGED <<info, nextId, requests, sent, promises, cleaned, delivered, rejected, history>>

IsWhole(m, e) ==
  /\ e.count = Count(m)
  /\ DOMAIN e.parts = 0..(e.count - 1)
  /\ \A i \in DOMAIN e.parts : e.parts[i] = m

\* The response goes to the request and leaves it in the table.
ResolveKept(n, m) ==
  LET r == requests[n][info[m].id]
  IN IF info[m].kind = "response" /\ r # None
       THEN answer' = [answer EXCEPT ![r] = m] /\ UNCHANGED requests
       ELSE UNCHANGED <<answer, requests>>

\* A response goes to the request that has its id (or is `unexpected').
Resolve(n, m) ==
  LET r == requests[n][info[m].id]
  IN IF info[m].kind = "response" /\ r # None
       THEN /\ answer' = [answer EXCEPT ![r] = m]
            /\ requests' = [requests EXCEPT ![n][info[m].id] = None]
       ELSE UNCHANGED <<answer, requests>>

\* The part that makes the count up, whichever parts have been counted.
ReceiveLast(n) ==
  /\ channel[n] # <<>> /\ ~IllFormed(Head(channel[n]))
  /\ channel' = [channel EXCEPT ![n] = Tail(@)]
  /\ LET f == Head(channel[n])
         e == WithPart(Entry(n, f), f)
     IN /\ e.received = e.count
        /\ delivered' = [delivered EXCEPT ![f.msg] = IF IsWhole(f.msg, e) THEN "whole" ELSE "torn"]
        /\ partial' = [partial EXCEPT ![n] = Erase(@, Key(f.msg))]
        /\ Resolve(n, f.msg)
  /\ UNCHANGED <<info, nextId, sent, cancelled, cleaned, rejected, history>>

\* _on_packet_received, for the oldest frame that is on its way to the node.
OnPacketReceived(n) == Reject(n) \/ ReceivePart(n) \/ ReceiveLast(n)

Next ==
  \/ \E n, to \in Nodes, size \in NextSizes : Send(n, to, size) \/ Request(n, to, size)
  \/ \E r \in Messages, size \in NextSizes : Respond(r, size)
  \/ \E r \in Messages, s \in {"ok", "failed"} : SendSettles(r, s)
  \/ \E r \in Messages : CleanUp(r)
  \/ \E n \in Nodes : Lose(n) \/ OnPacketReceived(n)

Spec == Init /\ [][Next]_vars

(***************************************************************************)
(* Properties.  Those that say `reused \/' hold until an id is taken while  *)
(* its last use is not over, by two tasks at once, 256 messages later or by *)
(* a node that was restarted: nothing in the code tells the two uses apart. *)
(***************************************************************************)
TypeOK ==
  /\ info \in Seq([kind : {"send", "request", "response"}, from : Nodes, to : Nodes,
                   size : Nat, re : Messages \cup {None}, id : Ids])
  /\ Len(info) <= MaxMessages
  /\ nextId \in [Nodes -> Ids]
  /\ requests \in [Nodes -> [Ids -> Messages \cup {None}]]
  /\ channel \in [Nodes -> Seq([msg : Messages, index : Nat])]
  /\ sent \in [Messages -> {"no", "sending", "ok", "failed"}]
  /\ answer \in [Messages -> Messages \cup {None}]
  /\ cancelled \in SUBSET Messages /\ cleaned \in SUBSET Messages
  /\ delivered \in [Messages -> {"no", "whole", "torn"}]
  /\ rejected \in SUBSET Messages /\ gaps \in SUBSET Messages
  /\ reused \in BOOLEAN

\* What the application is given is one message, with all its parts: never parts
\* of two, though they are counted and not told apart, and though some may be lost.
Whole == reused \/ \A m \in Messages : delivered[m] # "torn"

\* A request is answered by the response to it and by no other; and a response
\* that has come through has answered its request, unless that had failed.
AnswersFit ==
  reused \/
    /\ \A r \in Messages : answer[r] # None => info[answer[r]].re = r
    /\ \A m \in Of("response") :
         delivered[m] = "whole" => answer[info[m].re] = m \/ info[m].re \in cleaned

\* _requests holds the unresolved requests that have not failed, each under its
\* id, and nothing else: no response resolves a promise twice, and no request
\* that may still be answered has lost its entry to another one's on_error.
TableFits ==
  /\ \A n \in Nodes, i \in Ids : LET r == requests[n][i] IN
       r # None => info[r].from = n /\ info[r].id = i /\ answer[r] = None /\ r \notin cancelled
  /\ reused \/ \A r \in Of("request") :
       answer[r] = None /\ r \notin cancelled \cup cleaned => requests[info[r].from][info[r].id] = r

\* A message is delivered with its last frame, if none of its frames was lost or
\* called ill-formed, whatever other messages have left behind.
AllDelivered ==
  reused \/ \A m \in Made \ (gaps \cup rejected) : InChannel(m) \/ delivered[m] = "whole"

\* No frame is ill-formed: they are all made by _send_impl.
NoneIllFormed == rejected = {}
=============================================================================
