------------------------------- MODULE EspNow -------------------------------
(***************************************************************************)
(* network/base/async_now.{h,cpp}: a future for every frame handed to the  *)
(* ESP-NOW driver.  The driver reports the frames of a peer in the order   *)
(* in which it took them, naming the peer and not the frame, so that       *)
(* AsyncEspNow keeps a queue of promises per peer and settles the oldest   *)
(* one at each report.                                                     *)
(*                                                                         *)
(* send() runs on the main loop and on the dispatcher's task, _on_sent on  *)
(* the WiFi task, and nothing is locked: a caller registers the peer, puts *)
(* its promise into the queue and hands the frame over in three steps.     *)
(* The first of them holds four of the code's: the test of _initialized,   *)
(* the question whether the peer is there, esp_now_add_peer, and the empty *)
(* queue.  Two callers that register one peer at once are therefore one    *)
(* after the other here; a queue that is emptied between the steps of a    *)
(* send is AddPeer after UnregisterPeer or End.                            *)
(* A promise is named by its frame.                                        *)
(***************************************************************************)
EXTENDS Naturals, Sequences, FiniteSets

CONSTANTS Callers,    (* tasks that call send()                            *)
          Packets,    (* frames for send(), one each                       *)
          Peers,
          MaxPeers,   (* what the driver's list of peers holds             *)
          Nothing,
          MaxResets   (* bound on end() and unregister_peer()              *)

ASSUME EspNowAssumption ==
  /\ MaxPeers \in Nat
  /\ MaxResets \in Nat
  /\ Nothing \notin Packets \cup Peers
  /\ IsFiniteSet(Packets)

VARIABLES
  initialized,
  registered,  (* the driver's list of peers                               *)
  sendOrder,   (* per peer: _send_order, a queue of promises               *)
  air,         (* per peer: frames the driver has taken and not reported   *)
  pc, job,     (* per caller: its step in send(), and its frame            *)
  to,          (* per frame: its peer                                      *)
  future,      (* per frame: what its future says                          *)
  fate,        (* history, per frame: what the driver did with it          *)
  disturbed,   (* history: queue and driver may be out of step             *)
  resets

driver == <<registered, air>>
espNowVars == <<initialized, driver, sendOrder, pc, job, to, future, fate, disturbed, resets>>

EspNowInit ==
  /\ initialized = FALSE
  /\ registered = {}
  /\ sendOrder = [p \in Peers |-> <<>>]
  /\ air = [p \in Peers |-> <<>>]
  /\ pc = [c \in Callers |-> "idle"]
  /\ job = [c \in Callers |-> Nothing]
  /\ to = [f \in Packets |-> Nothing]
  /\ future = [f \in Packets |-> "none"]
  /\ fate = [f \in Packets |-> "none"]
  /\ disturbed = FALSE
  /\ resets = 0

Begin ==
  /\ ~initialized
  /\ initialized' = TRUE
  /\ UNCHANGED <<driver, sendOrder, pc, job, to, future, fate, disturbed, resets>>

\* The driver forgets its peers and frames; _send_order stays.
End ==
  /\ initialized /\ resets < MaxResets
  /\ initialized' = FALSE
  /\ registered' = {}
  /\ air' = [p \in Peers |-> <<>>]
  /\ resets' = resets + 1
  /\ disturbed' = (disturbed \/ \E p \in Peers : air[p] # <<>>)
  /\ UNCHANGED <<sendOrder, pc, job, to, future, fate>>

\* The frames that are on their way are still reported.
UnregisterPeer(p) ==
  /\ initialized /\ p \in registered /\ resets < MaxResets
  /\ registered' = registered \ {p}
  /\ resets' = resets + 1
  /\ UNCHANGED <<initialized, sendOrder, air, pc, job, to, future, fate, disturbed>>

HasRoom == Cardinality(registered) < MaxPeers

\* A peer that is not registered gets an empty queue in place of its old one.
AddPeer(p) ==
  /\ registered' = registered \cup {p}
  /\ sendOrder' = [sendOrder EXCEPT ![p] = <<>>]
  /\ disturbed' = (disturbed \/ sendOrder[p] # <<>>)

RegisterPeer(p) ==
  /\ initialized /\ p \notin registered /\ HasRoom
  /\ AddPeer(p)
  /\ UNCHANGED <<initialized, air, pc, job, to, future, fate, resets>>

CanSend(c, f) == pc[c] = "idle" /\ future[f] = "none"

\* An errored future at once: no begin(), or no room for the peer.
SendFails(c, f, p) ==
  /\ CanSend(c, f)
  /\ ~initialized \/ (p \notin registered /\ ~HasRoom)
  /\ future' = [future EXCEPT ![f] = "error"]
  /\ fate' = [fate EXCEPT ![f] = "error"]
  /\ UNCHANGED <<initialized, driver, sendOrder, pc, job, to, disturbed, resets>>

\* Registers the peer if need be, at one go, and makes the promise.
StartSend(c, f, p) ==
  /\ CanSend(c, f)
  /\ initialized
  /\ \/ p \in registered /\ UNCHANGED <<registered, sendOrder, disturbed>>
     \/ p \notin registered /\ HasRoom /\ AddPeer(p)
  /\ pc' = [pc EXCEPT ![c] = "push"]
  /\ job' = [job EXCEPT ![c] = f]
  /\ to' = [to EXCEPT ![f] = p]
  /\ future' = [future EXCEPT ![f] = "pending"]
  /\ UNCHANGED <<initialized, air, fate, resets>>

Return(c) ==
  /\ pc' = [pc EXCEPT ![c] = "idle"]
  /\ job' = [job EXCEPT ![c] = Nothing]

Push(c) ==
  /\ pc[c] = "push"
  /\ LET p == to[job[c]] IN sendOrder' = [sendOrder EXCEPT ![p] = Append(@, job[c])]
  /\ pc' = [pc EXCEPT ![c] = "hand"]
  /\ UNCHANGED <<initialized, driver, job, to, future, fate, disturbed, resets>>

IsInNextPlace(f, p) ==
  Len(air[p]) < Len(sendOrder[p]) /\ sendOrder[p][Len(air[p]) + 1] = f

\* The driver takes the frame; another caller's may be before it in the queue.
HandOver(c) ==
  /\ pc[c] = "hand"
  /\ LET f == job[c]
         p == to[f]
     IN /\ p \in registered
        /\ air' = [air EXCEPT ![p] = Append(@, f)]
        /\ disturbed' = (disturbed \/ ~IsInNextPlace(f, p))
  /\ Return(c)
  /\ UNCHANGED <<initialized, registered, sendOrder, to, future, fate, resets>>

\* A promise is settled once; later calls change nothing.
Settle(f, s) == future' = [future EXCEPT ![f] = IF @ = "pending" THEN s ELSE @]

\* The driver refuses the frame: it has no memory, or does not know the peer (any
\* more).  What is popped is the FRONT of the queue, whose promise is then nobody's.
\* (Popping an empty queue, possible only once the two are out of step, is
\* undefined; here it stays empty.)
Refuse(c) ==
  /\ pc[c] = "hand"
  /\ LET f == job[c]
         p == to[f]
         q == sendOrder[p]
     IN /\ sendOrder' = [sendOrder EXCEPT ![p] = IF q = <<>> THEN q ELSE Tail(q)]
        /\ disturbed' = (disturbed \/ q = <<>> \/ Head(q) # f)
        /\ Settle(f, "error")
        /\ fate' = [fate EXCEPT ![f] = "error"]
  /\ Return(c)
  /\ UNCHANGED <<initialized, driver, to, resets>>

\* A report settles the youngest promise of the queue.
OnSentLast(p, s) ==
  /\ air[p] # <<>>
  /\ air' = [air EXCEPT ![p] = Tail(@)]
  /\ fate' = [fate EXCEPT ![Head(air[p])] = s]
  /\ LET q == sendOrder[p]
     IN IF q = <<>>
          THEN UNCHANGED <<sendOrder, future>>
          ELSE /\ sendOrder' = [sendOrder EXCEPT ![p] = SubSeq(q, 1, Len(q) - 1)]
               /\ Settle(q[Len(q)], s)
  /\ UNCHANGED <<initialized, registered, pc, job, to, disturbed, resets>>

\* A report, whatever its status, confirms the frame.
OnSentUnchecked(p, s) ==
  /\ air[p] # <<>>
  /\ air' = [air EXCEPT ![p] = Tail(@)]
  /\ fate' = [fate EXCEPT ![Head(air[p])] = s]
  /\ LET q == sendOrder[p]
     IN IF q = <<>>
          THEN UNCHANGED <<sendOrder, future>>
          ELSE sendOrder' = [sendOrder EXCEPT ![p] = Tail(q)] /\ Settle(Head(q), "ok")
  /\ UNCHANGED <<initialized, registered, pc, job, to, disturbed, resets>>

\* A report settles the promise and leaves it in the queue.
OnSentKeeps(p, s) ==
  /\ air[p] # <<>>
  /\ air' = [air EXCEPT ![p] = Tail(@)]
  /\ fate' = [fate EXCEPT ![Head(air[p])] = s]
  /\ LET q == sendOrder[p]
     IN IF q = <<>> THEN UNCHANGED future ELSE Settle(Head(q), s)
  /\ UNCHANGED <<initialized, registered, sendOrder, pc, job, to, disturbed, resets>>

\* The WiFi task reports the oldest frame the driver has taken for the peer: to the
\* oldest promise in the queue, or to nobody (`Unexpected sent event').
OnSent(p, s) ==
  /\ air[p] # <<>>
  /\ air' = [air EXCEPT ![p] = Tail(@)]
  /\ fate' = [fate EXCEPT ![Head(air[p])] = s]
  /\ LET q == sendOrder[p]
     IN IF q = <<>>
          THEN UNCHANGED <<sendOrder, future>>
          ELSE sendOrder' = [sendOrder EXCEPT ![p] = Tail(q)] /\ Settle(Head(q), s)
  /\ UNCHANGED <<initialized, registered, pc, job, to, disturbed, resets>>

CallerStep(c) == Push(c) \/ HandOver(c) \/ Refuse(c)
Report(p) == \E s \in {"ok", "error"} : OnSent(p, s)

EspNowNext ==
  \/ Begin
  \/ End
  \/ \E p \in Peers : UnregisterPeer(p) \/ RegisterPeer(p) \/ Report(p)
  \/ \E c \in Callers :
       \/ CallerStep(c)
       \/ \E f \in Packets, p \in Peers : StartSend(c, f, p) \/ SendFails(c, f, p)

\* send() goes on, and the driver reports every frame it has taken.
EspNowFairness ==
  /\ \A c \in Callers : WF_espNowVars(CallerStep(c))
  /\ \A p \in Peers : WF_espNowVars(Report(p))

EspNowSafeSpec == EspNowInit /\ [][EspNowNext]_espNowVars
EspNowSpec == EspNowSafeSpec /\ EspNowFairness

(***************************************************************************)
(* Properties.                                                             *)
(***************************************************************************)
EspNowTypeOK ==
  /\ initialized \in BOOLEAN
  /\ registered \in SUBSET Peers
  /\ sendOrder \in [Peers -> Seq(Packets)]
  /\ air \in [Peers -> Seq(Packets)]
  /\ pc \in [Callers -> {"idle", "push", "hand"}]
  /\ job \in [Callers -> Packets \cup {Nothing}]
  /\ to \in [Packets -> Peers \cup {Nothing}]
  /\ future \in [Packets -> {"none", "pending", "ok", "error"}]
  /\ fate \in [Packets -> {"none", "ok", "error"}]
  /\ disturbed \in BOOLEAN
  /\ resets \in Nat

\* The queue of promises begins with those of the frames the driver has, in the
\* driver's order, so that each report finds its own promise: as long as no frame
\* is refused behind others, no two callers overtake each other between push and
\* esp_now_send, and no peer is registered anew, nor ESP-NOW ended, over frames
\* that are still under way.
InStep ==
  disturbed \/ \A p \in Peers :
    /\ Len(air[p]) <= Len(sendOrder[p])
    /\ \A i \in 1..Len(air[p]) : sendOrder[p][i] = air[p][i]

\* Under the same conditions a future says what became of its own frame.
OwnFate ==
  disturbed \/ \A f \in Packets : future[f] \in {"ok", "error"} => future[f] = fate[f]

\* Whatever happens, not more futures are confirmed than frames were: a report for
\* nobody, a refusal or a new queue lose confirmations and never invent one.
NoneInvented ==
  Cardinality({f \in Packets : future[f] = "ok"}) <= Cardinality({f \in Packets : fate[f] = "ok"})

\* Every future is settled, if nothing has put queue and driver out of step.
AllSettle == <>[](disturbed \/ \A f \in Packets : future[f] # "pending")
=============================================================================
