----------------------------- MODULE MCWebSocket -----------------------------
(* WebSocket with a ring of two requests and two clients.                   *)
EXTENDS WebSocket

MCPackets ==
  {[len |-> 5, size |-> 2, type |-> "set", value |-> 1],   \* sets the parameter
   [len |-> 3, size |-> 0, type |-> "get", value |-> 0],   \* reads it
   [len |-> 13, size |-> 2, type |-> "set", value |-> 1]}  \* too long, and would be taken for 5
=============================================================================
