------------------------------ MODULE MCEspNow ------------------------------
(* EspNow with two callers, three frames and room for one of two peers.      *)
EXTENDS EspNow

CONSTANTS loop, worker, f1, f2, f3, hub, node
MCCallers == {loop, worker}
MCPackets == {f1, f2, f3}
MCPeers == {hub, node}
=============================================================================
