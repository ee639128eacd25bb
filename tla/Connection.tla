----------------------------- MODULE Connection -----------------------------
(***************************************************************************)
(* How a device gets onto the network and stays there: bootstrap.h's       *)
(* service loop, network/wifi.{h,cpp} and network/server/mqtt.{h,cpp}.     *)
(*                                                                         *)
(* The service loop runs on the main loop.  It connects the WiFi, starts   *)
(* the servers once that is connected, and from then on calls the          *)
(* handle_connection of each.  The MQTT client gets through or fails on    *)
(* AsyncTCP's task, which then calls MqttServer back: with no lock, between *)
(* any two steps of MqttServer on the main loop.                           *)
(*                                                                         *)
(* Times are kept as ages, which stop at MaxAge.  WifiManager reads the    *)
(* clock where it subtracts; MqttServer reads it once per pass, and        *)
(* subtracts later, without sign.                                          *)
(***************************************************************************)
EXTENDS Naturals

CONSTANTS Modes,            (* WifiMode; STA_AP is STA with another radio mode *)
          Intervals,        (* of connect(): 0 means to try for ever       *)
          DefaultInterval,  (* what connect() takes if it is not told      *)
          CheckInterval,    (* _connection_check_interval                  *)
          ReconnectTimeout, (* MQTT_RECONNECT_TIMEOUT                      *)
          ConnectionTimeout,(* MQTT_CONNECTION_TIMEOUT                     *)
          MaxAge,           (* bound on ages, above all of these           *)
          MaxStale,         (* bound on ticks in one pass of MqttServer    *)
          MaxFaults,        (* bound on losses of the router or the broker *)
          MaxCalls          (* bound on the application's own connect()    *)

Spans == {DefaultInterval, CheckInterval, ReconnectTimeout, ConnectionTimeout} \cup Intervals

ASSUME ConnectionAssumption ==
  /\ Modes \subseteq {"AP", "STA"}
  /\ Spans \cup {MaxAge, MaxStale, MaxFaults, MaxCalls} \subseteq Nat
  /\ \A t \in Spans : t + MaxStale < MaxAge
  /\ DefaultInterval > 0

VARIABLES
  boot,       (* Bootstrap's _state                                        *)
  wifi,       (* WifiManager's _state, _mode, _connection_interval, _ssid  *)
  beginAge,   (* since _connection_begin_time, while connecting            *)
  checkAge,   (* since _last_connection_check                              *)
  radio,      (* the radio's mode: "off", "AP" or "STA"                    *)
  router,     (* whether there is a router to be reached                   *)
  link,       (* WiFi.isConnected()                                        *)
  mqtt,       (* MqttServer's _state                                       *)
  attemptAge, (* since _last_connection_attempt_time                       *)
  changeAge,  (* since _state_change_time, while connecting                *)
  client,     (* AsyncMqttClient: "idle", "connecting" or "connected"      *)
  event,      (* the callback that AsyncTCP's task is about to call        *)
  pc,         (* the main loop's step in MqttServer::handle_connection     *)
  stale,      (* ticks since that has read the clock                       *)
  crossed,    (* history: the two tasks have written _state across         *)
  faults, calls

wifiVars == <<wifi, beginAge, checkAge, radio, link>>
stateVars == <<mqtt, attemptAge, changeAge>>
mqttVars == <<stateVars, client, event, pc, stale, crossed>>
connectionVars == <<boot, wifiVars, router, mqttVars, faults, calls>>

ConnectionInit ==
  /\ boot = "UNINITIALIZED"
  /\ wifi = [state |-> "DISCONNECTED", mode |-> "AP", interval |-> 0, ssid |-> "router"]
  /\ beginAge = 0 /\ checkAge = 0
  /\ radio = "off" /\ router \in BOOLEAN /\ link = FALSE
  /\ mqtt = "UNINITIALIZED" /\ attemptAge = 0 /\ changeAge = 0
  /\ client = "idle" /\ event = "none"
  /\ pc = "loop" /\ stale = 0
  /\ crossed = FALSE /\ faults = 0 /\ calls = 0

(***************************************************************************)
(* WifiManager.                                                            *)
(***************************************************************************)

\* _connect_ap: the access point is up at once, and its name replaces that of the
\* router for good.
ConnectAp(interval) ==
  /\ radio' = "AP" /\ link' = FALSE
  /\ wifi' = [state |-> "CONNECTED", mode |-> "AP", interval |-> interval, ssid |-> "own"]
  /\ UNCHANGED beginAge

\* The first _connect_sta_step.
ConnectSta(interval) ==
  /\ radio' = "STA" /\ link' = FALSE
  /\ wifi' = [wifi EXCEPT !.state = "CONNECTING", !.mode = "STA", !.interval = interval]
  /\ beginAge' = 0

Connect(mode, interval) ==
  \/ wifi.state = "CONNECTING" /\ UNCHANGED <<wifi, beginAge, radio, link>>
  \/ wifi.state # "CONNECTING" /\ mode = "AP" /\ ConnectAp(interval)
  \/ wifi.state # "CONNECTING" /\ mode = "STA" /\ ConnectSta(interval)

\* _connect_sta_step, still CONNECTING when connect() is called.
StaStepUnreset ==
  \/ /\ link
     /\ wifi' = [wifi EXCEPT !.state = "CONNECTED"]
     /\ UNCHANGED <<beginAge, radio, link>>
  \/ ~link /\ wifi.interval > 0 /\ beginAge > wifi.interval /\ Connect("AP", DefaultInterval)
  \/ /\ ~link /\ ~(wifi.interval > 0 /\ beginAge > wifi.interval)
     /\ UNCHANGED <<wifi, beginAge, radio, link>>

\* The later steps of _connect_sta_step.
StaStep ==
  \/ /\ link
     /\ wifi' = [wifi EXCEPT !.state = "CONNECTED"]
     /\ UNCHANGED <<beginAge, radio, link>>
  \/ ~link /\ wifi.interval > 0 /\ beginAge > wifi.interval /\ ConnectAp(DefaultInterval)
  \/ /\ ~link /\ ~(wifi.interval > 0 /\ beginAge > wifi.interval)
     /\ UNCHANGED <<wifi, beginAge, radio, link>>

\* The radio's mode tells an access point from the rest, and so _mode is STA.
IsLost == radio # "AP" /\ ~link

WifiHandle ==
  \/ wifi.state = "CONNECTING" /\ StaStep /\ UNCHANGED checkAge
  \/ wifi.state # "CONNECTING" /\ checkAge < CheckInterval /\ UNCHANGED wifiVars
  \/ /\ wifi.state # "CONNECTING" /\ checkAge >= CheckInterval
     /\ checkAge' = 0
     /\ \/ IsLost /\ ConnectSta(DefaultInterval)
        \/ ~IsLost /\ UNCHANGED <<wifi, beginAge, radio, link>>

\* The application calls connect() itself.
AppConnect(mode, interval) ==
  /\ pc = "loop" /\ calls < MaxCalls
  /\ calls' = calls + 1
  /\ Connect(mode, interval)
  /\ UNCHANGED <<boot, checkAge, router, mqttVars, faults>>

(***************************************************************************)
(* Bootstrap's service loop, with MQTT enabled.                            *)
(***************************************************************************)
Start ==
  /\ pc = "loop" /\ boot = "UNINITIALIZED"
  /\ \E mode \in Modes, interval \in Intervals : Connect(mode, interval)
  /\ boot' = "WIFI_CONNECT"
  /\ UNCHANGED <<checkAge, router, mqttVars, faults, calls>>

WifiConnect ==
  /\ pc = "loop" /\ boot = "WIFI_CONNECT"
  /\ WifiHandle
  /\ boot' = IF wifi'.state = "CONNECTED" THEN "INITIALIZING" ELSE boot
  /\ UNCHANGED <<router, mqttVars, faults, calls>>

\* MqttServer::_change_state, and _connect.
ChangeState(s) == mqtt' = s /\ changeAge' = 0
MqttConnect ==
  /\ ChangeState("CONNECTING")
  /\ attemptAge' = 0
  /\ client' = IF client = "idle" THEN "connecting" ELSE client

\* Starts the servers; the first connection of MQTT's.
Initialize ==
  /\ pc = "loop" /\ boot = "INITIALIZING"
  /\ MqttConnect
  /\ boot' = "READY"
  /\ UNCHANGED <<wifiVars, router, event, pc, stale, crossed, faults, calls>>

\* WifiManager's handle_connection, then MqttServer's, which reads the clock.
Ready ==
  /\ pc = "loop" /\ boot = "READY"
  /\ WifiHandle
  /\ pc' = "test" /\ stale' = 0
  /\ UNCHANGED <<boot, router, stateVars, client, event, crossed, faults, calls>>

(***************************************************************************)
(* MqttServer::handle_connection, from the reading of the clock on.        *)
(***************************************************************************)

\* current_time - t > timeout, for a t of that age.  A t later than current_time
\* makes the difference wrap round to more than any timeout.
Exceeds(age, timeout) == age < stale \/ age - stale > timeout

At(from, to) ==
  /\ pc = from /\ pc' = to
  /\ UNCHANGED <<boot, wifiVars, router, event, stale, faults, calls>>

IsReconnectDue == mqtt = "DISCONNECTED" /\ Exceeds(attemptAge, ReconnectTimeout)
IsTimedOut == mqtt = "CONNECTING" /\ client # "connected" /\ Exceeds(changeAge, ConnectionTimeout)

Test ==
  /\ \/ IsReconnectDue /\ At("test", "connect")
     \/ ~IsReconnectDue /\ At("test", "check")
  /\ UNCHANGED <<stateVars, client, crossed>>

\* The callbacks are held against the main loop's step: one is under way, or has been
\* since the test, if _state is not what was tested.
Crosses(tested) == crossed' = (crossed \/ event # "none" \/ mqtt # tested)

Reconnect == At("connect", "check") /\ MqttConnect /\ Crosses("DISCONNECTED")

Check ==
  /\ \/ IsTimedOut /\ At("check", "abort")
     \/ ~IsTimedOut /\ At("check", "loop")
  /\ UNCHANGED <<stateVars, client, crossed>>

Abort ==
  /\ At("abort", "close")
  /\ ChangeState("DISCONNECTED")
  /\ Crosses("CONNECTING")
  /\ UNCHANGED <<attemptAge, client>>

\* disconnect(false), which asks a broker it is not connected to.
CloseUnforced ==
  /\ At("close", "loop")
  /\ UNCHANGED <<stateVars, client>>
  /\ Crosses("DISCONNECTED")

\* disconnect(true) closes the connection, which calls _on_disconnect if there was one.
Close ==
  /\ At("close", "loop")
  /\ client' = "idle"
  /\ IF client = "idle" THEN UNCHANGED <<mqtt, changeAge>> ELSE ChangeState("DISCONNECTED")
  /\ Crosses("DISCONNECTED")
  /\ UNCHANGED attemptAge

(***************************************************************************)
(* AsyncTCP's task.                                                        *)
(***************************************************************************)
OnConnect ==
  /\ event = "connect" /\ event' = "none"
  /\ ChangeState("CONNECTED")
  /\ attemptAge' = 0
  /\ UNCHANGED <<boot, wifiVars, router, client, pc, stale, crossed, faults, calls>>

\* Tells nobody.
OnDisconnectSilent ==
  /\ event = "disconnect" /\ event' = "none"
  /\ UNCHANGED <<boot, wifiVars, router, stateVars, client, pc, stale, crossed, faults, calls>>

OnDisconnect ==
  /\ event = "disconnect" /\ event' = "none"
  /\ ChangeState("DISCONNECTED")
  /\ UNCHANGED <<boot, wifiVars, router, attemptAge, client, pc, stale, crossed, faults, calls>>

\* The broker accepts.
ClientUp ==
  /\ event = "none" /\ client = "connecting" /\ link
  /\ client' = "connected" /\ event' = "connect"
  /\ UNCHANGED <<boot, wifiVars, router, stateVars, pc, stale, crossed, faults, calls>>

\* The connection fails or breaks: the network is gone, or the broker is for a while.
ClientDown ==
  /\ event = "none" /\ client # "idle"
  /\ \/ ~link /\ UNCHANGED faults
     \/ link /\ faults < MaxFaults /\ faults' = faults + 1
  /\ client' = "idle" /\ event' = "disconnect"
  /\ UNCHANGED <<boot, wifiVars, router, stateVars, pc, stale, crossed, calls>>

(***************************************************************************)
(* The radio, the router and the clock.                                    *)
(***************************************************************************)
LinkUp ==
  /\ radio = "STA" /\ router /\ wifi.ssid = "router" /\ ~link
  /\ link' = TRUE
  /\ UNCHANGED <<boot, wifi, beginAge, checkAge, radio, router, mqttVars, faults, calls>>

RouterUp ==
  /\ ~router /\ router' = TRUE
  /\ UNCHANGED <<boot, wifiVars, mqttVars, faults, calls>>

RouterDown ==
  /\ router /\ faults < MaxFaults
  /\ router' = FALSE /\ link' = FALSE
  /\ faults' = faults + 1
  /\ UNCHANGED <<boot, wifi, beginAge, checkAge, radio, mqttVars, calls>>

Aged(age) == IF age < MaxAge THEN age + 1 ELSE age

TimePasses ==
  /\ pc # "loop" => stale < MaxStale
  /\ stale' = IF pc = "loop" THEN 0 ELSE stale + 1
  /\ beginAge' = IF wifi.state = "CONNECTING" THEN Aged(beginAge) ELSE 0
  /\ checkAge' = Aged(checkAge)
  /\ attemptAge' = Aged(attemptAge)
  /\ changeAge' = IF mqtt = "CONNECTING" THEN Aged(changeAge) ELSE 0
  /\ UNCHANGED <<boot, wifi, radio, router, link, mqtt, client, event, pc, crossed, faults, calls>>

ServiceLoop == Start \/ WifiConnect \/ Initialize \/ Ready
HandleConnection == Test \/ Reconnect \/ Check \/ Abort \/ Close
Callback == OnConnect \/ OnDisconnect

ConnectionNext ==
  \/ ServiceLoop \/ HandleConnection \/ Callback
  \/ \E mode \in Modes, interval \in Intervals : AppConnect(mode, interval)
  \/ ClientUp \/ ClientDown \/ LinkUp \/ RouterUp \/ RouterDown \/ TimePasses

\* Both tasks run and time passes; a router in reach lets the radio join if it is there
\* long enough, and so often; the broker accepts one of the attempts, if there is no
\* end to those that last from one pass of the main loop to the next (within a pass
\* there is no time to answer); and a client that has no network notices.
ConnectionFairness ==
  /\ WF_connectionVars(ServiceLoop) /\ WF_connectionVars(HandleConnection)
  /\ WF_connectionVars(Callback)
  /\ SF_connectionVars(TimePasses)
  /\ SF_connectionVars(LinkUp) /\ SF_connectionVars(ClientUp /\ pc = "loop")
  /\ WF_connectionVars(ClientDown /\ ~link)

ConnectionSafeSpec == ConnectionInit /\ [][ConnectionNext]_connectionVars
ConnectionSpec == ConnectionSafeSpec /\ ConnectionFairness

(***************************************************************************)
(* Properties.                                                             *)
(***************************************************************************)
ConnectionAges == 0..MaxAge

ConnectionTypeOK ==
  /\ boot \in {"UNINITIALIZED", "WIFI_CONNECT", "INITIALIZING", "READY"}
  /\ wifi \in [state : {"DISCONNECTED", "CONNECTING", "CONNECTED"}, mode : {"AP", "STA"},
               interval : Nat, ssid : {"router", "own"}]
  /\ beginAge \in ConnectionAges /\ checkAge \in ConnectionAges
  /\ attemptAge \in ConnectionAges /\ changeAge \in ConnectionAges
  /\ radio \in {"off", "AP", "STA"} /\ router \in BOOLEAN /\ link \in BOOLEAN
  /\ mqtt \in {"UNINITIALIZED", "CONNECTING", "CONNECTED", "DISCONNECTED"}
  /\ client \in {"idle", "connecting", "connected"}
  /\ event \in {"none", "connect", "disconnect"}
  /\ pc \in {"loop", "test", "connect", "check", "abort", "close"}
  /\ stale \in 0..MaxStale /\ crossed \in BOOLEAN /\ faults \in Nat /\ calls \in Nat

\* What MqttServer believes is what its client does, as soon as the callback under way
\* has run: the two tasks write _state without a lock, and get it right unless the
\* main loop's write crosses a callback.
StatesAgree ==
  \/ crossed \/ event # "none" \/ pc = "close"
  \/ /\ mqtt = "CONNECTED" <=> client = "connected"
     /\ mqtt = "CONNECTING" <=> client = "connecting"

Settled == wifi.state = "CONNECTED" /\ (radio = "AP" \/ link)
Unreachable == ~router \/ wifi.ssid # "router"

\* The WiFi comes to rest, joined or an access point of its own, and the device gets
\* ready, whatever is lost on the way: unless it has been told to try for ever, and
\* what it tries to join is not there.
WifiSettles ==
  \/ <>[](Settled /\ boot = "READY")
  \/ <>[](wifi.state = "CONNECTING" /\ wifi.interval = 0 /\ Unreachable)

\* The attempt under way is given up in the pass that began it: the clock has moved
\* between its reading and _change_state, and the difference wraps round.
GivenUpAtOnce == pc = "abort" /\ changeAge < stale

\* A device that stays on the network is connected to the broker in the end, whatever
\* timed out, broke or was aborted before, if the two tasks have not crossed and
\* attempts are not given up at once for ever.
MqttComesUp ==
  <>[](link /\ boot = "READY") =>
    \/ <>[](crossed \/ (mqtt = "CONNECTED" /\ client = "connected"))
    \/ []<>GivenUpAtOnce
=============================================================================
