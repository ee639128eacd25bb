# Verification of the ESP IoT framework

TLA+ modules that model the framework's asynchronous core, its timers, its storage, its
WebSocket server, its ESP-NOW stack and the life of its WiFi and MQTT connections, the TLC
configurations that check them on small instances, and theorems about them that the TLA+
proof system checks for every instance. Paths are
relative to `src/`.

## The system

The framework runs on an ESP32: two cores, FreeRTOS tasks that preempt each other,
interrupt handlers, the network stack's own tasks, and Arduino's `loop()`, which
calls `Bootstrap::event_loop`.

| Part | State | Operations | Talks to |
|---|---|---|---|
| Dispatcher (`async/dispatcher.*`) | a queue of functions, `initialized`, one task | `dispatch` from tasks, interrupts and callbacks; the task's drain loop | everything asynchronous |
| Promise, Future (`async/promise.*`, `future.*`) | `_finished`, `_success`, `_result`, callbacks | `set_success`, `set_error`, `on_finished`, `wait`, `result` | hands callbacks to the dispatcher |
| all, any (`async/promise.cpp`) | `count_left` and a joint promise | one scan and one registration per member | promises |
| then, on_error, finally, with_timeout, sequential (`async/future.h`, `promise.h`) | a promise per combinator | a reaction on each | promises, SystemTimer |
| SystemTimer (`async/system_timer.*`) | a priority queue, a task | `set_timeout`, `delay`, the polling loop | promises |
| Timer (`misc/timer.*`) | a table of slots, its size and its free count | `add_timeout`, `add_interval`, `clear_*`, `handle_timers` | the main loop |
| Storage (`misc/storage.h`) | the configuration, `_save_timer_id`, a file | `begin`, `save`, `force_save`, `_commit_impl` | Timer, the file system |
| Bootstrap (`bootstrap.h`) | the services, a state | `save_changes`, `restart`, `event_loop`, the service loop | all of the above |
| CircularBuffer, WebSocketServer (`misc/circular_buffer.h`, `network/server/ws.h`) | a ring of requests, handler tables, a client count | `on_event` on the AsyncTCP task, `handle_connection` on the loop | BinaryProtocol, NotificationBus |
| BinaryProtocol (`network/protocol/*`) | none | packet parsing and responses | |
| AsyncEspNow (`network/base/async_now.*`) | a queue of promises per peer | `begin`, `end`, `send`, `_on_sent` on the WiFi task, peers | promises |
| AsyncEspNowInteraction (`network/base/async_now_interactions.*`) | an id counter, requests by id, partial messages | `send`, `request`, `respond`, packet reception | AsyncEspNow, all() |
| NowIo (`network/server/now_io.*`) | the hub's address | discovery, requests | AsyncEspNowInteraction, sequential, with_timeout |
| MqttServer, WifiManager (`network/server/mqtt.*`, `network/wifi.*`) | a connection state and its time | `connect`, `handle_connection`, events | Bootstrap's service loop |
| Led, Button (`misc/led.*`, `misc/button.*`) | a flash sequence; click counters | `handle`, an interrupt handler | the main loop |
| EventTopic, NotificationBus, Vector, parameters (`misc`, `base`) | subscribers; an array; typed accessors | subscribe, publish; push, erase; get, set | |

What is hard in it:

* **Interleavings.** `dispatch` tests `initialized` without the lock; a promise is
  resolved in several critical sections; `finished()`, `success()` and `result()`
  take none. The WebSocket queue and the ESP-NOW send queues are shared between
  tasks with no lock at all.
* **Callbacks.** A callback runs later, on another task, and may find the promise
  gone; a timer's callback may change the table that is being walked.
* **Time.** `millis()` wraps; deadlines are kept in whole milliseconds; a timeout
  races the answer.
* **Failure.** A task cannot be created, memory runs out, a write fails, power is
  lost in the middle of a commit, frames are lost or refused, the router and the broker go away.

`PROJECT.json` lists the hazards one by one, each at its line, with the properties
that would notice it going wrong; a hazard that has none says why.

## Modules

| Module | Models | Remarks |
|---|---|---|
| `Executor` | what the dispatcher promises | abstract: a FIFO queue, one function at a time |
| `Dispatcher` | `async/dispatcher.*` | refines `Executor` |
| `OneShot` | what a promise promises | abstract: one outcome, everybody is told it once |
| `Promise` | one promise and its users | refines `OneShot`; contains the dispatcher as `Executor` states it |
| `Joint` | what all() and any() promise | abstract |
| `Aggregation` | `PromiseBase::all`, `PromiseBase::any` | refines `Joint`; members resolve as in `Promise` |
| `Futures` | the combinators over a network of promises | promises are what `OneShot` says |
| `SystemTimer` | `async/system_timer.*` | |
| `TimerTable` | the slots of `misc/timer.*`, as pure operators | shared by `Timer` and `Storage` |
| `Timer` | `misc/timer.*` with nested calls | |
| `Storage` | `misc/storage.h`, and save and restart of `bootstrap.h` | composed with the table of `TimerTable` and the event loop |
| `WebSocket` | `network/server/ws.h`, `misc/circular_buffer.h`, `parse_packet` of `network/protocol/binary.h` | the two tasks at the grain of loads and stores |
| `EspNow` | `network/base/async_now.*` | callers, the WiFi task and the driver's list of frames |
| `Interaction` | `network/base/async_now_interactions.*` | nodes that all run this code, over a channel that loses frames |
| `Connection` | `network/wifi.*`, the connection of `network/server/mqtt.*`, the service loop of `bootstrap.h` | composed; two tasks and a clock |
| `SeqFacts` | lemmas on sequences | |
| `PromiseProofs` | theorems of `Dispatcher` and `Promise` | |
| `CombinatorProofs` | theorems of `Aggregation` and `Futures` | |
| `SystemTimerProofs`, `TimerProofs`, `WebSocketProofs` | theorems of the modules of those names | |
| `BootstrapProofs` | theorems of `Storage` and `Connection` | the two modules `bootstrap.h` drives |
| `EspNowProofs` | theorems of `EspNow` and `Interaction` | the two layers of ESP-NOW |
| `MC*` | constants for TLC | |

A proof module that treats two components extends both, so one of them has its own name in front of
what every module has: `DispatcherInit`, `FuturesNext`, `EspNowTypeOK`, `connectionVars` and so on.

Each refinement is stated twice: `ImplementsX` is the whole abstract specification, fairness included,
which the runs check; `XSafety` is its safety part, which it contains and which is proved.

The chain is assume-guarantee: `Dispatcher` is shown to implement `Executor`, and
`Promise` uses a dispatcher that does what `Executor` says; `Promise` is shown to
implement `OneShot`, and `Futures` is built from one-shots. In the same way `EspNow` tells when a
send's future can be believed, and `Interaction` takes from it that a message has been sent, or
has failed, when all its frames have been reported.

### Dispatcher

Callers (tasks, interrupt handlers and the functions themselves) carry a program
counter for the two steps of `dispatch`: the test of `initialized` without the
lock, then `begin()` if needed, then the push and the notification. `CallBegin`,
`CreateWorker`, `BeginAgain` and `BeginFails` are `begin()` under its lock, or
before it. The worker's `Wake`, `PollEmpty`, `PollPop` and `Return` are the
wait for a notification, the two ways through `process_pending_tasks` under the lock,
and the end of the function called outside it.

### Promise

A setter goes through *store the value* (`StoreResult`), *mark* (`MarkFinished`,
`MarkSuccess`: two writes, one critical section) and *flush the callbacks*
(`Flush`, `FlushEnd`). A listener registers (`OnFinished`) or finds the promise finished
and dispatches (`DispatchLate`). Readers look without a lock, and so at any time: also, from the other core,
between the two writes (the critical section keeps out what runs on the setter's own core). `torn` records who has
read `_success` there, and `ReadersAgree` says what that can lead to (a success taken for a failure) and what nothing can
(a wrong value, a failure taken for a success). `Alive` follows the shared pointers:
a callback that does not capture the future runs on what is left of the promise.
`Unserved` are the callbacks whose dispatch may be refused; the code ignores that.

### Joint futures

One call of all() or any() on a collection whose members are resolved by other
tasks: the scan, the return of a promise that is resolved already, the counter, the
registrations, and the callbacks, which count down. The scan may look at a member between its two
writes. The callbacks do not hold their member, and the caller may drop it after the call
(`kept`; `_send_impl` does, `async_now_interactions.cpp:120`): a callback that comes after
the last reference is gone reads an arbitrary `_success`, and `misread` records the members of which that
was wrong and mattered.

`Joint` has both as steps of their own. `Early` is the torn look, after which the joint future may have
failed; `Stray` is the member that is gone, of which the opposite of its outcome is then heard. With neither,
`Decide` is the only way to an outcome, and it is the right one.

### Combinators

Up to `MaxPromises` promises, each a source or the result of a combinator on an earlier one.
The reactions that are to run are a set: the dispatcher's order is that of the
registrations on one promise only. SystemTimer's task is a second actor, so
with_timeout's test and resolution are two steps on either side. A handler that
returns a future returns any promise that does not wait for the handler's own
result.

### SystemTimer

The clock has fractions of a millisecond that the code does not see. `PollPop`
takes the top of the priority queue if it is overdue; several requests
with equal deadlines are interchangeable. The task sleeps (`WakeUp`) and polls.

### Timer

Calls of `handle_timers` are frames on a stack, since a callback may call it again.
The reference a frame holds to its entry dangles once the table has grown under it.
`misused` records the two things callers can do that the code does not provide for:
adding to a full table from a callback, and clearing a timer while its callback runs.

### Storage

Two configurations and the default; a file that is missing, whole or torn; the table of
timers with the three that matter: the service loop, the debounced commit and the
delayed reboot. `Crash` may come at any moment, and between the truncation of
the file and the end of the writes. `begin()` accepts a file with the right header
and the right size. A file that cannot be opened for writing, or be written, is a branch of `Commit`: the
code reports "Changes committed" all the same (`misc/storage.h:131`), so nothing else changes.

`saved` is what the program may rely on: the configuration of the last `save_changes()`, and those it became
before the commit, which are saved with it. It is emptied when a write is refused or interrupted and when power
is lost with a commit pending. `SavedIsOnFile` says that, once the commit is over, the
file holds one of them, and that reboots and losses of power leave it there. `promised` counts no
`save_changes()` that comes after `restart()`, where a stale `_save_timer_id` may have it ignored
(`storage.h:174`, `bootstrap.h:113`); `SavedInTime` is silent about those.

### WebSocket

AsyncTCP's task runs `on_event` (`Connect`, `Disconnect`, `Reject`, `Refuse`, `Receive`) and what
MqttServer does with its messages (`Change`, `ProcessNotification`); the main loop runs
`handle_connection`. The ring has no lock, so `_used++` and `_used--` are a load and
a store each (`AcquireLoad`, `AcquireStore`, `PopLoad`, `PopStore`), the slot is filled
after it was published, in two steps (`FillHead`, `FillData`), and read after it was given back
(`Apply`, `Answer`). `handle_packet_data` sets the parameter in `Apply` and notifies and
answers in `Tell`. `view` is what each client takes the parameter for.

`overlapped` becomes true when one of the tasks takes a step while the other is busy.
What holds even then is that no index leaves its range (`TypeOK`, a theorem), that `acquire()` does not fail
(`NeverNull`) and that only whole packets are applied (`OnlyWholeSets`); that requests are
handled once, in order and all of them (`InOrder`, `AllHandled`), and that clients agree
(`ViewsAgree`), is stated up to the first overlap, because it does not hold beyond: two updates of `_used` that cross lose a request or
handle one twice, a request may be taken that is still being copied, and a change by MqttServer between a set and its
answer leaves the sender with a value that is gone.

The three loads of `_used` in one `pop()` (by `can_pop()`, for the index, and by `_used--`) are one
step, `PopLoad`. `acquire()` is the only other writer: it raises `_used` by one, and
moves `_next_index` on in a step of its own, so that the index `pop()` gets is off by one at most, as it is in the model
if `PopLoad` comes between `AcquireStore` and `AcquireAdvance`.

### EspNow

A send is three steps of its caller: `StartSend` (the peer and the promise), `Push` (the queue) and
`HandOver` or `Refuse` (`esp_now_send`). `OnSent` is the WiFi task. `air` is what the driver has
taken and not yet reported, in its order; `fate` records what it reported of each frame, which
the code cannot see, since a report names the peer only. `RegisterPeer`, `UnregisterPeer`
and `End` may come between any two of these steps. `StartSend` is one step for four of the code's (the test of
`_initialized`, `esp_now_is_peer_exist`, `esp_now_add_peer`, the empty queue; `async_now.cpp:56-71`, `92-109`), so
that two callers that register one peer at once, and empty its queue twice, are one after the other
here.

`disturbed` becomes true when the queue and the driver may have come out of step: a refusal
behind other frames, two callers that overtake each other between the push and `esp_now_send`, a new
queue, or `end()`, over frames under way. Up to then `OwnFate` and `AllSettle` hold, and
`NoneInvented` holds for ever.

### Interaction

Nodes send each other messages of one frame or more and put them together again. `info` says what
each message is; what travels are its frames, `channel`. `_on_packet_received` is `Reject`,
`ReceivePart` and `ReceiveLast`: the frame is dropped, counted, or makes the count up, and then the
message goes to the application (`delivered`) or to the request with its id (`Resolve`). `SendSettles`
and `CleanUp` are the two ends of what hangs on AsyncEspNow's futures: the `then` and the
`on_error` of `_request_impl`, which run on the dispatcher after anything else may have happened.

`reused` becomes true when an id is taken while something that bears it is still about, such as a
frame, half a message, or a request: after 256 more, on a counter of eight bits; when parts
were lost, since half a message stays in `_messages` for ever; or when two tasks are in `_id++` at once
(lines 36 and 46), which is no atomic step. (The model takes ids in one step and reuses them by the
first two ways.) Nothing in the code tells the
two uses apart. The properties are stated up to then, but
for the first line of `TableFits`, which holds after it as well; messages go on being made.

Three things are left out. A request to the broadcast address, which NowIo's discovery makes
(`now_io.cpp:70`), may be answered by several nodes under one id, of which all but the first answer are
"unexpected"; here a message has one receiver. The frames of two callers may alternate on their way
to one node (the loop of lines 95-118); here a message's frames enter the channel together. Calls that `_send_impl` refuses at
once (lines 78-85) end as those that lose all their frames and fail.

### Connection

One pass of the service loop in the state READY is `Ready`, which runs WifiManager's
`handle_connection` whole, as nothing else touches its state, and then `Test`, `Reconnect`, `Check`,
`Abort` and `Close`, the steps of MqttServer's, between which AsyncTCP's task runs `OnConnect` and
`OnDisconnect` and the clock may move (`TimePasses`, at most `MaxStale` times). Times are
kept as ages; `stale` is how old the pass's `current_time` is, and `Exceeds` is the unsigned comparison:
a time taken after `current_time` counts as more than any timeout. The environment is the radio
(`LinkUp`), the router and the broker.

`crossed` becomes true when the main loop writes `_state` while a callback is under way, or has just
been. `GivenUpAtOnce` is an attempt that ends in the pass that began it, as the wrapped difference makes it.

## Runs

| Run | Question | Instance |
|---|---|---|
| `dispatcher` | one task; no lost wake-up; FIFO, once each | two tasks, an interrupt and a function that dispatches, three functions |
| `promise` | is a promise a one-shot | two setters, two values or an error, two callbacks, one of which may be refused, one reader |
| `aggregation` | does the joint future do as it should | none, two or three members, resolved at any time, kept or not |
| `system_timer` | order, never early, always | three requests of 0 or 2 ms, half milliseconds |
| `futures` | outcomes and calls explained; chains end | four promises, two values, sequences of at most two steps |
| `timer` | slots, counts, one-shots, the wrap | three timers, growth by one slot, two nested calls |
| `storage` | what survives, what is saved, in time | two configurations, a crash at any moment, writes that fail, two restarts |
| `websocket` | the ring under two tasks; answers and notifications | two clients, three packets, a ring of two, one change by MqttServer |
| `esp_now` | does a future tell what became of its frame | two callers, three frames, two peers of which the driver holds one, two resets |
| `interaction` | messages whole, answers to their own requests | two nodes, four messages of one or two frames, two ids, one loss |
| `connection` | does the device settle and connect; do the states agree | both modes, intervals 0 and 1, two losses, one call of `connect()` by the application |
| `ill_formed` | *violation*: frames of `_send_impl` are called ill-formed | as `interaction` |

Four more configurations are kept beside them, `MCPromiseWinner.cfg`, `MCPromiseFreed.cfg`,
`MCAggregationTorn.cfg` and `MCStorageRestart.cfg`. TLC is meant to fail on each of them: they hold
the counterexamples that the next but one section describes.

### Bounds

* `dispatcher`: races of `begin()` need two callers; the third caller is the interrupt,
  which uses the other entry. Three functions let one be running, one queued
  and one pushed.
* `promise`: a race needs two setters; two values and an error tell a mixture from
  an outcome; the two callbacks fall on the two sides of the resolution. Everything
  the code does afterwards treats callbacks one by one.
* `aggregation`: three members are one that decides, one before and one after
  it; the empty collection is a case of its own in the code.
* `system_timer`: `Timeouts` 0 and 2 with two ticks a millisecond meet both sides of
  the strict comparison; `MaxMillis` stops the clock when the last timer can still run.
* `futures`: `MaxPromises` = 4 lets a combinator hang on another one, with a
  handler's future beside it; `MaxSteps` = 2 is a sequence that goes on and ends.
* `timer`: three timers are one that runs, one that it touches, and one
  elsewhere; `MaxTicks` = 3 passes the wrap, which lies two ticks ahead, and stays below the sentinel
  `Never`, as intervals of less than 49 days do; `MaxDepth` = 2 is a call inside a callback.
  Timers are numbered in the order in which they are added, which loses nothing.
* `storage`: two changes can be told from the defaults and from each other; delays of one or
  two ticks keep the order of the code's delays.

* `websocket`: a ring of two wraps and fills with three packets; two clients are one that sets and one that is
  notified; the third kind of packet is too long, by so much that modulo 2^8 (here 8) it would
  pass for a short one. Requests carry no number: as every sequence of requests is explored, a
  swap or a loss shows in some of them.

* `esp_now`: two callers overtake each other; three frames let one be in the air, one in the queue
  and one refused; room for one peer of two makes registration fail, and a peer come back after
  another one.
* `interaction`: two ids make the third message of a node take a used one. The first
  message has two frames, the last of them one that is accepted or one that is called ill-formed; the
  second has one or two; the last two have two, so that responses come in parts. One message may miss a
  frame, and no more than one frame may be under way to a node when another message is made. Messages of
  more than two parts would, after a reuse, also be written past the end of a shorter one's
  buffer (line 211); what the heap is then is not modelled.
* `connection`: ages stop at `MaxAge` = 3, above every timeout and a clock that is one tick late; an
  interval of 0 is the one that never ends, and `DefaultInterval` stands for the others. Two
  losses are one of the router and one of the broker, or two of either.

`CHECK_DEADLOCK FALSE` is given where the program may stop for good within the bounds: all
promises resolved, the clock at its end.

### Fairness

* The dispatcher task and SystemTimer's task are FreeRTOS tasks that loop for ever: weak fairness of
  their steps. A task inside `set_success`, `set_error` or `on_finished` gets on
  with it. Nobody has to call anything.
* A callback returns. In `Timer` that needs strong fairness of `Return`, as the same callback may
  call `handle_timers` for a while.
* `loop()` calls `event_loop` again and again: weak fairness of the outermost `HandleTimers`.
* AsyncTCP's task gets on with `on_event`, and the main loop keeps calling `handle_connection`; clients
  need not send.
* In `EspNow` a caller gets on with `send`, and the driver reports every frame that it took.
* In `Connection` both tasks run, time passes, also across a pass (strong fairness, as the
  bound on `stale` disables it); the radio joins a router that stays within reach and the broker accepts
  an attempt in the end, if there is no end to the attempts (strong fairness: each attempt may be
  given up before); a client without a network notices. Routers and brokers need not come back. The broker
  owes nothing to attempts that do not outlive the pass that began them: only `ClientUp` with the main
  loop between two passes is fair.
* Time passes in `SystemTimer` and `Storage`; crashes are never fair. `Interaction` states no
  fairness: a frame may be lost, and a request without an answer waits for ever.

## What the runs show of the code

Disagreements between what the code says of itself and what it does. `PROJECT.json` quotes the
lines of the first; the others are in the configurations named.

* `ill_formed`: the test for a part that is neither full nor the last (`async_now_interactions.cpp:174`)
  compares the index with the size of the part, not with the number of parts. The
  short last part of a message is therefore dropped as ill-formed, unless it has hardly more bytes than its index,
  and the message never becomes whole. `AllDelivered` is stated of the others.
* `MCPromiseWinner.cfg`: `Promise<T>::set_success` stores the value and marks the promise in two
  critical sections, so a task that loses can leave its value to the winner (`async/promise.h:118`).
* `MCPromiseFreed.cfg`: dispatched callbacks keep nothing alive (`async/promise.cpp:43`).
* `MCAggregationTorn.cfg`: `all()` takes a member that the other core is resolving for one that failed
  (`async/promise.cpp:92`), even if the members are kept. This is `Early` of `Joint`.
* `MCStorageRestart.cfg`: after `force_save`, `_save_timer_id` names a slot it no longer owns; the next
  `restart()` takes the reboot's timer for a pending save, and the delay starts anew
  (`misc/storage.h:174`).

Limits that the history variables of the new modules describe, each with its behaviour in a few steps:

* `EspNow`, `disturbed`: `_send_order` is popped at the front for a frame that was pushed at the back
  (`async_now.cpp:79`), and replaced with a peer's registration (`async_now.cpp:109`). From then on
  futures may tell of each other's frames, or stay open.
* `Interaction`, `reused`: a request whose id is taken again is cancelled, and its `on_error`, which
  runs later, erases the entry of the request that took the id (`async_now_interactions.cpp:144`):
  the response to that one is then "unexpected".
* `Connection`, `crossed`: the main loop gives an attempt up (`mqtt.cpp:90`) just as the client gets
  through. If `_on_connect` runs after the client was closed, `_state` is CONNECTED with no
  connection, and no branch of `handle_connection` ever leaves that state. If it runs between the
  test and `_connect`, `_state` is CONNECTING with a client that is connected, as for ever.
* `Connection`, `Exceeds`: if the clock moves between `millis()` (`mqtt.cpp:82`) and `_change_state`, the
  unsigned difference of line 88 wraps, and an attempt is given up in the pass that
  began it. `MqttComesUp` shows that the device connects all the same, unless that befalls its attempts for ever:
  without `[]<>GivenUpAtOnce` it is violated. A tick is a millisecond, so this takes a
  preemption, or a `connect()` that lasts, in every one of them.
* A lost connection is sought again for the default interval, not the configured one (`wifi.cpp:72`), so
  even a device told to try for ever becomes an access point after a loss; `_ssid` is then the access point's own name (`wifi.cpp:91`), and
  the router is never tried again. `WifiSettles` counts both as settled. The DNS server is started in
  the state INITIALIZING only (`bootstrap.h:123`), and so not for an access point that comes later.

Two limits met in `WebSocket`: the crossing updates described above, and that a
packet of 256 to 260 bytes is taken into the ring (`WS_MAX_PACKET_SIZE` is 260) but
always refused, since `parse_packet` measures it modulo 256; `WholePacketsOnly` shows that this
is the safe side.

`Timer` shows a limit rather than an error: the parts `ArmedStay` and `NoLeak` of `TableSound`, and
`DueFire`, hold unless `misused`. Nothing in the framework misuses it today;
an application's callback could.

## Proofs

TLAPS proves every invariant that the runs check, and most of their action properties, for any number
of tasks, callbacks, members, timers, messages and values. Each invariant is proved from an
inductive one, which says more; TLC has checked those too, on the instances of the runs.

* **Dispatcher** (`PromiseProofs`): types, at most one dispatcher task, no sleep on a
  non-empty queue without a notification, and that every step is a step of `Executor`
  or none. The invariant adds to the properties where each function is (with its caller, in
  the queue, running or done, once each) and that a sleeping worker with
  work has a notification, or a caller that will give it one.
* **Promise** (`PromiseProofs`): types, finality, that the outcome is one that a task asked for, that
  readers agree, up to the torn look that `ReadersAgree` names, and that
  every step is a step of `OneShot` or none if every callback holds the future
  (`Capturing = Listeners`). The invariant says that the setter between the two writes
  has the lock, that nothing leaves the promise before it has an outcome, that a value in an
  unresolved promise is one some setter stored, that `_success` is only true of a promise that is finished and
  unlocked, and that a callback is in one place at a time. The hypothesis on `Capturing` is the one whose absence
  `MCPromiseFreed.cfg` turns into a counterexample.
* **Joint futures** (`CombinatorProofs`): types, `count_left` is exact, and every step is a step of
  `Joint` or none, for collections of any size, with torn looks and members that are gone: no hypothesis is
  left. Which outcomes those two may lead to is what `Joint` says. `MisreadOK` has
  it that a member is misread only by its callback, and so once.
* **Combinators** (`CombinatorProofs`): types, and that every outcome and
  every call of a handler follows from those of the promises it hangs on (`Explained`), for any number of
  promises. Both with_timeout's reaction and the timer test first and resolve later, and a resolution between
  the two must leave the second one without effect. The invariant says what shape a combinator
  and what hangs on it have (`ShapeOK`, `HungOK`), that one reaction at a time is to resolve a
  promise (`AloneOK`), what holds of the two parties to with_timeout between test and resolution
  (`PartiesOK`), and that a reaction carries the outcome it was made for (`FitsOK`).
* **SystemTimer** (`SystemTimerProofs`): types, never early, in order. The invariant says that a
  queued timer has the deadline its owner asked for and that the timer that is called was overdue
  when popped; the strict comparison then makes up for the fraction of a millisecond.
* **Timer** (`TimerProofs`): types, `TableSound` and `NeverEarly`, for any number of timers, any
  growth of the table, calls nested to any depth and any modulus of the clock. The part that holds whatever callers do says that the
  count of free slots is exact, that an entry is due as was asked since the timer was added or last
  called (or `Never` after a one-shot was called, `EntryOK`), and that a frame on the stack belongs to one call. The part that holds
  until `misused` (`Proper`) says that every slot in use is that of an armed timer or of the one
  frame that runs it, that no frame's reference dangles, and that a timer is twice on the stack only if it repeats; without
  it a return could free a slot that is another timer's by then.
* **Storage** (`BootstrapProofs`): types, that changes are saved in time, that a restart loses none of them, and that what was
  saved stays on file until a write fails or is interrupted (`SavedStays`). The invariant follows the table: the first slot is the service loop's,
  `_save_timer_id` names the slot of any pending commit, and a change that is promised to
  be saved hangs on a commit that is as old as itself, and not late. `MaxRestarts + 2 <= Amount` keeps the
  table from growing: the service loop's timer, the commit's, and one for each restart that is asked
  for, of the `TIMER_GROW_AMOUNT` slots, 8, that the first `add` makes (`Timer` is about the growth).
* **Connection** (`BootstrapProofs`): types, and that MqttServer's state is its client's until
  `crossed`, for any timeouts. The invariant says what the callback under way will report, and that the one state
  in which they may differ without one is between `Abort` and `Close`.
* **WebSocket** (`WebSocketProofs`): types, that `acquire()` succeeds, and that only whole packets set
  the parameter, for a ring of any size and every interleaving. The invariant says that what the main
  loop is about to store into `_used` was loaded from a ring that was not empty, so that its
  store never raises the count to `Size`, and that everything in the ring passed the
  check of `on_event`; the third theorem then rests on `MaxLen < Byte + Header`, as
  260 < 256 + the header. Until the tasks meet, also `InOrder` and `ViewsAgree`. For the first, `Tidy`
  says which slot holds which accepted request: the whole ones lie behind the edge, the newest next
  to it (`RingOK`), at most one more is on its way in (`NetOK`) and at most one on its way
  out (`PopOK`), and together with the handled ones they are all (`HistoryOK`). For the second,
  `ViewOK` says that `_client_count` is the number of connections, so that nobody is left out
  of a notification, and that the slot being answered still holds the value it set.
* **EspNow** (`EspNowProofs`): types, `InStep`, and from it that futures tell the fate of their own
  frames until `disturbed`, and that confirmations are never invented, for any callers, frames, peers
  and resets. The invariant says where a frame can be: it is new, held by one
  caller, or in the air or reported, and no frame is in the air twice. `NoneInvented` is a
  comparison of cardinalities that each report raises on both sides or on the right one only.
* **Interaction** (`EspNowProofs`): types, `Whole`, `AnswersFit`, `TableFits` and `AllDelivered`, for any
  nodes, messages, sizes, ids and losses. The key is `AloneOK`: of everything that is alive under one id of one owner, that is in a
  channel, in pieces, waiting in `_requests`, to be cleaned up or to be responded to, all belongs to one
  exchange. No step but the making of a message begins such a life, so the id
  that `TakeId` found free, or that `Respond` shares with its own request, keeps it true; and it makes the key of a
  frame tell its message. As frames come in order, an entry's parts are then
  different parts of one message, and their count reaches `count` only when they are all there (`PartialOK`, by
  cardinality), and does reach it if none was lost (`CompleteOK`). What holds after an id was reused as well,
  of all the messages made since, is `Always`: the first line of `TableFits` needs only that an entry is an unresolved request of its node
  under its own id.

`SeqFacts` has the lemmas on queues that several of these proofs use; lemmas on one module's
operators stand in front of its proofs.

The type theorems and `PromiseProofs!Finality` are proved and not run again for
the modules that have them: `Dispatcher`, `Promise`, `Aggregation`, `SystemTimer`, `WebSocket`, `EspNow`,
`Connection`. The assumptions are the named ASSUMEs of the modules, which TLC evaluates on every run.

Only model-checked is liveness: the second half of each refinement, chains that end, timers that fire,
reboots that happen, futures that settle, connections that come up, requests that are all handled
(`AllHandled` of `WebSocket`). TLAPS has no rule here for fairness and `ENABLED`. The finding of
`ill_formed` is a counterexample, which needs no proof.

## Not modelled

* `NowIo`: a type and a count in front of a message, and a discovery made of `sequential`, `any` and
  `delay` (`Futures`, `Aggregation`, `SystemTimer`) over the radio's channels. Put together with
  `Interaction` and a channel per radio they are out of TLC's reach. The same holds for
  `discover_peer_channel`.
* `Led`, `Vector`, the typed parameters: sequential code that a unit test reaches. (One line
  read on the way looks wrong: `Led::tick` turns a flash off while `delta < _flash_duration`,
  `misc/led.cpp:102`, so that it ends at its first tick.) `Button` shares counters with an interrupt; it is left out in
  favour of the network, as nothing in the framework depends on it.
* `EventTopic` and `NotificationBus`: lists that grow while the program starts.
* MQTT's topics and payloads; what a message does to a parameter is `Change` in `WebSocket`.
* `Storage::reset` and the migration of a file of another version.
* `wait()` on the dispatcher's own task, which would wait for itself: nothing in the framework calls it there.
* Memory: C++ containers are mathematical ones, except where the code
  itself handles references or lifetimes (`Timer`, `Promise`). Memory that runs out is modelled
  where the code looks (`_grow`, task creation). `_requests`, `_messages` and `_send_order` are changed by two tasks without a
  lock; a race inside `std::map` or `std::queue` is undefined, and `EspNow` and `Interaction` take their
  operations as steps.
* The scheduler and priorities: any interleaving of steps.
* `millis64`'s 64-bit overflow, after some hundred million years.
* The web server, OTA, DNS, NTP, logging, enum and QR utilities: calls into libraries.

## What is left

1. `Discovery` (NowIo) on an abstract `Interaction` that answers or does not, once that abstraction is shown
   to be implemented: `Whole`, `AnswersFit` and `AllDelivered`, which are proved, are what it would promise.
2. An abstract channel that `EspNow` is shown to implement until `disturbed`, for `Interaction` to stand on.
3. `Clicks` (Button and its interrupt).
