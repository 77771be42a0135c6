# Verification of the Solis 4G mini logger

The firmware under `src/src/` runs on an ESP8266. It polls inverters and energy
monitors over RS485 (Modbus RTU), publishes their registers over MQTT, takes
commands over MQTT, and shows its state on two LEDs and a small web server. The
repository carries the libraries it is built with under
`src/.pio/libdeps/d1_mini/`: the asynchronous TCP libraries and ESP Async
WebServer. This directory holds TLA+ models of the firmware and of those
libraries, the TLC configurations that check them and proofs that TLAPS checks.

The models follow the code as it is. Paths below are relative to `src/src/` for
the firmware and to `src/.pio/libdeps/d1_mini/` for the libraries.

## 1. Inventory

The firmware:

| Component | Where | State | Operations | Modelled in |
|---|---|---|---|---|
| Modbus polling | `modbus.cpp` 60-138, 226-391 | `registerValues`, `reachable`, `result`, `lastResult`, `retriesNeeded`, `errorCount` | `request`, `readRegisterSet`, `invalidateRegisters`, getters | `ModbusSlave`, `AtomicPoll` |
| Main loop | `main.cpp` 250-468 | which device and register it is at | `loop`, `updateAll`, `updateInverterValues`, `sendModbusSlaveValues`, `showInverterStatus`, `loopOthers` | `MainLoop` |
| Timer flags | `myTicker.cpp` | three flags | `begin`, `isTimeout*`, `resetTimeout*` | `MainLoop` |
| LEDs | `led.cpp` | two pins, `nightBlinkEnabled`, `Timer1`, `_cnt` | on, off, toggle, night blink on and off, timer callback | `Led` |
| WiFi | `wifi.cpp` | `prevReconnectTryTime`, the station | `wifi_setup`, `wifi_loop`, event handlers | `MqttLink`, `MainLoop` |
| MQTT, PubSubClient build | `mqtt.cpp` 1-227 | `lastReconnectTry`, the client's connection | `begin`, `loop`, `connect`, `subscribe` | `MqttLink` |
| HTTP API | `wifi.cpp` 40-49, 86-90 | `restart` | `/api/restart`, 404 | `WebServer`, `MainLoop` |
| MQTT, ESPMQTT build | `mqtt.cpp` 229-570 | `reconnectMqtt`, message queue | the same, by events; `handleMessages` | `EspReconnect`, `EspCommands` |
| Register writes, relay | `mqtt.cpp` 115-207, `modbus.cpp` 204-224, `relay.cpp` | relay pin; the device's registers | `mqtt_callback`, `writePayload`, `writeHoldingRegister`, `setRelay` | `RegisterWrite`, `AtomicWrite`, `EspCommands` |
| Values | `modbus.cpp` 140-202, `mqtt.cpp` 93-113, `main.cpp` 266-311 | response buffer, values | `readRegisters`, `regToValue`, `getValue`, BCD, `getRepresentation` | `RegisterCodec` |
| Register tables | `inverter.cpp`, `energymonitor.cpp` | constant | none | `RegisterTables` |
| Clock, dashboard, OTA, serial output | `time.cpp`, `main.cpp` 77-248 | | | not modelled (section 8) |

The libraries:

| Component | Where | State | Operations | Modelled in |
|---|---|---|---|---|
| Connection, ESP8266 | `ESPAsyncTCP.cpp` | the `AsyncClient`, its `ACErrorTracker`, its pcb, the two TX lengths | accept, connect, DNS, send, ack, receive, poll, error, close, abort | `AsyncClient` |
| Connection, ESP32 | `AsyncTCP.cpp` | event queue, closed slots, clients, pcbs | lwIP's callbacks, the async task, calls into lwIP, close | `AsyncTcpTask` |
| Buffered client | `ESPAsyncTCPbuffer.cpp` | read mode, receive buffer, chain of send buffers | read, write, ack, poll, stop | `TcpBuffer` |
| HTTP request | `WebRequest.cpp`, `WebServer.cpp`, `WebHandlerImpl.h` | the parser, the chosen handler, the parameters | a segment, an ack, a time-out, a disconnect | `WebRequest`, `WebMultipart` |
| HTTP response | `WebResponses.cpp` | state, lengths, cache of the template | `_respond`, `_ack`, filling of a buffer | `WebResponse`, `WebTemplate` |
| WebSocket | `AsyncWebSocket.cpp` | message and control queues, shared buffers, `_pinfo` | text to all, clean up, close, poll, ack, receive | `WebSocket`, `WebSocketFrames` |
| Server-sent events | `AsyncEventSource.cpp` | queue of each client | connect, send, ack, poll, close | `EventSource` |
| Files, authentication, SSL, wrappers | `SPIFFSEditor.cpp`, `WebHandlers.cpp`, `WebAuthentication.cpp`, `tcp_axtls.c`, `SyncClient.cpp`, `AsyncPrinter.cpp` | | | not modelled (section 8) |

How they interact. `loop()` calls `loopOthers()` (`wifi_loop`, `MQTTClient.loop`)
and `updateAll()`. `updateAll()` looks at the timer flags and starts *bursts*:
for each device of a list `request()`, `sendModbusSlaveValues()` and
`loopOthers()`, with another `loopOthers()` after each register that is
published. There is one processor and no preemption. What runs concurrently is
the SDK's callbacks (Ticker, `os_timer`, WiFi events, the asynchronous web
server), at every `yield()`, `delay()` and network or serial wait. They share
with the loop: the timer flags, the LED pins and the blink counter, and
`restart`. Outside the chip are the Modbus devices, the access point, the
network and the MQTT broker, each of which fails on its own.

The web server runs entirely in lwIP's callbacks. A connection (`AsyncClient`)
hands what it hears to a request, which chooses a handler and makes a response;
the response, and the queues of WebSocket and server-sent events, are fed by the
connection's acknowledgements and its poll. On the ESP32 the same callbacks run
in a task of their own, behind a queue that lwIP's thread fills.

What is hard, and what makes each component correct:

* **Polling.** A device is read in several transactions, each with retries; any
  may fail. Correct: afterwards the device shows one poll or nothing, and the
  published status belongs to it.
* **Main loop.** Ticks, events and requests arrive in the middle of bursts that
  take seconds. Correct: no poll is swallowed, the MQTT client is serviced, a
  restart is prompt, no branch starves another.
* **LEDs.** Two writers for each LED. Correct: they end in what was last decided.
* **Connections to WiFi and broker.** Each end learns of a loss in its own time;
  the broker keeps retained messages and old sessions across crashes. Correct: a
  lasting connection is complete, "online" is never orphaned, retries are spaced
  and the logger comes back.
* **Commands.** A write may be lost before or after the device has carried it
  out, and commands come while others are handled. Correct: what is answered is
  true, each is handled once, and none is left behind.
* **Numbers.** Signs, word order, scales, BCD and the windows of the tables.
  Correct: what is published is what the device holds, and the next poll shows
  what was commanded.
* **TCP clients.** Handlers delete, close and abort the object whose callback is
  running; on the ESP32 two threads race for one pcb. Correct: nothing freed is
  used, every end is reported once, no closed client hears another event, the
  lengths agree with lwIP's.
* **HTTP, WebSocket, events.** A stream is cut anywhere, in both directions; the
  send buffer is small; memory and writes fail. Correct: what is sent is received
  whole, once and in order, and every exchange ends.

`PROJECT.json` lists every hazard at its line with the properties that cover it.

## 2. Modules

```
ModbusSlave ---- implements ----> AtomicPoll
   ^                                  .
MCModbusSlave, ModbusSlaveProofs      . a poll is one step of
                                      v
Led <-- MainLoop <-- MCMainLoop, MainLoopProofs

RegisterWrite -- implements ----> AtomicWrite
   ^                                  .
   |                                  . a write is one step of
   |                                  v
   |    EspReconnect, EspCommands <-- MCEspMqtt <-- EspMqttProofs
MCRegisterWrite --> RegisterCodec, RegisterTables
   ^
RegisterWriteProofs

MqttLink <-- MqttLinkProofs           WebServer

MCTcp --> AsyncClient, AsyncTcpTask, TcpBuffer
   ^
TcpProofs

MCWebHttp --> WebRequest, WebMultipart, WebResponse
   ^
WebHttpProofs

MCWebPush --> WebSocket, WebSocketFrames, EventSource, WebTemplate
   ^                     ^
WebPushProofs            MCWebSocketFrames
```

`MCTcp`, `MCWebHttp`, `MCWebPush`, `MCEspMqtt` and `MCRegisterWrite` hold several
components that share no state. Interleaving them would multiply the states and
show nothing new, so a variable `part` says which one a behaviour is of; the
others stay at one of their initial states. The parameters of the parts are
CONSTANTS of the composing module, so that a theorem about a part is one for all
of their values.

### ModbusSlave: one device being polled

A step is one transaction on the bus and what the code does with its outcome up
to the next transaction.

| Action | Code |
|---|---|
| `Request` | `request()` up to the first transaction; `lastResult = result` |
| `TimeoutAndRetry` | a time-out while `retries > 0` after the decrement |
| `ReadSet`, `ReadLastSet` | success: `retriesNeeded`, `registerValues`; after the last set `reachable` |
| `GiveUp(r)` | any other result, or the last try's time-out: `errorCount`, `invalidateRegisters`, not reachable |

A register's value is abstracted to the number of the poll that read it, which
is what "stale" and "torn" are about. `RegisterSets` is any sequence of address
sets. `polls` and `transactions` are histories; `MaxPolls` bounds the first.
Delays between transactions let callbacks run, but no callback touches a device:
in both builds commands are executed from `MQTTClient.loop()`.

`AtomicPoll` is what the rest of the firmware may rely on: `Answered` or
`NotAnswered`, each a single step. `PollIsAtomic` is the refinement. Its mapping
(`Seen`) says what a reader sees: readers run between polls only, so during a
poll they have last seen the outcome of the poll before.

### Led and MainLoop

`Led` has the LED operations as functions on a record of the pins and the blink
timer. The code's "green" LED is the blue pin. 41 ticks of 0.5 s (`BlinkPause` =
40 dark ones and the flash) are the "0,5s on 20s off" of `README_old.md`.

`MainLoop` is the loop of `main.cpp` as a state machine. `pc` is where it is;
`loopOthers(k)` runs `wifi_loop` and `MQTTClient.loop` and goes on at `k`. Each
step is the code between two yields or less, and every callback is an action
enabled everywhere. A whole poll is one step (`PollDevice`): nobody reads the
device or the flags while it runs, and `ModbusSlave` shows it to be indivisible.
The action that follows a poll is `BeginSend`, and `SendRegister` is one
published register with its `loopOthers`.

* `Restart` initialises the RAM and runs `setup()`, whose end is `Init`. After
  `wifi_setup` the yellow LED may be on or off: its last toggle can come after
  the GotIP event's `yellowOff`. `settled` is the history that it was switched
  off since; until then nothing is claimed.
* `StatusSent` resets the flag after sending, as the code does: a tick in between
  is lost, and `PollTickKept` therefore speaks of the two poll timers.
* Histories: `owed` (ticks with no burst yet), `unserviced` (polls since
  `MQTTClient.loop`), `overdue` (polls since a restart request), `shown` (the
  last decision of `showInverterStatus`). The two counters saturate at 2, one
  above what the properties allow.
* `wifi` is what the event handlers were last told; the real state of the
  station belongs to `MqttLink`.
* What a register's payload looks like, and that it is sent even when it is not
  valid, is left out.

### MqttLink: WiFi, MQTT client and broker

Time is in ticks of 500 ms, the `delay` of `wifi_setup`. `pc` is where the
firmware is in `wifi_setup` / `wifi_loop` / `MQTTClient.loop` / `connect`.
`StepTime` bounds the ticks one step takes. `now` wraps at `Wrap`, as
`millis()` does at 2^32.

* The client's view of the connection (`connected`) and the broker's
  (`session`) are separate; `attached` says whether they are still each other's.
  Packets on the way are `wire`; a lost socket loses them.
* `WifiRejoin` is the retry in `wifi_loop`: it abandons an attempt under way.
  `SetupRestart` is `ESP.restart()` after `SetupTries` looks.
* `ConnectLost` and `ConnackLost` are the two ways a CONNECT fails: unseen, or
  accepted by a broker whose answer is lost. A session taken over publishes its
  will (`BrokerAccepts`).
* `Crash` and `Unplug` happen between any two steps. The broker keeps what it has.
* `calm` marks the moment from which the environment behaves. The `punctual`
  guard keeps time from passing over an access point that owes its answer.
* Several subscriptions are one packet, and `reconnectCounter` is left out.
* External, modelled from how the code relies on them: broker, socket, station.

### RegisterWrite: a command for a holding register

A step is one transaction on the bus. `writePayload` is the message with the
value (what `getValue` makes of the payload), `Retry` a try that timed out with
another left, `Publish` the last try and its result on the result topic.

* `Outcome` is the device and the wire: a request is carried out or not, and the
  answer may be lost or garbled either way. A refusal (an exception) means that
  nothing was done. Changes at the device's own panel are not modelled.
* Commands run inside `MQTTClient.loop()`, one after the other and never during
  a poll, in both builds, so there is one at a time.
* `AtomicWrite` is what the sender may rely on. `WriteIsAtomic` is the refinement:
  the effect is the first transaction that is carried out; repeating it shows
  nothing, because the same value is written again.

### EspReconnect and EspCommands: the ESPMQTT build

`EspReconnect` is `loop()`, `connect()` and the connection's callbacks. The
callbacks run whenever the client does, which is between any two runs of
`MQTTClient::loop()`. Arming the reconnect (`Arm`) is the same pair of
assignments in `connect()` and `onMqttDisconnect()`. `onMqttDisconnect` arms
nothing without WiFi, and the call that would have made up for it in
`onWiFiConnect` is commented out (`wifi.cpp` 28): such a logger stays
`Stranded` until it restarts. `blind` is the history of that, and
`StrandedOnlyBlind` and `ComesBack` say that nothing else strands it.

`EspCommands` is the vector of messages. `onMqttMessage` pushes wherever
`mqttClient.loop()` may run: in the main loop, while values are published, and
inside the `sendPayload()` that answers a command (`pc = "answer"`). On the
ESP8266 that is the only way the callback runs, so it never meets `popMsg()`
half-way and the two locks are never seen raised. `handleMessages` is `popMsg`
with all that handling the message does; a write is one step there
(`RegisterWrite`). Messages are taken from the back: `AwaitedOrderKept` is what
remains of order. Payloads delivered in pieces are left out.

### WebServer

The two routes, against the endpoints of `docs/json-api.md`.

### RegisterCodec and RegisterTables: the numbers

`RegisterTables` is the tables as the firmware builds them: addresses, types,
denominators, windows. `ReadSet` reads one window into the response buffer (whose
older words stay behind it), and converts each register of the set.
`WriteRegister` is a command's payload through `getValue`, the scaling and the
conversion to a word. A payload is a number of hundredths (1 / `Parts`), so that it
may have a fraction; `strtol` drops the fraction and keeps to the range of a `long`.
What is commanded is therefore not what is published: "55.50000", as the firmware
publishes a register with two decimals, comes back as 55 when it is sent as a
command. No document promises commands with decimals, and `CommandIsShown` is about
the whole part. The device's memory is what `Content` makes of an address,
so that neighbouring words differ. A value is the integer the code scales, with
its denominator. `MCRegisterWrite` takes the devices, the width of a word and the
buffer as CONSTANTS and states what the tables must fulfil as assumptions, which
TLC evaluates on the firmware's tables.

### AsyncClient: one connection on the ESP8266

lwIP runs one callback at a time, so a callback is one action, with everything
the user's handlers do in it.

| Action | Code |
|---|---|
| `Begin`, `End` | `AsyncServer::begin`, `end` |
| `Accept` | `AsyncServer::_accept`, the constructor and `onClient` |
| `Resolve`, `Connect` | `connect()` by name and by address |
| `DnsFound`, `Connected` | `_dns_found`, `_connected` |
| `Sent`, `Recv`, `PeerCloses` | `_sent`, `_recv` with data, `_recv` without |
| `Poll` | `_poll`: the deferred close, the acknowledgement time-out |
| `CallbackError`, `Error` | `_connected` and `_recv` with an error; `_s_error` |
| `Foreground`, `Destroy` | calls of the program between callbacks; `~AsyncClient` |
| `Tick` | `millis()`, up to the time-out |

`Reactions` is what a handler may do: nothing, add, send, write (with failures of
`tcp_write` and `tcp_output`), ask for a close, close now, or close when lwIP
refuses and the connection must be aborted. `deletes` says that `onDisconnect`
deletes the object. The tracker decides what the callback returns to lwIP
(`getCallbackCloseError`). The lengths are `size_t`: modulo `W`.

### AsyncTcpTask: one connection on the ESP32

Two threads. lwIP's (`lwip`) reads callback and argument in one step and sends
the event in a later one: `accept`, `Callback`, `Error`, `Fin` (`_lwip_fin`),
`Send`. `Api` executes what the task asked of it.

The task (`task`) takes an event (`Get`), runs its callback (`Run`, with what the
program does in `React`, `Return` and `After`), and closes: `Close`
silences lwIP, `ClearEvents` puts a marker in front of the queue, `TcpClose` asks
lwIP to close, `Abort` aborts where that fails, `Discard` calls `onDisconnect`.
`TcpClose` looks at `_pcb` again, as `_tcp_close` does: where `_lwip_fin` has cleared
it since `Close` looked, the task makes no call and does not wait for lwIP's thread.
`overtaken` is the history of that. That `_lwip_fin` comes between the check and the
five calls that silence lwIP is left out.
When it comes to the marker it takes the client's events out one at a time,
putting the others back (`First`, `Back`, `Rest`), and lwIP's thread may add to
the queue between. A client is identified with its pcb, and an address is not
used twice.

### TcpBuffer

A byte is its position in its direction, so that a lost, repeated or misplaced
one shows. `Data` is `_rxData` with the three read modes, run on until the data
or the program's interest ends; `Request` the program's reads, `Write` its
writes into the chain, `Ack` and `Poll` what sends on; `Stop` and `Disconnect`
the two ends. Faults are the heap and `tcp_write` or `tcp_output`.

### WebRequest and WebMultipart

`Segment(n, reaction)` is `_onData` with the next `n` tokens and all that follows
from them, the handler included. A line is two tokens and `NewLine`, so that a
segment can end in it. `RespondLater`, `Acked`, `AckTimeout`, `PollCloses` and
`PeerCloses` are the rest of the connection's life. `WebMultipart.Byte(last)` is
`_parseMultipartPostByte`, one byte and whether it ends its segment.

### WebResponse and WebTemplate

`Respond`, `Acked` and `Poll` are `_respond` and the two callers of `_ack`, for
all classes of responses; `Printed` adds to an `AsyncResponseStream`; `Timeout`
is the connection's. Faults are a failed write, no memory, `RESPONSE_TRY_AGAIN`
and a file that is not valid. `WebTemplate.Fill(size)` is
`_fillBufferAndProcessTemplates` for a buffer of `size` bytes. `rest` is the cache
and the content behind it, which the code reads in that order. Of `MCWebPush` it is
the part "template", where `rest`, `out` and `done` are `unread`, `page` and `ended`.

### WebSocket and WebSocketFrames

`TextAll` makes the buffer of a message to all and `Text` is one turn of its loop
over the clients, with the cleanup after the last; `todo` is who is left.
`CleanupClients` and `Close` are the program's other calls; `Connects`,
`Poll`, `Ack`, `Drops` the connection's callbacks; `PeerCloses` and `PeerPings`
received control frames. Sending a frame is cut to the room of the connection; a
buffer is shared by the clients that have a message of it and is swept when none
has. `order` is the list of the clients, which the code counts and walks over, and
from which `remove_first` takes one.

In `WebSocketFrames` a byte is its position in the stream: the peer's frames lie
behind each other (`Laid`), TCP has brought the bytes up to `arrived`, and
`_onData` has taken those up to `taken`. A `Segment` arrives and `Turn` is one turn
of `_onData`'s loop. An event holds the first position and the number of its bytes,
and the copy of `_pinfo` that the program gets with them. A header is one position
and arrives whole. `pinfo.num` and `pinfo.message_opcode` are not initialised in the
code: any value of `Garbage`. The code sets them only for frames that do not arrive
whole, and `DataWhole` claims no more of them (`Announced`).

### EventSource

`Request` is a new client, `Send` an event to all, `Ack` and `Poll` what the
connection reports, `Close` and `Disconnect` the ends. Acknowledgements count
bytes, and are charged to the queue from its front. `runQueue` and `onAck` are the
code's loops, as recursive functions.

## 3. Runs

| Run | Specification | Checks | States |
|---|---|---|---|
| `modbus_slave` | `MCModbusSlave!MCSpec` | `ShowsOnePoll`, `PollIsAtomic` | 2,314 |
| `register_write` | `MCRegisterWrite!MCSpec` | `AnswerIsTrue`, `WriteIsAtomic` (write); `PublishedIsHeld`, `CommandIsShown` (codec) | 6,417 |
| `main_loop` | `MCMainLoop!FairSpec` | `PollTickKept`, `ServicedBetweenPolls`, `BlueShowsDevices`, `TicksServed`, `LedFollowsDevices` | 101,936 |
| `main_loop_wifi` | `MCMainLoop!Spec` | `WifiLossIsShown`: violated (section 7) | |
| `mqtt_link` | `MqttLink!FairSpec` | `AnnouncedAndSubscribed`, `NoOrphanOnline`, `RetriesSpaced`, `Recovers`, `GoneIsNoticed` | 199,380 |
| `esp_mqtt` | `MCEspMqtt!MCSpec` | `StrandedOnlyBlind`, `ComesBack` (reconnect); `AnswersHold`, `QueueSound`, `AllHandled` (commands) | 15,478 |
| `tcp` | `MCTcp!MCSpec` | `CallbacksSafe`, `DisconnectReportedOnce`, `TxAccounted`, `CloseHappens` (client); `ClosedIsSilent`, `SlotGuardsPcb`, `Drains` (task); `BytesInOrder` (buffer) | 197,645 |
| `web_http` | `MCWebHttp!MCSpec` | `HandledWhole`, `ConnectionEnds` (request); `ItemsAsSent` (multipart); `WholeResponse`, `Completes` (response) | 38,449 |
| `web_push` | `MCWebPush!MCSpec` | `MessagesIntact`, `BuffersHeld`, `CloseAnswered` (socket); `DataWhole` (receiver); `EventsWhole` (source); `Expanded` (template) | 304,988 |
| `web_server` | `WebServer!Spec` | `DocumentedIsServed`: violated (section 7) | |
| `web_socket_control` | `MCWebSocketFrames!Spec` | `OnlyMessagesSeen`: violated (section 7) | |
| `event_source_acked` | `EventSource!Spec` | `AckedWasSent`: violated (section 7) | |

What some properties say, and where they stop:

* `BlueShowsDevices` is about the devices alone: the blue LED stays as it is when
  WiFi is lost, which the LED table has otherwise (section 7).
* `QueueSound` does not order the commands that wait together, which the code takes
  from the back of its vector: no document promises an order.
* `ClosedIsSilent` has two exceptions, and in both the code delivers an event to a
  client that it has deleted. After a reset the queue is not cleared. And where
  `_lwip_fin` cleared `_pcb` between the check in `_close` and `_tcp_close`
  (`AsyncTCP.cpp` 808, 816), nothing waits for lwIP's thread, which may send the fin
  event that it holds when the removal is over. It is that one event only.
* `SlotGuardsPcb`: the closed slots keep a call of the task from a freed pcb. It
  excepts a client that found no slot, one whose slot was given to a newer
  client, and a reset, which marks none: there the code has no guard.
* `Drains` is about behaviours whose queue is not full again and again. Where it is
  full, lwIP's thread waits for room and the task may wait for lwIP's thread, for
  ever: the code has nothing against that deadlock, and no property excludes it.
* `TxAccounted` and `BytesInOrder` except a failed `tcp_output`, after which the
  code has forgotten bytes that lwIP holds.
* `DisconnectReportedOnce` excepts a `connect()` that fails in `_dns_found`: nobody
  is told.
* `HandledWhole`: a request with bytes after its body in the segment of the
  body's end is never handled (`WebRequest.cpp` 170), and is left to its time-out.
* `WholeResponse` excepts a piece of content that had to wait while the head was
  unsent, after which the head is not counted against the room.
* `Expanded` excepts `%%` (split over the end of a buffer, it is not recognised,
  `WebResponses.cpp` 402, 420) and a value longer than its placeholder by more
  than a byte (its tail is lost when the content ends first, 456).
* `BuffersHeld` is about the counts and the locks of shared buffers. `_cleanBuffers`
  removes from the list it walks over; here it is a filter.
* `CloseAnswered` excepts a client with a failed frame, which blocks its queues.

Bounds, and why they are enough:

* `modbus_slave`: three sets (first, middle, last; one of two registers), the
  code's three tries, three polls, so that a good, a failed and another poll
  follow each other in every order. `MCSpec` adds a stutter at `MaxPolls`: the
  firmware goes on, the model's bound ends.
* `main_loop`: devices of both lists with 0, 1 and 2 registers, so that the
  loop over registers is skipped, entered once and repeated. `BlinkPause` 2
  keeps the flash, the first dark tick and a later one apart. `main_loop_wifi`
  has one device in each list and one register.
* `mqtt_link`: a clock that wraps at 7 with intervals of 2, so that every
  comparison meets the wrap in every phase; `JoinTime` 1 is shorter than the
  retry interval and than the patience of setup, as `JoinAssumption` says (the
  code has 30 s and 120 s). A step takes at most one tick, less than an
  interval, as in the code. With steps as long as the interval the logger could
  abandon every attempt to join.
  `CHECK_DEADLOCK FALSE`: a logger that is unplugged has stopped.
* `register_write`: three values, so that old, new and another differ; the code's
  three tries; one exception and one garbled answer; three commands, so that a
  register's value can come from the command before the last. The codec has the
  real tables, three memories, and payloads at and beyond the limits of each
  type and of a `long`, with and without a fraction. Words have 15 bits and a
  `long` 21, because TLC's integers have 32.
* `esp_mqtt`: the clock and interval of `mqtt_link`; the main loop may take as
  long as the interval for one round. A relay, a register and a topic that
  nothing answers to; three commands, so that one can be answered while another
  waits and a third comes.
* `tcp`: a send buffer of 2 and lengths modulo 4, so that they wrap; a time-out
  of 2 ticks; every reaction in every callback. Two clients, one closed slot and
  a queue of 3, so that a slot is given again and the queue gets full; four
  events. The buffer: read sizes 1 and 2, terminators at 2 and 5, segments of up
  to 3, buffers of 2 in a room of 3, so that each is crossed.
* `web_http`: nine requests (with and without a body, form, text, raw, `Expect`,
  upgrade, bytes after the body), segments of up to 8 tokens. A boundary of two
  bytes with contents that break off the delimiter at each of its bytes. Send
  buffers smaller than head and chunk and larger; two faults.
* `web_push`: two clients, of which `cleanupClients` keeps one; a send buffer of
  12 for messages of 6 and headers of 2, so that the second is cut; queues of 2;
  one fault. Streams of up to four frames with 0, 1 and 3 bytes and a control
  frame between. One browser and four events of 1 to 3 bytes in a room of 3.
  Pages: rooms of 1 to 8 bytes and all contents of up to four pieces.
  `event_source_acked` has five events, `web_socket_control` a ping and a text.

`CHECK_DEADLOCK FALSE` in the runs of the libraries: a closed connection, a
handled request, a sent response have stopped, and the bounds end the others.

Every property of a passing run has a mutant in `PROJECT.json`: a plausible slip
in a mapped definition under which the run reports that property. The mutated
forms are defined in the modules, as "Defect", and no action uses them.

## 4. Fairness

* `ModbusSlave` has none: its properties are safety and a refinement.
* `MainLoop`: `WF(Loop)`, because every call in it returns; `WF(Tick(t))` and
  `WF(BlinkTimer)`, because Ticker and `os_timer_arm(..., true)` are periodic.
  None for devices, WiFi or HTTP clients.
* `MqttLink`: `WF(Firmware)` and `WF(Tick)` for the same reasons; weak fairness of
  `ClientNotices` and `BrokerNotices` (both ends have keep-alive timers), of
  `BrokerReceives` (TCP) and of `Joined` (an access point answers who waits).
  Nothing makes the environment calm: `Recovers` says what follows if it is.
* `EspReconnect`: `WF(loop)` and `WF(Tick)`; weak fairness of the two callbacks,
  since an attempt is answered or times out and a dead connection fails its
  keep-alive; `WF(WifiBack)`, because `wifi_loop` rejoins (`Recovers` of
  `MqttLink`).
* `EspCommands`: `WF(loop)`. None for the messages.
* `AsyncClient`: `WF(PollAny)`: lwIP polls every connection it has.
* `AsyncTcpTask`: `WF(TaskNext)` and `WF(Fin \/ Send \/ Api)`: the scheduler runs
  both threads, and a call that was asked for is executed.
* `WebRequest`: `WF(PollCloses)`, lwIP's poll with the time-outs it checks.
  `WebResponse`: `WF` of the handler's sending, of `AckedAny` (TCP acknowledges,
  or the time-out closes) and of `Poll`.
* `WebSocket`: `textAll()` returns, and the poll, and the acknowledgement, of each
  client. The last two are written as `[]<>~Due \/ []<><<A>>_vars`, which is their weak fairness with the
  enabling condition spelt out.
* `WebMultipart`, `WebTemplate`, `WebSocketFrames`, `EventSource`, `TcpBuffer`,
  `RegisterCodec`: none.

## 5. Proofs

TLAPS proves the following for every value of the constants allowed by the named
`ASSUME`s (a table with at least one set and `maxModbusReadRetries > 0`; any two
lists of devices; any intervals below the wrap of the clock; any send buffer
smaller than the wrap of the lengths; writes, segments and buffers of any size).

`ModbusSlaveProofs`: `TypeCorrect`, `OnePollIsShown`, `PollIsBounded`,
`PollRefinesAtomicPoll`. The invariant `IInv` adds to what is checked what holds
while a poll is under way: every set before `irsPos` was read by this poll
(`Progress`), the transactions used so far fit the position and the tries left
(`BudgetLeft`), and a poll starts with the first set and all tries
(`LocalsAtRest`). The refinement follows: only `ReadLastSet` and `GiveUp` change
what a reader sees, by `Answered` and `NotAnswered`; `Request`,
`TimeoutAndRetry` and `ReadSet` are stutters.

`MainLoopProofs`: `TypeCorrect`, `NoPollTickLost`, `ServedBetweenPolls`,
`BlueLedFollowsDevices`, `YellowIsPaired`. That the MQTT client is serviced and a
restart prompt is not inductive: it needs to know where the loop can be after a
poll (`ServicedElsewhere`, `RestartAhead`). A device is at hand while one is
being sent (`DeviceAtHand`). The lemmas on the LED operations say what each
changes, so that the steps need not look into them.

`MqttLinkProofs`: `TypeCorrect`, `SessionIsComplete`, `OnlineHasASession`,
`RetriesAreSpaced`. The invariant says which packets can be on the wire at each
point of `connect()`, and what the broker has made of the session when they have
arrived (`WireInStep`), and that a live socket is the broker's session and the
client believes in it (`SocketInStep`). For the retries it says that up to the
interval the difference of the clock to the time of the last attempt is the time
that has passed, whatever the clock wrapped to in between.

`RegisterWriteProofs`: `TypeCorrect`, `AnswersAreTrue`, `CommandIsBounded`,
`WriteRefinesAtomicWrite`. The invariant adds that while a command is under way
its tries are counted and the device holds the old value or the new, the new
only after a time-out (`UnderWay`, `OldOrNew`). Of the numbers it proves
`CodecInvariant`, `PublishedIsHeldAlways` and `CommandIsShownAlways`, for words of
any even width from a byte up, and not for the firmware's tables alone but for all
that meet four assumptions, which TLC evaluates on the firmware's: the window of a
set contains its registers whole and fits the response buffer, for discrete inputs
its first word; holding registers are single words without a sign, and no register
of another type has the address of one. The invariant `CodecInv` says that the
memory holds a word at every polled address, that the set that was read belongs to
a device, and that the register of the last command still holds what was written
for its payload. The step that reads is lemma `ReadIsHeld`, a case for each type of
register: `BitOfSum` for bits packed into a word (by induction on their number, with
the powers of two of a word), `SignOfLong` for two's complement in two words,
`BcdOfWord` and `DecimalOfBcd` for decimal digits.

`EspMqttProofs`, of both parts of `MCEspMqtt`. The reconnect: `TypeCorrect`,
`NeverConnectsTwice`, `OnlyABlindLossStrands`, `RetriesAreSpaced`. The last is for
every width of the clock: up to the interval `millis() - lastReconnectTry`, modulo
the width, is the time since the loss (`ClockInv`), because the interval is less
than the width. After it the two may differ, and no longer matter: the attempt is
due. The commands: `CommandsTypeCorrect`, `AnswersStayTrue`, `QueueIsSound`, for
any registers and values (`CommandsAssumption`: the relay is a target, the unknown
topic is none). The invariant adds that every received command is waiting or
handled, and none is both (`Counted`), and whose value each target holds
(`Newest`). Two lemmas say what taking from the back of the vector, and appending
to it, do.

`TcpProofs`, of the ESP8266's connection in `MCTcp`: `ClientTypeCorrect`,
`CallbacksAreSafe`, `EveryEndIsReportedOnce`, `LengthsAgree`. A callback is a composition of the
library's methods and the handlers' reactions, on a record. So the argument goes
by method: `Sound` holds inside a callback (the object has a pcb exactly while
lwIP has an established connection for it, and no end was reported while it
lives), `Tells` says that the tracker knows of an abort, and `Resting` is
what both leave when the callback returns. `CloseSound`, `SendSound`,
`ReactSound` and their like show that a method keeps `Sound`; `ReturnRests` that
the return re-establishes `Resting`; `ClientStepKeeps` puts them together by action.
`LengthsAgree` repeats it for the lengths (`Accounted`), with two lemmas on
arithmetic modulo `W` (`AddOne`, `TakeSome`).

`TcpProofs`, of the ESP32's two threads in `MCTcp`: `TaskTypeCorrect`,
`NoEventAfterClose`, `CallsReachLivePcbs`, for any clients, slots and length of the
queue. That a closed client hears nothing is far from inductive: when it closes,
its events may be in the queue, in the hands of lwIP's thread, or out of the queue
while the task sorts it. The invariant (`TaskInv`) has four layers. `Basics`: what
each thread holds at each of its points, which pcbs live, and that a client and its
slot point at each other (`SlotsInv`, `Guard`). `Marks`: a client has at most one
marker and one removal (`Distinct`), a client whose callbacks were taken from lwIP
sends nothing new (`Mute`, `Fresh`), and every closed client's marker is on its way
(`Clears`). `Order`: the queue can be cut so that each event of a closed client is
behind its marker or among those that the removal under way will still visit.
`Silent`: the property. The two exceptions are in the invariant as they are in the
property: the layers speak of the events that are not `Muted`, all but the fin of a
client that was overtaken.

`TcpProofs`, of the buffered client in `MCTcp`: `BufferInvariant`,
`EveryByteInOrder`, for any sizes of segments, buffers and requests and any
terminators. Reading: each of the three ways to take received bytes, the loop
around them and `_rxData` keep the sequence of what the program was given, what
waits in the buffer and what is still in the segment (`Keeps`, `Going`). Writing:
what lwIP took and what the chain holds is what was written, no buffer of the chain
is fuller than its size, and no more is in flight than there is room for (`InPlace`).
Four lemmas say what the concatenation of the chain becomes when bytes are put into
its last buffer, a buffer is added, bytes are taken from the first, and the first
one goes (`FlattenLast` ... `FlattenTail`).

`WebPushProofs`, of the four parts of `MCWebPush`. The socket: `SocketInvariant`,
`MessagesReassembled`, `BuffersInUse`, for any clients, bounds and sizes. The
invariant (`SocketInv`) says of each client that its queue is in the order of the
buffers, only its front is begun, and the peer has read exactly what the front has
sent (`Sound`); of each buffer that its count is the number of clients that have a
message of it queued (`Counted`); and of `textAll()` that those it has not come to
(`todo`) have nothing newer than the last buffer, which exists until it returns.
The count is what frees a buffer, so that it is never freed early is the count
being right through every way a message leaves a queue. The receiver:
`FramesReassembled`, for any streams of frames and any cuts. `ReceiverInv` adds
where the code is in the frame under way (`InStep`: `pinfo` is that frame's header,
and `index` how much of it was taken), that what was announced is behind
it (`InOrder`), that a frame under way has been announced up to here with the `pinfo`
that it goes on with (`Carried`), and that nothing before it was left out (`AllGiven`).
The events: `EventsStayWhole`, for any browsers, lengths and room. `SourceInv` adds that an
event in a queue was sent as a whole or not at all, and in the second case
has no byte in the stream (`QueueFits`), and that the numbers in the stream are those
of events that were made (`Numbered`).

The pages, also in `WebPushProofs`: `PageInvariant`, `ExpandedAlways`, for any texts,
names and values without a percent sign, names of 1 to `NameLength` bytes
(`TextAssumption`) and any sequence of rooms. `PageInv` says that the page the browser
got, followed by what the unread text is to be shown as, is the expansion. What a text is
to be shown as (`Means`) is said from its end: plain text in front of a placeholder in
front of a text of which it is said already. So a placeholder can be replaced in the
middle of a text and the rest keeps its meaning, and plain text can be taken from the
front (`TextOff`). A turn of the loop looks at the first placeholder, which is behind the
end of the buffer, within the buffer or across its end (`BufferEnds`). It is replaced by
its value in the two latter cases (`ClosedIs`, `AheadIs`, `ReplacedIs`), and what of the
value has no room goes back in front of what is unread. Each turn leaves a buffer of
plain text or one placeholder fewer (`TurnIs`), and a text has no more
placeholders than bytes (`MeansEnough`), so that the model's bound on the turns is never
what ends the loop (`LoopIs`).

`WebHttpProofs`, of the responses in `MCWebHttp`: `ResponseInvariant`,
`WholeResponseAlways`, for any lengths of head, content and chunk frames and any send
buffer that holds more than a frame (`ResponseAssumption`). The invariant
(`ResponseInv`) says that what was written, without frames, followed by what is left
of head and content is the response (`Given`). That is not enough: the code never
looks whether content is left, but subtracts its counters, so the invariant says too
that `contentLength - sentLength` is what is left, in each state of the response, and
when the head may be unsent (`Placed`); before it is begun, that it is complete except
for what will be printed (`Prepared`). A write takes what fits (`WriteTakes`), so for
each class and each size of the room there is a lemma that what is handed to `write`
fits (`BasicRespondKeeps`, `BasicAckKeeps`, `ChunkedPieceKeeps`, `PlainPieceKeeps`,
`AbstractAckKeeps`). Of a response of unknown length the code takes an empty piece for
the end; that the piece is empty for no other reason needs room in the buffer, which
`Poll` and a full acknowledgement guarantee.

`WebHttpProofs`, of the requests in `MCWebHttp`: `RequestInvariant`,
`HandledWholeAlways`, for any requests that meet `RequestsAssumption` (what a header
means, and that a body is announced), any handlers and any cuts. The invariant
(`ReqInv`) ties the object to the position in the stream (`StateAt`): at the start or
in the line of header `i` it has the text from that line's beginning, and no member
was touched that the body uses; in the body it has counted the bytes up to here, and
either given them to the handler, each piece with the index at which it lies, or made
parameters of them (`BodyTaken`); behind the end it was handled once and was `Handed`
the body. `TurnIs` shows for one turn of `_onData`'s loop that from any such state it
comes to another, further on (`StartTurn`, `HeaderTurn`, `BodyTurn`, `EndTurn`);
`DataTaken` that the loop ends at the end of the segment. The parameters are compared
with the body as `PartsOf` says: none has an `&`, and with an `&` behind each they are
the body, whose last one may be missing. `CharTaken` keeps that byte by byte. `StreamIs`
says which token of the stream is where.

`WebHttpProofs`, of the multipart bodies in `MCWebHttp`: `BodyInvariant`,
`ItemsAsSentAlways`, for one or two items, any boundary without a CR and any contents
in which the whole delimiter does not occur (`BodyAssumption`: a client has to choose
its boundary so), any size of the upload buffer and any cuts. `BodyTextIs` says which
byte of the body is where, so that a position in it tells what comes next. The
invariant (`BodyInv`) has the parser where the body is (`ParserAt`): in the first
delimiter, in the header of an item, in its content or the delimiter behind it,
between items, or behind the last. In a content (`Scanning`) the parser's state is the
number `g` of bytes it holds back: the last `g` are the first `g` of the delimiter, and
all before them were written to the item. When a byte does not go on, the held ones are
written (`WriteMany`, `HeldIs`) and the byte is looked at again as if nothing were held.
Nothing is lost by that, since only the first byte of a delimiter is a CR, so that no
shorter beginning of one can be among the held bytes (`NotTheEndKeeps`, `OtherByte`).
A delimiter is complete neither too early, as the content does not hold one
(`NoneWithin`), nor too late: behind the content, what is held is what came of it,
even if the content ended in the beginning of another (`ContentFed`). The items found
are those that end before the position (`Kept`), without empty files.

`runQueue` and `onAck` are recursive functions, and to reason about one, that
it is defined at all comes first. The library's induction theorems take an operator
as a parameter, which no prover here can instantiate. `SetInduction` takes a set in
its place (a set of naturals that has 0 and, with each number below `n`, the next
one, has all up to `n`) and follows from the pigeonhole principle of
`FiniteSetTheorems`. `RunIsDefined` and `AckIsDefined` use it, and so do the
lemmas on what the loops keep; in `TcpProofs`, `OnIsDefined`, `WrittenIsDefined` and
`FlatIsDefined`; in `WebPushProofs`, `FlatsAreDefined` and `LoopsAreDefined`; in
`WebHttpProofs`, `BytesAreDefined`, `FlatsAreDefined`, `PostsAreDefined` and
`TurnsAreDefined`.

## 6. Only model-checked

Liveness (`TicksServed`, `LedFollowsDevices`, `Recovers`, `GoneIsNoticed`,
`ComesBack`, `AllHandled`, `CloseHappens`, `Drains`, `ConnectionEnds`,
`Completes`, `CloseAnswered`) is out of the prover's reach. That the firmware's
tables meet the assumptions of `RegisterWriteProofs` is a computation, which TLC
does in `register_write`.

## 7. Where the documents and the code disagree

* `main_loop_wifi`: `README_old.md` has yellow on and blue off for "Wifi connection
  failed", yellow off and blue on for "Inverter on". `onWiFiDisconnect` turns yellow
  on; a burst turns it off when it has sent a device's values, with WiFi still down.
  Nothing turns blue off, which follows the devices on the serial line. So a logger
  that lost its WiFi shows a working inverter.
* `web_server`: `docs/json-api.md` documents `/api/all.json`. The server answers
  it with 404; `/api/restart` is the only route.
* `web_socket_control`: `AsyncWebSocket.h` (55-57) says that applications only see
  text and binary frames. `_onData` looks at the kind of a frame when its end has
  arrived; a piece before the end goes to the program whatever it is of
  (`AsyncWebSocket.cpp` 656-665), with `message_opcode` WS_PING for a ping that TCP
  cuts in two.
* `event_source_acked`: `AsyncEventSourceMessage::ack` takes a message for
  acknowledged when its length in bytes has been (`AsyncEventSource.cpp` 127). A
  message that found no room is passed over by a shorter one behind it, whose
  acknowledgement is charged to the first. It leaves the queue although no byte
  of it was sent.

## 8. Not modelled

* `time.cpp`: nothing calls it. ESPDash: it formats values that the polls have
  stored. OTA and serial output: calls of a library, and printing.
* `tcp_axtls.c`: compiled only with `ASYNC_TCP_SSL_ENABLED`, which is 0, and a
  wrapper of axTLS. `SyncClient`, `AsyncPrinter`: no part of the firmware uses
  them. Files, `SPIFFSEditor` and authentication: the firmware has no file system
  and no password, and they keep no state between calls.
* Of `AsyncTCP.cpp`, outgoing connections and DNS; of the ESP8266's client, the
  receive window and socket options; deleting a client while it connects.
* A Modbus answer that comes after its time-out and is taken for the next one:
  it depends on the buffer handling of a library that is not in the repository.
  So does whether an ESPMQTT payload comes in pieces.
* Payloads that are no numbers: `strtol` reads them as 0, or as the number they begin
  with, which are payloads of the model.

## 9. Plan

Done: all modules checked; proofs of `ModbusSlave`, `MainLoop`, `MqttLink`,
`RegisterWrite`, `RegisterCodec`, `EspReconnect`, `EspCommands`, `AsyncClient`,
`AsyncTcpTask`, `TcpBuffer`, `WebSocket`, `WebSocketFrames`, `EventSource`,
`WebResponse`, `WebRequest`, `WebMultipart` and `WebTemplate`: every invariant and
action property of the passing runs is a theorem.

What is left:

1. `Logger`: main loop, devices and link composed, for what a subscriber may
   conclude from the published topics.
2. `AsyncTcpTask`: outgoing connections, whose `_connected` and `_dns_found` take
   the same queue.
