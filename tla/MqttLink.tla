------------------------------- MODULE MqttLink -------------------------------
(***************************************************************************)
(* How the logger gets and keeps its connections: wifi_setup() and         *)
(* wifi_loop() (src/src/wifi.cpp), MQTTClient::begin(), loop() and         *)
(* connect() of the PubSubClient build (src/src/mqtt.cpp), with the WiFi   *)
(* station, the network and the MQTT broker they rely on.                  *)
(*                                                                         *)
(* Time is counted in ticks of 500 ms, the delay of wifi_setup.  The two   *)
(* ends of the TCP connection learn of its loss independently: attached    *)
(* tells whether the broker's session still is the client's socket.        *)
(***************************************************************************)
EXTENDS Integers, Sequences

CONSTANTS
  Wrap,           \* millis() and the times kept wrap here
  mqttTryReconnectInterval,
  wifiTryReconnectInterval,
  SetupTries,     \* looks at WiFi.status() before wifi_setup gives up, 240
  JoinTime,       \* ticks the access point takes to let the station in
  StepTime        \* ticks one step of the firmware takes at most

ASSUME TimesAssumption ==
  /\ Wrap \in Nat /\ JoinTime \in Nat /\ SetupTries \in Nat
  /\ mqttTryReconnectInterval \in Nat /\ mqttTryReconnectInterval < Wrap - 1
  /\ StepTime \in Nat
  /\ wifiTryReconnectInterval \in Nat /\ wifiTryReconnectInterval < Wrap

(* An access point slower than this would be left before it answers.       *)
ASSUME JoinAssumption == JoinTime < wifiTryReconnectInterval /\ JoinTime < SetupTries

VARIABLES
  pc,                     \* where the firmware is; "off" once unplugged
  wifiCnt,                \* looks taken by wifi_setup
  lag,                    \* ticks since the firmware's last step
  now,                    \* millis()
  prevReconnectTryTime, lastReconnectTry,
  station,                \* WiFi.status(): "down", "joining" or "up"
  joinAge,                \* ticks this attempt to join has lasted
  connected,              \* client.connected()
  wire,                   \* packets written by the client, not yet received
  attached,               \* the broker's session is the client's socket
  session,                \* the broker has a live session for HOSTNAME
  subscribed,             \* that session is subscribed to the set topics
  retained,               \* the retained message of the status topic
  calm,                   \* the environment has stopped misbehaving
  sinceFailure, sinceJoin \* history: ticks since the last failed connect,
                          \* and since the last attempt to join

firmware == <<pc, wifiCnt, lag>>
times    == <<prevReconnectTryTime, lastReconnectTry>>
air      == <<station, joinAge>>
client   == <<connected, wire, attached>>
broker   == <<session, subscribed, retained>>
elapsed  == <<sinceFailure, sinceJoin>>
vars     == <<firmware, now, times, air, client, broker, calm, elapsed>>

Long == 1 + (IF mqttTryReconnectInterval > wifiTryReconnectInterval
               THEN mqttTryReconnectInterval ELSE wifiTryReconnectInterval)

Later(n) == IF n < Long THEN n + 1 ELSE n
Since(t) == (now - t) % Wrap

-------------------------------------------------------------------------------
(* Defects that the runs must notice; no action uses them.                 *)
NoWill         == retained
MqttDeadline   == now > (lastReconnectTry + mqttTryReconnectInterval) % Wrap
WifiImpatience == station # "up"

(* The retained will that connect() leaves with the broker.                *)
will == "offline"

-------------------------------------------------------------------------------
(* Power-on or reset: RAM is initialised, wifi_setup begins to join.  The  *)
(* broker keeps what it has; the old socket is dead.                       *)
Boot ==
  /\ pc' = "setup" /\ wifiCnt' = 0
  /\ now' = 0 /\ prevReconnectTryTime' = 0 /\ lastReconnectTry' = 0
  /\ station' = "joining" /\ joinAge' = 0
  /\ connected' = FALSE /\ wire' = <<>> /\ attached' = FALSE
  /\ sinceFailure' = Long /\ sinceJoin' = Long

Init ==
  /\ pc = "setup" /\ wifiCnt = 0 /\ lag = 0
  /\ now = 0 /\ prevReconnectTryTime = 0 /\ lastReconnectTry = 0
  /\ station = "joining" /\ joinAge = 0
  /\ connected = FALSE /\ wire = <<>> /\ attached = FALSE
  /\ session = FALSE /\ subscribed = FALSE /\ retained = "none"
  /\ calm = FALSE
  /\ sinceFailure = Long /\ sinceJoin = Long

-------------------------------------------------------------------------------
(* Half a second passes; never while a calm access point owes its answer.  *)
punctual == calm => ~(station = "joining" /\ joinAge = JoinTime)

TimePasses ==
  /\ punctual
  /\ now' = (now + 1) % Wrap
  /\ joinAge' = IF station = "joining" /\ joinAge < JoinTime THEN joinAge + 1 ELSE joinAge
  /\ sinceFailure' = Later(sinceFailure)
  /\ sinceJoin' = Later(sinceJoin)

Tick ==
  /\ pc \notin {"setup", "off"}
  /\ lag < StepTime
  /\ lag' = lag + 1
  /\ TimePasses
  /\ UNCHANGED <<pc, wifiCnt, times, station, client, broker, calm>>

triesLeft == wifiCnt + 1 < SetupTries

(* wifi_setup: not connected, wait and look again.                         *)
SetupWait ==
  /\ pc = "setup" /\ station # "up"
  /\ triesLeft
  /\ wifiCnt' = wifiCnt + 1
  /\ TimePasses
  /\ UNCHANGED <<pc, times, station, client, broker, calm>>

(* No look is left: ESP.restart(), even if the last wait let WiFi come up. *)
SetupRestart ==
  /\ punctual
  /\ pc = "setup" /\ station # "up"
  /\ ~triesLeft
  /\ Boot
  /\ UNCHANGED <<broker, calm>>

(* MQTTClient::begin()                                                     *)
SetupDone ==
  /\ pc = "setup" /\ station = "up"
  /\ pc' = "connect" /\ wifiCnt' = 0
  /\ UNCHANGED <<now, times, air, client, broker, calm, elapsed>>

-------------------------------------------------------------------------------
wifiRetryDue == station # "up" /\ Since(prevReconnectTryTime) >= wifiTryReconnectInterval

(* wifi_loop() leaves the network and joins it anew, whatever the state of *)
(* an attempt under way.                                                   *)
WifiRejoin ==
  /\ pc = "wifi" /\ wifiRetryDue
  /\ pc' = "mqtt"
  /\ station' = "joining" /\ joinAge' = 0
  /\ prevReconnectTryTime' = now
  /\ sinceJoin' = 0
  /\ UNCHANGED <<wifiCnt, now, lastReconnectTry, client, broker, calm, sinceFailure>>

WifiIdle ==
  /\ pc = "wifi" /\ ~wifiRetryDue
  /\ pc' = "mqtt"
  /\ UNCHANGED <<wifiCnt, now, times, air, client, broker, calm, elapsed>>

mqttRetryDue == Since(lastReconnectTry) > mqttTryReconnectInterval

(* MQTTClient::loop() with the client connected, or not yet due to retry.  *)
MqttIdle ==
  /\ pc = "mqtt" /\ (connected \/ ~mqttRetryDue)
  /\ pc' = "wifi"
  /\ UNCHANGED <<wifiCnt, now, times, air, client, broker, calm, elapsed>>

MqttRetry ==
  /\ pc = "mqtt" /\ ~connected /\ mqttRetryDue
  /\ pc' = "connect"
  /\ UNCHANGED <<wifiCnt, now, times, air, client, broker, calm, elapsed>>

(* The broker takes a CONNECT of HOSTNAME: a session it still has is taken *)
(* over, which publishes that session's will; the new one is clean.        *)
BrokerAccepts ==
  /\ retained' = IF session THEN will ELSE retained
  /\ session' = TRUE
  /\ subscribed' = FALSE

ConnectOk ==
  /\ pc = "connect" /\ station = "up"
  /\ pc' = "subscribe"
  /\ connected' = TRUE /\ attached' = TRUE /\ wire' = <<>>
  /\ BrokerAccepts
  /\ UNCHANGED <<wifiCnt, now, times, air, calm, elapsed>>

ConnectFailed ==
  /\ pc = "connect"
  /\ pc' = "wifi"
  /\ lastReconnectTry' = now
  /\ sinceFailure' = 0
  /\ UNCHANGED <<wifiCnt, now, prevReconnectTryTime, air, client, calm, sinceJoin>>

(* No answer to CONNECT, which the broker has not seen, or has accepted.   *)
ConnectLost ==
  /\ station = "up" => ~calm
  /\ ConnectFailed
  /\ UNCHANGED broker

ConnackLost ==
  /\ station = "up" /\ ~calm
  /\ ConnectFailed
  /\ BrokerAccepts

(* PubSubClient writes a packet, if it believes to be connected.  What is  *)
(* written to a dead socket is lost.                                       *)
Write(packet) ==
  wire' = IF connected /\ attached THEN Append(wire, packet) ELSE wire

(* Defect: the clean session is not subscribed again.                      *)
SubscribeForgotten ==
  /\ pc = "subscribe"
  /\ pc' = "announce"
  /\ UNCHANGED <<wifiCnt, now, times, air, client, broker, calm, elapsed>>

(* subscribe(): the command topics of every writable device.               *)
Subscribe ==
  /\ pc = "subscribe"
  /\ pc' = "announce"
  /\ Write("subscribe")
  /\ UNCHANGED <<wifiCnt, now, times, air, connected, attached, broker, calm, elapsed>>

(* The retained "online" on the status topic.                              *)
Announce ==
  /\ pc = "announce"
  /\ pc' = "wifi"
  /\ Write("online")
  /\ UNCHANGED <<wifiCnt, now, times, air, connected, attached, broker, calm, elapsed>>

Firmware == /\ \/ SetupWait \/ SetupRestart \/ SetupDone
               \/ WifiRejoin \/ WifiIdle
               \/ MqttIdle \/ MqttRetry
               \/ ConnectOk \/ ConnectLost \/ ConnackLost
               \/ Subscribe \/ Announce
            /\ lag' = 0

-------------------------------------------------------------------------------
(* The station gets its address.                                           *)
Joined ==
  /\ station = "joining" /\ joinAge = JoinTime
  /\ station' = "up"
  /\ UNCHANGED <<firmware, now, times, joinAge, client, broker, calm, elapsed>>

(* The access point is lost, and the socket with it.                       *)
WifiLost ==
  /\ ~calm /\ station # "down" /\ pc # "off"
  /\ station' = "down" /\ joinAge' = 0
  /\ attached' = FALSE /\ wire' = <<>>
  /\ UNCHANGED <<firmware, now, times, connected, broker, calm, elapsed>>

(* The connection dies somewhere in between, or the broker closes it.      *)
SocketLost ==
  /\ ~calm /\ attached
  /\ attached' = FALSE /\ wire' = <<>>
  /\ UNCHANGED <<firmware, now, times, air, connected, broker, calm, elapsed>>

(* The client finds the socket closed or its keep-alive unanswered.        *)
ClientNotices ==
  /\ connected /\ ~attached /\ pc # "off"
  /\ connected' = FALSE
  /\ UNCHANGED <<firmware, now, times, air, wire, attached, broker, calm, elapsed>>

(* The broker does, and publishes the will.                                *)
BrokerNotices ==
  /\ session /\ ~attached
  /\ session' = FALSE /\ subscribed' = FALSE
  /\ retained' = will
  /\ UNCHANGED <<firmware, now, times, air, client, calm, elapsed>>

BrokerReceives ==
  /\ wire # <<>>
  /\ wire' = Tail(wire)
  /\ subscribed' = (Head(wire) = "subscribe" \/ subscribed)
  /\ retained' = IF Head(wire) = "online" THEN "online" ELSE retained
  /\ UNCHANGED <<firmware, now, times, air, connected, attached, session, calm, elapsed>>

(* A crash, or ESP.restart() on request, between any two steps.            *)
Crash ==
  /\ ~calm /\ pc # "off"
  /\ Boot /\ lag' = 0
  /\ UNCHANGED <<broker, calm>>

(* The logger is unplugged for good.                                       *)
Unplug ==
  /\ ~calm /\ pc # "off"
  /\ pc' = "off" /\ wifiCnt' = 0 /\ lag' = 0
  /\ station' = "down" /\ joinAge' = 0
  /\ connected' = FALSE /\ attached' = FALSE /\ wire' = <<>>
  /\ UNCHANGED <<now, times, broker, calm, elapsed>>

CalmsDown ==
  /\ ~calm /\ pc # "off"
  /\ calm' = TRUE
  /\ UNCHANGED <<firmware, now, times, air, client, broker, elapsed>>

Environment == \/ Tick \/ Joined \/ WifiLost \/ SocketLost
               \/ ClientNotices \/ BrokerNotices \/ BrokerReceives
               \/ Crash \/ Unplug \/ CalmsDown

Next == Firmware \/ Environment

Spec == Init /\ [][Next]_vars

(* The loop goes on and time passes; TCP delivers or both ends find out by *)
(* their keep-alives; the access point lets in who waits for it.           *)
FairSpec == /\ Spec
            /\ WF_vars(Firmware) /\ WF_vars(Tick) /\ WF_vars(Joined)
            /\ WF_vars(ClientNotices) /\ WF_vars(BrokerNotices)
            /\ WF_vars(BrokerReceives)

-------------------------------------------------------------------------------
(* The values every variable stays in.                                     *)
TypeOK ==
  /\ pc \in {"setup", "wifi", "mqtt", "connect", "subscribe", "announce", "off"}
  /\ wifiCnt \in 0..SetupTries /\ lag \in 0..StepTime
  /\ now \in 0..(Wrap - 1)
  /\ prevReconnectTryTime \in 0..(Wrap - 1)
  /\ lastReconnectTry \in 0..(Wrap - 1)
  /\ station \in {"down", "joining", "up"}
  /\ joinAge \in 0..JoinTime
  /\ connected \in BOOLEAN /\ attached \in BOOLEAN
  /\ wire \in Seq({"subscribe", "online"})
  /\ session \in BOOLEAN /\ subscribed \in BOOLEAN
  /\ retained \in {"none", "online", "offline"}
  /\ calm \in BOOLEAN
  /\ sinceFailure \in 0..Long /\ sinceJoin \in 0..Long

(* A connection that has outlived its set-up is subscribed to the commands *)
(* and announced as online, whatever sessions, wills and half-made         *)
(* connections came before it (connect(): subscribe() and the retained     *)
(* "online" after every CONNECT).                                          *)
AnnouncedAndSubscribed ==
  attached /\ wire = <<>> /\ pc \notin {"subscribe", "announce"} =>
    connected /\ session /\ subscribed /\ retained = "online"

(* Nobody reads "online" of a logger the broker has no session for: the    *)
(* will has replaced it.                                                   *)
NoOrphanOnline == retained = "online" => session

(* A failed attempt to connect is followed by the next one only after more *)
(* than the interval, and an attempt to join the WiFi only after theirs,   *)
(* across any wrap of millis().                                            *)
RetriesSpaced ==
  [][/\ MqttRetry => sinceFailure > mqttTryReconnectInterval
     /\ WifiRejoin => sinceJoin >= wifiTryReconnectInterval]_vars

(* Once the network behaves the logger ends connected, subscribed and      *)
(* announced, from whatever state it was in, and stays so.                 *)
Recovers == calm ~> [](subscribed /\ retained = "online")

(* A logger that is gone for good ends announced as offline, if it had     *)
(* ever been announced.                                                    *)
GoneIsNoticed == pc = "off" ~> [](~session /\ retained # "online")
===============================================================================
