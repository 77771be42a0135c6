----------------------------- MODULE EspReconnect -----------------------------
(***************************************************************************)
(* How the ESPMQTT build of MQTTClient (src/src/mqtt.cpp, the #else half)  *)
(* comes back after a loss: loop(), connect() and the callbacks of         *)
(* espMqttClient.  The client works in the background of mqttClient.loop(),*)
(* which the firmware also calls whenever it publishes, so its callbacks   *)
(* come between any two runs of MQTTClient::loop().                        *)
(*                                                                         *)
(* The WiFi comes back by itself here, as MqttLink shows of wifi_loop().   *)
(***************************************************************************)
EXTENDS Integers

CONSTANTS
  Wrap,           \* millis() wraps here
  mqttTryReconnectInterval,
  StepTime        \* ticks between two runs of MQTTClient::loop() at most

ASSUME TimesAssumption ==
  /\ Wrap \in Nat \ {0} /\ StepTime \in Nat
  /\ mqttTryReconnectInterval \in Nat /\ mqttTryReconnectInterval + StepTime < Wrap

VARIABLES
  now,                    \* millis()
  lag,                    \* ticks since MQTTClient::loop() last ran
  reconnectMqtt, lastReconnectTry,
  client,                 \* espMqttClient: "disconnected", "connecting", "connected"
  alive,                  \* its TCP connection still works
  wifi,                   \* WiFi.isConnected()
  calm,                   \* the environment has stopped misbehaving
  blind,                  \* history: the last loss was noticed without WiFi
  sinceLoss               \* history: ticks since a loss armed the reconnect

member == <<reconnectMqtt, lastReconnectTry>>
vars   == <<now, lag, member, client, alive, wifi, calm, blind, sinceLoss>>

Long  == mqttTryReconnectInterval + 1
Since(t) == (now - t) % Wrap

-------------------------------------------------------------------------------
(* Defects that the runs must notice; no action uses them.                 *)
Unarmed    == reconnectMqtt' = FALSE /\ lastReconnectTry' = now /\ sinceLoss' = 0

(* A retry is due mqttTryReconnectInterval after the loss.                 *)
retryDue == Since(lastReconnectTry) > mqttTryReconnectInterval

(* What connect() leaves in the flag when the client goes to work.         *)
armedAfterConnect == FALSE

(* The flag and the time of a loss, in connect() and in onMqttDisconnect().*)
Arm == reconnectMqtt' = TRUE /\ lastReconnectTry' = now /\ sinceLoss' = 0

-------------------------------------------------------------------------------
(* The client refuses to connect when it is busy, or short of memory.      *)
connect == \/ /\ client = "disconnected"
              /\ client' = "connecting"
              /\ reconnectMqtt' = armedAfterConnect
              /\ UNCHANGED <<lastReconnectTry, sinceLoss>>
           \/ /\ client # "disconnected" \/ ~calm
              /\ Arm
              /\ UNCHANGED client

(* begin(), with the WiFi that wifi_setup() has waited for.                *)
Init == /\ now = 0 /\ lag = 0
        /\ lastReconnectTry = 0
        /\ \/ client = "connecting" /\ reconnectMqtt = FALSE /\ sinceLoss = Long
           \/ client = "disconnected" /\ reconnectMqtt = TRUE /\ sinceLoss = 0
        /\ alive = FALSE /\ wifi = TRUE /\ calm = FALSE
        /\ blind = FALSE

Retry == /\ reconnectMqtt /\ retryDue
         /\ connect
         /\ lag' = 0
         /\ UNCHANGED <<now, alive, wifi, calm, blind>>

NoRetry == /\ ~(reconnectMqtt /\ retryDue)
           /\ lag' = 0
           /\ UNCHANGED <<now, member, client, alive, wifi, calm, blind, sinceLoss>>

loop == Retry \/ NoRetry

(* CONNACK: the callback subscribes and announces, and changes no member.  *)
onMqttConnect ==
  /\ client = "connecting" /\ wifi
  /\ client' = "connected" /\ alive' = TRUE
  /\ UNCHANGED <<now, lag, member, wifi, calm, blind, sinceLoss>>

(* A connection that could not be made, or is found to be dead.  Without   *)
(* WiFi nothing is armed.                                                  *)
onMqttDisconnect ==
  /\ \/ client = "connecting" /\ (~wifi \/ ~calm)
     \/ client = "connected" /\ ~alive
  /\ client' = "disconnected" /\ alive' = FALSE
  /\ blind' = ~wifi
  /\ IF wifi THEN Arm ELSE UNCHANGED <<member, sinceLoss>>
  /\ UNCHANGED <<now, lag, wifi, calm>>

-------------------------------------------------------------------------------
WifiLost == /\ ~calm /\ wifi
            /\ wifi' = FALSE /\ alive' = FALSE
            /\ UNCHANGED <<now, lag, member, client, calm, blind, sinceLoss>>

WifiBack == /\ ~wifi
            /\ wifi' = TRUE
            /\ UNCHANGED <<now, lag, member, client, alive, calm, blind, sinceLoss>>

SocketLost == /\ ~calm /\ alive
              /\ alive' = FALSE
              /\ UNCHANGED <<now, lag, member, client, wifi, calm, blind, sinceLoss>>

Tick == /\ lag < StepTime
        /\ lag' = lag + 1
        /\ now' = (now + 1) % Wrap
        /\ sinceLoss' = IF sinceLoss < Long THEN sinceLoss + 1 ELSE Long
        /\ UNCHANGED <<member, client, alive, wifi, calm, blind>>

(* Power-on or reset; the first connect() is accepted or not.              *)
Restart == /\ ~calm
           /\ now' = 0 /\ lag' = 0 /\ lastReconnectTry' = 0
           /\ \/ client' = "connecting" /\ reconnectMqtt' = FALSE /\ sinceLoss' = Long
              \/ client' = "disconnected" /\ reconnectMqtt' = TRUE /\ sinceLoss' = 0
           /\ alive' = FALSE /\ wifi' = TRUE
           /\ blind' = FALSE
           /\ UNCHANGED calm

CalmsDown == /\ ~calm
             /\ calm' = TRUE
             /\ UNCHANGED <<now, lag, member, client, alive, wifi, blind, sinceLoss>>

Next == \/ loop \/ onMqttConnect \/ onMqttDisconnect
        \/ WifiLost \/ WifiBack \/ SocketLost \/ Tick \/ Restart \/ CalmsDown

Spec == Init /\ [][Next]_vars

(* The main loop goes on and time passes; the client and the WiFi answer   *)
(* or time out.                                                            *)
FairSpec == /\ Spec
            /\ WF_vars(loop) /\ WF_vars(Tick) /\ WF_vars(WifiBack)
            /\ WF_vars(onMqttConnect) /\ WF_vars(onMqttDisconnect)

-------------------------------------------------------------------------------
(* The values every variable stays in.                                     *)
TypeOK ==
  /\ now \in 0..(Wrap - 1) /\ lastReconnectTry \in 0..(Wrap - 1)
  /\ lag \in 0..StepTime
  /\ reconnectMqtt \in BOOLEAN
  /\ client \in {"disconnected", "connecting", "connected"}
  /\ alive \in BOOLEAN /\ wifi \in BOOLEAN /\ calm \in BOOLEAN /\ blind \in BOOLEAN
  /\ sinceLoss \in 0..Long

(* Nothing will connect the client any more.                               *)
Stranded == client = "disconnected" /\ ~reconnectMqtt

(* loop() never asks a client to connect that is at work already: the flag *)
(* is up only while it is disconnected (connect, onMqttDisconnect).        *)
ArmedOnlyWhenDown == reconnectMqtt => client = "disconnected"

(* The client is left alone for good only after a loss that was noticed    *)
(* without WiFi (the condition in onMqttDisconnect), never otherwise.      *)
StrandedOnlyBlind == Stranded => blind

(* A loss is followed by an attempt to connect only after more than the    *)
(* interval, across any wrap of millis() (MQTTClient::loop).               *)
RetriesSpaced == [][Retry => sinceLoss > mqttTryReconnectInterval]_vars

(* Once the network behaves and WiFi is up the client ends connected, and  *)
(* stays so, unless it was stranded before.                                *)
ComesBack == calm /\ wifi /\ ~Stranded ~> [](client = "connected" /\ alive)
===============================================================================
