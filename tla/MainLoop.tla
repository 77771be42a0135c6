------------------------------- MODULE MainLoop -------------------------------
(***************************************************************************)
(* setup() and loop() of src/src/main.cpp with what they share with the    *)
(* callbacks of the SDK: the timer flags (myTicker.cpp), the LEDs          *)
(* (led.cpp), the restart request and the WiFi events (wifi.cpp).          *)
(*                                                                         *)
(* One processor, no preemption: a callback runs only when the main loop   *)
(* yields (yield, delay, network and serial waits).  A step of the loop is *)
(* the code between two places where it does, or less.  A poll of a device *)
(* is one step, which ModbusSlave justifies: request() yields, but nobody  *)
(* reads a device or the flags while it runs, and PollIsAtomic holds.      *)
(***************************************************************************)
EXTENDS Led, Sequences

CONSTANTS Power,          \* modbusSlavesPower, a sequence of devices
          Other,          \* modbusSlavesOther
          registerCount   \* registerCount[d]: entries of d's registerValues

Device == {Power[i] : i \in DOMAIN Power}
          \cup {Other[i] : i \in DOMAIN Other}      \* modbusSlaves

ASSUME DevicesAssumption ==
  /\ Power \in Seq(Device)
  /\ Other \in Seq(Device)
  /\ registerCount \in [Device -> Nat]

Timer     == {"short", "long", "status"}
PollTimer == {"short", "long"}

VARIABLES
  pc,             \* where the main loop is
  ret,            \* where loopOthers() returns to
  burst,          \* the branch of updateInverterValues() being run
  todo,           \* devices the branch has still to poll
  left,           \* registers of Head(todo) still to publish
  timeout,        \* myTicker's three flags
  reachable,      \* reachable[d]: isReachable() of device d
  led,            \* the LEDs
  restart,        \* wifi.cpp's restart flag
  wifi,           \* what the station last told the event handlers
  owed,           \* history: ticks of t not yet followed by a burst
  unserviced,     \* history: polls since MQTTClient.loop() last ran
  overdue,        \* history: polls since a restart was requested
  shown,          \* history: what showInverterStatus() last decided
  settled         \* history: the yellow LED was switched off since setup()

control == <<pc, ret, burst, todo, left>>
history == <<owed, unserviced, overdue, shown, settled>>
vars    == <<control, timeout, reachable, led, restart, wifi, history>>

-------------------------------------------------------------------------------
(* Defects that the runs must notice; no action uses them.                 *)
FlagStuck(t)        == UNCHANGED timeout
NoServiceInBurst(k) == pc' = k /\ UNCHANGED ret
GreenBeforeDisarm   == disableNightblink(greenOn(led))
AnySlave            == \E d \in Device : reachable[d]

(* loopOthers(), called from a place where the code goes on at k.          *)
loopOthers(k) == pc' = "wifi" /\ ret' = k

resetTimeout(t) == timeout' = [timeout EXCEPT ![t] = FALSE]

allReachable == \A d \in Device : reachable[d]

(* showInverterStatus(), the branch for each outcome.                      *)
ledOnline  == greenOn(disableNightblink(led))
ledOffline == enableNightBlink(greenOff(led))

-------------------------------------------------------------------------------
NothingDue  == [t \in Timer |-> FALSE]
NothingOwed == [t \in PollTimer |-> FALSE]
Unreached   == [d \in Device |-> FALSE]

(* The end of setup().  wifi_setup left with the station connected at its  *)
(* last look and the yellow LED as the toggles and the GotIP event left it.*)
AfterSetup == {ledBegin, yellowOn(ledBegin)}

Init ==
  /\ pc = "wifi" /\ ret = "status" /\ burst = "none" /\ todo = <<>> /\ left = 0
  /\ timeout = NothingDue
  /\ reachable = Unreached
  /\ led \in AfterSetup
  /\ restart = FALSE
  /\ wifi = "up"
  /\ owed = NothingOwed
  /\ unserviced = 0 /\ overdue = 0
  /\ shown = "none"
  /\ settled = FALSE

(* ESP.restart(): RAM is initialised and setup() runs again.               *)
Restart ==
  /\ pc = "wifi" /\ restart
  /\ pc' = "wifi" /\ ret' = "status" /\ burst' = "none" /\ todo' = <<>> /\ left' = 0
  /\ timeout' = NothingDue
  /\ reachable' = Unreached
  /\ led' \in AfterSetup
  /\ restart' = FALSE
  /\ wifi' = "up"
  /\ owed' = NothingOwed
  /\ unserviced' = 0 /\ overdue' = 0
  /\ shown' = "none"
  /\ settled' = FALSE

(* wifi_loop() without a restart.                                          *)
WifiLoop ==
  /\ pc = "wifi" /\ ~restart
  /\ pc' = "mqtt"
  /\ UNCHANGED <<ret, burst, todo, left, timeout, reachable, led, restart, wifi, history>>

(* MQTTClient.loop()                                                       *)
MqttLoop ==
  /\ pc = "mqtt"
  /\ pc' = ret
  /\ unserviced' = 0
  /\ UNCHANGED <<ret, burst, todo, left, timeout, reachable, led, restart, wifi,
                 owed, overdue, shown, settled>>

-------------------------------------------------------------------------------
(* updateAll(): is a status message due?                                   *)
StatusDue ==
  /\ pc = "status" /\ timeout["status"]
  /\ pc' = "sendStatus"
  /\ led' = yellowOn(led)
  /\ UNCHANGED <<ret, burst, todo, left, timeout, reachable, restart, wifi, history>>

NoStatusDue ==
  /\ pc = "status" /\ ~timeout["status"]
  /\ pc' = "short"
  /\ UNCHANGED <<ret, burst, todo, left, timeout, reachable, led, restart, wifi, history>>

(* The message is sent, which yields; the flag goes down afterwards, with  *)
(* whatever tick came meanwhile.                                           *)
StatusSent ==
  /\ pc = "sendStatus"
  /\ pc' = "short"
  /\ resetTimeout("status")
  /\ led' = yellowOff(led)
  /\ settled' = TRUE
  /\ UNCHANGED <<ret, burst, todo, left, reachable, restart, wifi,
                 owed, unserviced, overdue, shown>>

(* updateInverterValues(): branch t, polling the devices of s.             *)
StartBurst(t, s) ==
  /\ pc = t /\ timeout[t]
  /\ pc' = "device"
  /\ burst' = t
  /\ todo' = s
  /\ resetTimeout(t)
  /\ owed' = [owed EXCEPT ![t] = FALSE]
  /\ UNCHANGED <<ret, left, reachable, led, restart, wifi,
                 unserviced, overdue, shown, settled>>

NoShortDue ==
  /\ pc = "short" /\ ~timeout["short"]
  /\ pc' = "long"
  /\ UNCHANGED <<ret, burst, todo, left, timeout, reachable, led, restart, wifi, history>>

(* Nothing more to do: loop() returns and is called again.                 *)
NoLongDue ==
  /\ pc = "long" /\ ~timeout["long"]
  /\ loopOthers("status")
  /\ UNCHANGED <<burst, todo, left, timeout, reachable, led, restart, wifi, history>>

(* slave->request(), answered or not.                                      *)
PollDevice(answered) ==
  /\ pc = "device" /\ todo # <<>>
  /\ pc' = "send"
  /\ reachable' = [reachable EXCEPT ![Head(todo)] = answered]
  /\ unserviced' = IF unserviced < 2 THEN unserviced + 1 ELSE 2
  /\ overdue' = IF restart /\ overdue < 2 THEN overdue + 1 ELSE overdue
  /\ UNCHANGED <<ret, burst, todo, left, timeout, led, restart, wifi,
                 owed, shown, settled>>

(* sendModbusSlaveValues(): a loopOthers() after each register.            *)
BeginSend ==
  /\ pc = "send"
  /\ pc' = "register"
  /\ led' = yellowOn(led)
  /\ left' = registerCount[Head(todo)]
  /\ UNCHANGED <<ret, burst, todo, timeout, reachable, restart, wifi, history>>

SendRegister ==
  /\ pc = "register" /\ left > 0
  /\ left' = left - 1
  /\ loopOthers("register")
  /\ UNCHANGED <<burst, todo, timeout, reachable, led, restart, wifi, history>>

(* online, error, tries and errcnt; then the next device.                  *)
EndSend ==
  /\ pc = "register" /\ left = 0
  /\ led' = yellowOff(led)
  /\ settled' = TRUE
  /\ todo' = Tail(todo)
  /\ loopOthers("device")
  /\ UNCHANGED <<burst, left, timeout, reachable, restart, wifi,
                 owed, unserviced, overdue, shown>>

(* Defect: the flag goes down again after the burst.                       *)
EndShortBurstAndReset ==
  /\ pc = "device" /\ todo = <<>> /\ burst = "short"
  /\ burst' = "none"
  /\ resetTimeout("short")
  /\ loopOthers("long")
  /\ UNCHANGED <<todo, left, reachable, led, restart, wifi, history>>

EndShortBurst ==
  /\ pc = "device" /\ todo = <<>> /\ burst = "short"
  /\ burst' = "none"
  /\ loopOthers("long")
  /\ UNCHANGED <<todo, left, timeout, reachable, led, restart, wifi, history>>

(* showInverterStatus() closes the long branch, and with it loop().        *)
EndLongBurst ==
  /\ pc = "device" /\ todo = <<>> /\ burst = "long"
  /\ led' = IF allReachable THEN ledOnline ELSE ledOffline
  /\ shown' = IF \A d \in Device : reachable[d] THEN "online" ELSE "offline"
  /\ burst' = "none"
  /\ loopOthers("loop")
  /\ UNCHANGED <<todo, left, timeout, reachable, restart, wifi,
                 owed, unserviced, overdue, settled>>

(* loop() is called again after the long branch.                           *)
LoopAgain ==
  /\ pc = "loop"
  /\ loopOthers("status")
  /\ UNCHANGED <<burst, todo, left, timeout, reachable, led, restart, wifi, history>>

Loop == \/ Restart \/ WifiLoop \/ MqttLoop
        \/ StatusDue \/ NoStatusDue \/ StatusSent
        \/ StartBurst("short", Power) \/ NoShortDue
        \/ StartBurst("long", Other) \/ NoLongDue
        \/ \E answered \in BOOLEAN : PollDevice(answered)
        \/ BeginSend \/ SendRegister \/ EndSend
        \/ EndShortBurst \/ EndLongBurst \/ LoopAgain

-------------------------------------------------------------------------------
(* The callbacks.  A ticker of myTicker::begin() fires.                    *)
Tick(t) ==
  /\ timeout' = [timeout EXCEPT ![t] = TRUE]
  /\ owed' = [x \in PollTimer |-> x = t \/ owed[x]]
  /\ UNCHANGED <<control, reachable, led, restart, wifi,
                 unserviced, overdue, shown, settled>>

BlinkTimer ==
  /\ led.armed
  /\ led' = blinkTimerCallback(led)
  /\ UNCHANGED <<control, timeout, reachable, restart, wifi, history>>

(* GET /api/restart                                                        *)
onRestartRequest ==
  /\ restart' = TRUE
  /\ UNCHANGED <<control, timeout, reachable, led, wifi, history>>

onWiFiConnect ==
  /\ wifi = "down"
  /\ wifi' = "up"
  /\ led' = yellowOff(led)
  /\ settled' = TRUE
  /\ UNCHANGED <<control, timeout, reachable, restart,
                 owed, unserviced, overdue, shown>>

(* Also raised by every attempt to connect that fails.                     *)
onWiFiDisconnect ==
  /\ wifi' = "down"
  /\ led' = yellowOn(led)
  /\ UNCHANGED <<control, timeout, reachable, restart, history>>

Callback == \/ \E t \in Timer : Tick(t)
            \/ BlinkTimer
            \/ onRestartRequest
            \/ onWiFiConnect \/ onWiFiDisconnect

Next == Loop \/ Callback

Spec == Init /\ [][Next]_vars

(* The loop runs forever: every call in it returns.  The tickers and Timer1*)
(* are periodic.  Nothing is assumed of devices, WiFi or HTTP clients.     *)
FairSpec == /\ Spec
            /\ WF_vars(Loop)
            /\ \A t \in Timer : WF_vars(Tick(t))
            /\ WF_vars(BlinkTimer)

-------------------------------------------------------------------------------
(* The values every variable stays in.                                     *)
TypeOK ==
  /\ pc \in {"wifi", "mqtt", "status", "sendStatus", "short", "long", "device",
             "send", "register", "loop"}
  /\ ret \in {"status", "long", "device", "register", "loop"}
  /\ burst \in PollTimer \cup {"none"}
  /\ todo \in Seq(Device)
  /\ left \in Nat
  /\ timeout \in [Timer -> BOOLEAN]
  /\ reachable \in [Device -> BOOLEAN]
  /\ led \in LedState
  /\ restart \in BOOLEAN
  /\ wifi \in {"up", "down"}
  /\ owed \in [PollTimer -> BOOLEAN]
  /\ unserviced \in 0..2
  /\ overdue \in 0..2
  /\ shown \in {"none", "online", "offline"}
  /\ settled \in BOOLEAN

(* A tick of the short or long timer that no burst has followed is still   *)
(* flagged, even when it came while a burst of that timer was running: the *)
(* flag goes down before the burst starts (updateInverterValues).          *)
PollTickKept == \A t \in PollTimer : owed[t] => timeout[t]

(* MQTTClient.loop(), which keeps the connection alive and takes the       *)
(* commands, runs between any two polls of a device (loopOthers).          *)
MqttServiced == unserviced <= 1

(* Once /api/restart was answered at most one more device is polled, even  *)
(* in the middle of a burst (wifi_loop inside loopOthers).                 *)
RestartIsPrompt == overdue <= 1

(* Between two polls of a device, however long the burst, the firmware     *)
(* turns to MQTT and to a restart that was asked for (loopOthers).         *)
ServicedBetweenPolls == MqttServiced /\ RestartIsPrompt

(* The blue LED follows the devices, as showInverterStatus saw them last:  *)
(* steady on for online, and for offline dark but for the flash of one     *)
(* timer tick; the timer runs exactly when offline was shown (led.cpp).    *)
(* It follows nothing else: with WiFi lost it stays as it is, against the  *)
(* LED table (WifiLossIsShown).                                            *)
BlueShowsDevices ==
  /\ led.armed <=> shown = "offline"
  /\ led.nightBlinkEnabled = led.armed
  /\ shown = "online"  => led.blue = HIGH
  /\ shown = "offline" => (led.blue = HIGH => led.cnt = 0)
  /\ shown = "none"    => led.blue = LOW

sending == \/ pc \in {"sendStatus", "register"}
           \/ pc \in {"wifi", "mqtt"} /\ ret = "register"

(* While WiFi is up the yellow LED is on only while something is sent,     *)
(* whatever order disconnects, connects and bursts came in.                *)
YellowMeansSending ==
  wifi = "up" /\ settled /\ led.yellow = HIGH => sending

(* With WiFi lost and nothing being sent the LEDs do not show the row      *)
(* "Inverter on", yellow off and blue steady on: the LED table of          *)
(* README_old.md has yellow on and blue off for "Wifi connection failed".  *)
WifiLossIsShown ==
  wifi = "down" /\ ~sending =>
    ~(led.yellow = LOW /\ led.blue = HIGH /\ ~led.armed)

-------------------------------------------------------------------------------
(* Every timer flag that goes up is served: no branch starves another.     *)
TicksServed == \A t \in Timer : timeout[t] ~> ~timeout[t]

(* A device that stops answering for good ends in the LED blinking for     *)
(* good, if nobody restarts the logger over and over.                      *)
LossIsShown ==
  \A d \in Device :
    <>[](~restart /\ ~reachable[d]) => <>[](led.armed) /\ []<>(led.blue = HIGH)

(* And when all devices answer for good the LED ends steady on.            *)
RecoveryIsShown ==
  <>[](~restart /\ \A d \in Device : reachable[d]) => <>[](~led.armed /\ led.blue = HIGH)

(* The LED ends by showing what the devices end by doing.                  *)
LedFollowsDevices == LossIsShown /\ RecoveryIsShown
===============================================================================
