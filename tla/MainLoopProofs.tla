---------------------------- MODULE MainLoopProofs ----------------------------
(***************************************************************************)
(* Theorems about MainLoop, for every number of devices and registers and  *)
(* every length of the blink.                                              *)
(***************************************************************************)
EXTENDS MainLoop, TLAPS

(* Where the loop is between two registers or at one: a device is at hand. *)
inSend == \/ pc \in {"send", "register"}
          \/ pc \in {"wifi", "mqtt"} /\ ret = "register"

DeviceAtHand == inSend => todo # <<>>

(* A poll is followed by MQTTClient.loop() before the loop does anything   *)
(* but send the values of that device.                                     *)
ServicedElsewhere ==
  pc \in {"status", "sendStatus", "short", "long", "device", "loop"} => unserviced = 0

(* A poll after a restart request is followed by the wifi_loop() that      *)
(* restarts.                                                               *)
RestartAhead ==
  overdue # 0 => restart /\ overdue = 1 /\ pc \in {"send", "register", "wifi"}

Scheduling == DeviceAtHand /\ PollTickKept /\ MqttServiced /\ ServicedElsewhere /\ RestartAhead

Lights == BlueShowsDevices /\ YellowMeansSending

IInv == TypeOK /\ Scheduling /\ Lights

-------------------------------------------------------------------------------
(* What each LED operation does to the pins and the blink timer.           *)
LEMMA LedOperations ==
  ASSUME NEW l \in LedState
  PROVE  /\ yellowOn(l) \in LedState
         /\ yellowOn(l).yellow = HIGH
         /\ yellowOn(l).blue = l.blue
         /\ yellowOn(l).nightBlinkEnabled = l.nightBlinkEnabled
         /\ yellowOn(l).armed = l.armed
         /\ yellowOn(l).cnt = l.cnt
         /\ yellowOff(l) \in LedState
         /\ yellowOff(l).yellow = LOW
         /\ yellowOff(l).blue = l.blue
         /\ yellowOff(l).nightBlinkEnabled = l.nightBlinkEnabled
         /\ yellowOff(l).armed = l.armed
         /\ yellowOff(l).cnt = l.cnt
BY DEF LedState, yellowOn, yellowOff

(* A tick of the blink timer: a flash only with the counter back at 0.     *)
LEMMA BlinkTick ==
  ASSUME NEW l \in LedState
  PROVE  /\ blinkTimerCallback(l) \in LedState
         /\ blinkTimerCallback(l).yellow = l.yellow
         /\ blinkTimerCallback(l).nightBlinkEnabled = l.nightBlinkEnabled
         /\ blinkTimerCallback(l).armed = l.armed
         /\ blinkTimerCallback(l).blue = HIGH => blinkTimerCallback(l).cnt = 0
<1> USE BlinkPauseAssumption DEF LedState, LOW, HIGH
<1>1. CASE l.cnt < BlinkPause
  <2>1. l.cnt + 1 \in 0..BlinkPause
    BY <1>1
  <2>2. blinkTimerCallback(l) = [l EXCEPT !.cnt = l.cnt + 1, !.blue = LOW]
    BY <1>1 DEF blinkTimerCallback
  <2>3. LOW # HIGH
    OBVIOUS
  <2> QED
    BY <2>1, <2>2, <2>3
<1>2. CASE ~(l.cnt < BlinkPause)
  <2>1. 0 \in 0..BlinkPause
    OBVIOUS
  <2>2. blinkTimerCallback(l) = [l EXCEPT !.cnt = 0, !.blue = HIGH]
    BY <1>2 DEF blinkTimerCallback
  <2> QED
    BY <2>1, <2>2
<1> QED
  BY <1>1, <1>2

(* Showing online stops the blink and leaves the LED on; showing offline   *)
(* starts the blink with the LED off.                                      *)
LEMMA ShowStatus ==
  ASSUME led \in LedState, led.nightBlinkEnabled = led.armed
  PROVE  /\ ledOnline \in LedState
         /\ ledOnline.yellow = led.yellow
         /\ ledOnline.blue = HIGH
         /\ ledOnline.armed = FALSE
         /\ ledOnline.nightBlinkEnabled = FALSE
         /\ ledOffline \in LedState
         /\ ledOffline.yellow = led.yellow
         /\ ledOffline.blue = LOW
         /\ ledOffline.armed = TRUE
         /\ ledOffline.nightBlinkEnabled = TRUE
BY
   DEF LedState, ledOnline, ledOffline, greenOn, greenOff, disableNightblink,
       enableNightBlink

(* The LEDs as setup() leaves them.                                        *)
LEMMA AfterSetupLeds ==
  ASSUME NEW l \in AfterSetup
  PROVE  /\ l \in LedState
         /\ l.blue = LOW
         /\ l.armed = FALSE
         /\ l.nightBlinkEnabled = FALSE
<1> USE BlinkPauseAssumption DEF LedState, LOW, HIGH
<1>1. ledBegin \in LedState
  BY DEF ledBegin
<1>2. CASE l = ledBegin
  BY <1>1, <1>2 DEF ledBegin
<1>3. CASE l = yellowOn(ledBegin)
  BY <1>1, <1>3, LedOperations DEF ledBegin
<1> QED
  BY <1>2, <1>3 DEF AfterSetup

(* The memory as a restart initialises it.                                 *)
LEMMA FreshMemory ==
  /\ NothingDue \in [Timer -> BOOLEAN]
  /\ NothingOwed \in [PollTimer -> BOOLEAN]
  /\ Unreached \in [Device -> BOOLEAN]
  /\ <<>> \in Seq(Device)
BY DEF NothingDue, NothingOwed, Unreached

(* The initial state satisfies the invariant.                              *)
LEMMA InitInv == Init => IInv
<1> SUFFICES ASSUME Init PROVE IInv
  OBVIOUS
<1>1. TypeOK
  <2>1. led \in LedState
    BY AfterSetupLeds DEF Init
  <2>2. /\ timeout \in [Timer -> BOOLEAN] /\ owed \in [PollTimer -> BOOLEAN]
        /\ reachable \in [Device -> BOOLEAN] /\ todo \in Seq(Device)
    BY FreshMemory DEF Init
  <2>3. /\ pc = "wifi" /\ ret = "status" /\ burst = "none" /\ left \in Nat
        /\ restart = FALSE /\ wifi = "up" /\ shown = "none" /\ settled = FALSE
    BY DEF Init
  <2>4. unserviced \in 0..2 /\ overdue \in 0..2
    BY DEF Init
  <2> QED
    BY <2>1, <2>2, <2>3, <2>4 DEF TypeOK
<1>2. Scheduling
  BY
     DEF Init, Scheduling, DeviceAtHand, inSend, PollTickKept, MqttServiced,
         ServicedElsewhere, RestartAhead, NothingOwed
<1>3. Lights
  BY AfterSetupLeds DEF Init, Lights, BlueShowsDevices, YellowMeansSending
<1> QED
  BY <1>1, <1>2, <1>3 DEF IInv

(* Every step keeps the types.                                             *)
LEMMA TypeStep == IInv /\ [Next]_vars => TypeOK'
<1> SUFFICES ASSUME IInv, [Next]_vars PROVE TypeOK'
  OBVIOUS
<1> USE DevicesAssumption
<1>1. CASE Restart
  <2>1. led' \in LedState
    BY <1>1, AfterSetupLeds DEF Restart
  <2>2. /\ timeout' \in [Timer -> BOOLEAN] /\ owed' \in [PollTimer -> BOOLEAN]
        /\ reachable' \in [Device -> BOOLEAN] /\ todo' \in Seq(Device)
    BY <1>1, FreshMemory DEF Restart
  <2>3. /\ pc' = "wifi" /\ ret' = "status" /\ burst' = "none" /\ left' \in Nat
        /\ restart' = FALSE /\ wifi' = "up" /\ shown' = "none" /\ settled' = FALSE
    BY <1>1 DEF Restart
  <2>4. unserviced' \in 0..2 /\ overdue' \in 0..2
    BY <1>1 DEF Restart
  <2> QED
    BY <2>1, <2>2, <2>3, <2>4 DEF TypeOK
<1>2. CASE WifiLoop
  BY <1>2 DEF WifiLoop, history, IInv, TypeOK
<1>3. CASE MqttLoop
  BY <1>3 DEF MqttLoop, IInv, TypeOK
<1>4. CASE StatusDue
  BY <1>4, LedOperations DEF StatusDue, history, IInv, TypeOK
<1>5. CASE NoStatusDue
  BY <1>5 DEF NoStatusDue, history, IInv, TypeOK
<1>6. CASE StatusSent
  BY <1>6, LedOperations DEF StatusSent, IInv, TypeOK, resetTimeout
<1>7. CASE StartBurst("short", Power)
  BY <1>7 DEF StartBurst, IInv, TypeOK, resetTimeout, PollTimer
<1>8. CASE NoShortDue
  BY <1>8 DEF NoShortDue, history, IInv, TypeOK
<1>9. CASE StartBurst("long", Other)
  BY <1>9 DEF StartBurst, IInv, TypeOK, resetTimeout, PollTimer
<1>10. CASE NoLongDue
  BY <1>10 DEF NoLongDue, history, IInv, TypeOK, loopOthers
<1>11. ASSUME NEW answered \in BOOLEAN, PollDevice(answered) PROVE TypeOK'
  BY <1>11 DEF PollDevice, IInv, TypeOK
<1>12. CASE BeginSend
  BY <1>12, LedOperations
     DEF BeginSend, history, IInv, TypeOK, Scheduling, DeviceAtHand, inSend
<1>13. CASE SendRegister
  BY <1>13 DEF SendRegister, history, IInv, TypeOK, loopOthers
<1>14. CASE EndSend
  BY <1>14, LedOperations
     DEF EndSend, IInv, TypeOK, loopOthers, Scheduling, DeviceAtHand, inSend
<1>15. CASE EndShortBurst
  BY <1>15 DEF EndShortBurst, history, IInv, TypeOK, loopOthers
<1>16. CASE EndLongBurst
  BY <1>16, ShowStatus
     DEF EndLongBurst, IInv, TypeOK, loopOthers, Lights, BlueShowsDevices
<1>17. CASE LoopAgain
  BY <1>17 DEF LoopAgain, history, IInv, TypeOK, loopOthers
<1>18. ASSUME NEW t \in Timer, Tick(t) PROVE TypeOK'
  BY <1>18 DEF Tick, control, IInv, TypeOK
<1>19. CASE BlinkTimer
  BY <1>19, BlinkTick DEF BlinkTimer, control, history, IInv, TypeOK
<1>20. CASE onRestartRequest
  BY <1>20 DEF onRestartRequest, control, history, IInv, TypeOK
<1>21. CASE onWiFiConnect
  BY <1>21, LedOperations DEF onWiFiConnect, control, IInv, TypeOK
<1>22. CASE onWiFiDisconnect
  BY <1>22, LedOperations DEF onWiFiDisconnect, control, history, IInv, TypeOK
<1>23. CASE UNCHANGED vars
  BY <1>23 DEF vars, control, history, IInv, TypeOK
<1> QED
  BY <1>1, <1>2, <1>3, <1>4, <1>5, <1>6, <1>7, <1>8, <1>9, <1>10, <1>11, <1>12,
     <1>13, <1>14, <1>15, <1>16, <1>17, <1>18, <1>19, <1>20, <1>21, <1>22,
     <1>23
     DEF Next, Loop, Callback

(* Every step keeps the scheduling invariants.                             *)
LEMMA SchedulingStep == IInv /\ [Next]_vars => Scheduling'
<1> SUFFICES ASSUME IInv, [Next]_vars PROVE Scheduling'
  OBVIOUS
<1>1. CASE Restart
  BY <1>1
     DEF Restart, Scheduling, DeviceAtHand, inSend, PollTickKept, MqttServiced,
         ServicedElsewhere, RestartAhead, NothingOwed
<1>2. CASE WifiLoop
  BY <1>2
     DEF WifiLoop, history, IInv, Scheduling, DeviceAtHand, inSend,
         PollTickKept, MqttServiced, ServicedElsewhere, RestartAhead
<1>3. CASE MqttLoop
  BY <1>3
     DEF MqttLoop, IInv, TypeOK, Scheduling, DeviceAtHand, inSend, PollTickKept,
         MqttServiced, ServicedElsewhere, RestartAhead
<1>4. CASE StatusDue
  BY <1>4
     DEF StatusDue, history, IInv, Scheduling, DeviceAtHand, inSend,
         PollTickKept, MqttServiced, ServicedElsewhere, RestartAhead
<1>5. CASE NoStatusDue
  BY <1>5
     DEF NoStatusDue, history, IInv, Scheduling, DeviceAtHand, inSend,
         PollTickKept, MqttServiced, ServicedElsewhere, RestartAhead
<1>6. CASE StatusSent
  BY <1>6
     DEF StatusSent, IInv, resetTimeout, Scheduling, DeviceAtHand, inSend,
         PollTickKept, MqttServiced, ServicedElsewhere, RestartAhead, PollTimer
<1>7. CASE StartBurst("short", Power)
  BY <1>7
     DEF StartBurst, IInv, TypeOK, resetTimeout, Scheduling, DeviceAtHand,
         inSend, PollTickKept, MqttServiced, ServicedElsewhere, RestartAhead
<1>8. CASE NoShortDue
  BY <1>8
     DEF NoShortDue, history, IInv, Scheduling, DeviceAtHand, inSend,
         PollTickKept, MqttServiced, ServicedElsewhere, RestartAhead
<1>9. CASE StartBurst("long", Other)
  BY <1>9
     DEF StartBurst, IInv, TypeOK, resetTimeout, Scheduling, DeviceAtHand,
         inSend, PollTickKept, MqttServiced, ServicedElsewhere, RestartAhead
<1>10. CASE NoLongDue
  BY <1>10
     DEF NoLongDue, history, IInv, loopOthers, Scheduling, DeviceAtHand, inSend,
         PollTickKept, MqttServiced, ServicedElsewhere, RestartAhead
<1>11. ASSUME NEW answered \in BOOLEAN, PollDevice(answered) PROVE Scheduling'
  BY <1>11
     DEF PollDevice, IInv, Scheduling, DeviceAtHand, PollTickKept, MqttServiced,
         ServicedElsewhere, RestartAhead
<1>12. CASE BeginSend
  BY <1>12
     DEF BeginSend, history, IInv, Scheduling, DeviceAtHand, inSend,
         PollTickKept, MqttServiced, ServicedElsewhere, RestartAhead
<1>13. CASE SendRegister
  BY <1>13
     DEF SendRegister, history, IInv, loopOthers, Scheduling, DeviceAtHand,
         inSend, PollTickKept, MqttServiced, ServicedElsewhere, RestartAhead
<1>14. CASE EndSend
  BY <1>14
     DEF EndSend, IInv, loopOthers, Scheduling, DeviceAtHand, inSend,
         PollTickKept, MqttServiced, ServicedElsewhere, RestartAhead
<1>15. CASE EndShortBurst
  BY <1>15
     DEF EndShortBurst, history, IInv, loopOthers, Scheduling, DeviceAtHand,
         inSend, PollTickKept, MqttServiced, ServicedElsewhere, RestartAhead
<1>16. CASE EndLongBurst
  BY <1>16
     DEF EndLongBurst, IInv, loopOthers, Scheduling, DeviceAtHand, inSend,
         PollTickKept, MqttServiced, ServicedElsewhere, RestartAhead
<1>17. CASE LoopAgain
  BY <1>17
     DEF LoopAgain, history, IInv, loopOthers, Scheduling, DeviceAtHand, inSend,
         PollTickKept, MqttServiced, ServicedElsewhere, RestartAhead
<1>18. ASSUME NEW t \in Timer, Tick(t) PROVE Scheduling'
  BY <1>18
     DEF Tick, control, IInv, TypeOK, Scheduling, DeviceAtHand, inSend,
         PollTickKept, MqttServiced, ServicedElsewhere, RestartAhead
<1>19. CASE BlinkTimer
  BY <1>19
     DEF BlinkTimer, control, history, IInv, Scheduling, DeviceAtHand, inSend,
         PollTickKept, MqttServiced, ServicedElsewhere, RestartAhead
<1>20. CASE onRestartRequest
  BY <1>20
     DEF onRestartRequest, control, history, IInv, Scheduling, DeviceAtHand,
         inSend, PollTickKept, MqttServiced, ServicedElsewhere, RestartAhead
<1>21. CASE onWiFiConnect
  BY <1>21
     DEF onWiFiConnect, control, IInv, Scheduling, DeviceAtHand, inSend,
         PollTickKept, MqttServiced, ServicedElsewhere, RestartAhead
<1>22. CASE onWiFiDisconnect
  BY <1>22
     DEF onWiFiDisconnect, control, history, IInv, Scheduling, DeviceAtHand,
         inSend, PollTickKept, MqttServiced, ServicedElsewhere, RestartAhead
<1>23. CASE UNCHANGED vars
  BY <1>23
     DEF vars, control, history, IInv, Scheduling, DeviceAtHand, inSend,
         PollTickKept, MqttServiced, ServicedElsewhere, RestartAhead
<1> QED
  BY <1>1, <1>2, <1>3, <1>4, <1>5, <1>6, <1>7, <1>8, <1>9, <1>10, <1>11, <1>12,
     <1>13, <1>14, <1>15, <1>16, <1>17, <1>18, <1>19, <1>20, <1>21, <1>22,
     <1>23
     DEF Next, Loop, Callback

(* Every step keeps the invariants of the LEDs.                            *)
LEMMA LightsStep == IInv /\ [Next]_vars => Lights'
<1> SUFFICES ASSUME IInv, [Next]_vars PROVE Lights'
  OBVIOUS
<1>1. CASE Restart
  BY <1>1, AfterSetupLeds DEF Restart, Lights, BlueShowsDevices, YellowMeansSending
<1>2. CASE WifiLoop
  BY <1>2
     DEF WifiLoop, history, IInv, Lights, BlueShowsDevices, YellowMeansSending,
         sending
<1>3. CASE MqttLoop
  BY <1>3 DEF MqttLoop, IInv, Lights, BlueShowsDevices, YellowMeansSending, sending
<1>4. CASE StatusDue
  BY <1>4, LedOperations
     DEF StatusDue, history, IInv, TypeOK, Lights, BlueShowsDevices,
         YellowMeansSending, sending
<1>5. CASE NoStatusDue
  BY <1>5
     DEF NoStatusDue, history, IInv, Lights, BlueShowsDevices, YellowMeansSending,
         sending
<1>6. CASE StatusSent
  BY <1>6, LedOperations
     DEF StatusSent, IInv, TypeOK, Lights, BlueShowsDevices, YellowMeansSending,
         LOW, HIGH
<1>7. CASE StartBurst("short", Power)
  BY <1>7
     DEF StartBurst, IInv, Lights, BlueShowsDevices, YellowMeansSending, sending
<1>8. CASE NoShortDue
  BY <1>8
     DEF NoShortDue, history, IInv, Lights, BlueShowsDevices, YellowMeansSending,
         sending
<1>9. CASE StartBurst("long", Other)
  BY <1>9
     DEF StartBurst, IInv, Lights, BlueShowsDevices, YellowMeansSending, sending
<1>10. CASE NoLongDue
  BY <1>10
     DEF NoLongDue, history, IInv, Lights, BlueShowsDevices, YellowMeansSending,
         sending
<1>11. ASSUME NEW answered \in BOOLEAN, PollDevice(answered) PROVE Lights'
  BY <1>11
     DEF PollDevice, IInv, Lights, BlueShowsDevices, YellowMeansSending, sending
<1>12. CASE BeginSend
  BY <1>12, LedOperations
     DEF BeginSend, history, IInv, TypeOK, Lights, BlueShowsDevices,
         YellowMeansSending, sending
<1>13. CASE SendRegister
  BY <1>13
     DEF SendRegister, history, IInv, loopOthers, Lights, BlueShowsDevices,
         YellowMeansSending, sending
<1>14. CASE EndSend
  BY <1>14, LedOperations
     DEF EndSend, IInv, TypeOK, Lights, BlueShowsDevices, YellowMeansSending, LOW,
         HIGH
<1>15. CASE EndShortBurst
  BY <1>15
     DEF EndShortBurst, history, IInv, Lights, BlueShowsDevices,
         YellowMeansSending, sending
<1>16. CASE EndLongBurst
  <2>1. CASE allReachable
    <3>0. led \in LedState /\ led.nightBlinkEnabled = led.armed
      BY DEF IInv, TypeOK, Lights, BlueShowsDevices
    <3>1. led' = ledOnline /\ shown' = "online"
      BY <1>16, <2>1 DEF EndLongBurst, allReachable
    <3>2. BlueShowsDevices'
      <4>1. /\ led'.armed = FALSE /\ led'.nightBlinkEnabled = FALSE
            /\ led'.blue = HIGH
        BY <3>0, <3>1, ShowStatus
      <4>2. LOW # HIGH
        BY DEF LOW, HIGH
      <4> QED
        BY <3>1, <4>1, <4>2 DEF BlueShowsDevices
    <3>3. YellowMeansSending'
      BY <1>16, <3>0, <3>1, ShowStatus
         DEF EndLongBurst, IInv, Lights, YellowMeansSending, sending
    <3> QED
      BY <3>2, <3>3 DEF Lights
  <2>2. CASE ~allReachable
    <3>0. led \in LedState /\ led.nightBlinkEnabled = led.armed
      BY DEF IInv, TypeOK, Lights, BlueShowsDevices
    <3>1. led' = ledOffline /\ shown' = "offline"
      BY <1>16, <2>2 DEF EndLongBurst, allReachable
    <3>2. BlueShowsDevices'
      <4>1. /\ led'.armed = TRUE /\ led'.nightBlinkEnabled = TRUE
            /\ led'.blue = LOW
        BY <3>0, <3>1, ShowStatus
      <4>2. LOW # HIGH
        BY DEF LOW, HIGH
      <4> QED
        BY <3>1, <4>1, <4>2 DEF BlueShowsDevices
    <3>3. YellowMeansSending'
      BY <1>16, <3>0, <3>1, ShowStatus
         DEF EndLongBurst, IInv, Lights, YellowMeansSending, sending
    <3> QED
      BY <3>2, <3>3 DEF Lights
  <2> QED
    BY <2>1, <2>2
<1>17. CASE LoopAgain
  BY <1>17
     DEF LoopAgain, history, IInv, Lights, BlueShowsDevices, YellowMeansSending,
         sending
<1>18. ASSUME NEW t \in Timer, Tick(t) PROVE Lights'
  BY <1>18
     DEF Tick, control, IInv, Lights, BlueShowsDevices, YellowMeansSending, sending
<1>19. CASE BlinkTimer
  BY <1>19, BlinkTick
     DEF BlinkTimer, control, history, IInv, TypeOK, Lights, BlueShowsDevices,
         YellowMeansSending, sending
<1>20. CASE onRestartRequest
  BY <1>20
     DEF onRestartRequest, control, history, IInv, Lights, BlueShowsDevices,
         YellowMeansSending, sending
<1>21. CASE onWiFiConnect
  BY <1>21, LedOperations
     DEF onWiFiConnect, IInv, TypeOK, Lights, BlueShowsDevices, YellowMeansSending,
         LOW, HIGH
<1>22. CASE onWiFiDisconnect
  BY <1>22, LedOperations
     DEF onWiFiDisconnect, history, IInv, TypeOK, Lights, BlueShowsDevices,
         YellowMeansSending
<1>23. CASE UNCHANGED vars
  BY <1>23
     DEF vars, control, history, IInv, Lights, BlueShowsDevices,
         YellowMeansSending, sending
<1> QED
  BY <1>1, <1>2, <1>3, <1>4, <1>5, <1>6, <1>7, <1>8, <1>9, <1>10, <1>11, <1>12,
     <1>13, <1>14, <1>15, <1>16, <1>17, <1>18, <1>19, <1>20, <1>21, <1>22,
     <1>23
     DEF Next, Loop, Callback

(* Every step keeps the invariant.                                         *)
LEMMA StepInv == IInv /\ [Next]_vars => IInv'
BY TypeStep, SchedulingStep, LightsStep DEF IInv

(* The invariant holds in every state of every behaviour.                  *)
THEOREM Invariant == Spec => []IInv
BY InitInv, StepInv, PTL DEF Spec

(* Type correctness of the main loop.                                      *)
THEOREM TypeCorrect == Spec => []TypeOK
BY Invariant, PTL DEF IInv

(* No tick of a poll timer is lost.                                        *)
THEOREM NoPollTickLost == Spec => []PollTickKept
BY Invariant, PTL DEF IInv, Scheduling

(* At most one poll between two turns of the MQTT client.                  *)
THEOREM MqttIsServiced == Spec => []MqttServiced
BY Invariant, PTL DEF IInv, Scheduling

(* At most one poll between a restart request and the restart.             *)
THEOREM RestartInTime == Spec => []RestartIsPrompt
<1>1. IInv => RestartIsPrompt
  BY DEF IInv, Scheduling, RestartAhead, RestartIsPrompt
<1> QED
  BY <1>1, Invariant, PTL

(* MQTT and a restart are turned to between any two polls.                 *)
THEOREM ServedBetweenPolls == Spec => []ServicedBetweenPolls
BY MqttIsServiced, RestartInTime, PTL DEF ServicedBetweenPolls

(* The blue LED shows the last decision of showInverterStatus.             *)
THEOREM BlueLedFollowsDevices == Spec => []BlueShowsDevices
BY Invariant, PTL DEF IInv, Lights

(* The yellow LED is off between messages while WiFi is up.                *)
THEOREM YellowIsPaired == Spec => []YellowMeansSending
BY Invariant, PTL DEF IInv, Lights
===============================================================================
