---------------------------- MODULE MqttLinkProofs ----------------------------
(***************************************************************************)
(* Theorems about MqttLink, for every interval, wrap and join time.        *)
(***************************************************************************)
EXTENDS MqttLink, TLAPS

(* Only the client's socket carries packets, and it is the broker's        *)
(* session as long as it lives; none exists while one is being set up.     *)
SocketInStep ==
  /\ ~attached => wire = <<>>
  /\ attached => connected /\ session
  /\ pc \in {"setup", "connect", "off"} => ~attached /\ ~connected

(* What may be on the wire, and what the broker has made of the session    *)
(* once it is received, at each point of connect() and after it.           *)
WireInStep ==
  attached =>
    /\ pc = "subscribe" => Len(wire) = 0
    /\ pc = "announce" =>
         \/ Len(wire) = 0 /\ subscribed
         \/ Len(wire) = 1 /\ wire[1] = "subscribe"
    /\ pc \notin {"subscribe", "announce"} =>
         \/ Len(wire) = 0 /\ subscribed /\ retained = "online"
         \/ Len(wire) = 1 /\ wire[1] = "online" /\ subscribed
         \/ Len(wire) = 2 /\ wire[1] = "subscribe" /\ wire[2] = "online"

(* The two clocks of the firmware measure the time since the last failure  *)
(* to connect, or the last attempt to join, as long as it is no longer     *)
(* than their interval; after it, they may measure anything.               *)
MqttClock ==
  sinceFailure <= mqttTryReconnectInterval => Since(lastReconnectTry) = sinceFailure

WifiClock ==
  sinceJoin < wifiTryReconnectInterval => Since(prevReconnectTryTime) = sinceJoin

ClocksInStep == MqttClock /\ WifiClock

IInv == TypeOK /\ SocketInStep /\ WireInStep /\ NoOrphanOnline /\ ClocksInStep

-------------------------------------------------------------------------------
(* The wire may be empty, and the histories saturate at a number.           *)
LEMMA Zeros ==
  /\ <<>> \in Seq({"subscribe", "online"})
  /\ Long \in Nat /\ 0 \in 0..Long /\ Long \in 0..Long
  /\ 0 \in 0..(Wrap - 1) /\ 0 \in 0..SetupTries
  /\ 0 \in 0..JoinTime /\ 0 \in 0..StepTime
BY TimesAssumption DEF Long

(* The initial state satisfies the invariant.                              *)
LEMMA InitInv == Init => IInv
<1> SUFFICES ASSUME Init PROVE IInv
  OBVIOUS
<1>1. TypeOK
  BY Zeros DEF Init, TypeOK
<1>2. SocketInStep /\ WireInStep /\ NoOrphanOnline
  BY DEF Init, SocketInStep, WireInStep, NoOrphanOnline
<1>3. ClocksInStep
  BY TimesAssumption DEF Init, ClocksInStep, MqttClock, WifiClock, Long
<1> QED
  BY <1>1, <1>2, <1>3 DEF IInv

(* Every step keeps the types.                                             *)
LEMMA TypeStep == TypeOK /\ [Next]_vars => TypeOK'
<1> SUFFICES ASSUME TypeOK, [Next]_vars PROVE TypeOK'
  OBVIOUS
<1> USE TimesAssumption, Zeros
<1>1. CASE SetupWait /\ lag' = 0
  BY <1>1
     DEF SetupWait, TimePasses, times, client, broker, TypeOK, Later, triesLeft
<1>2. CASE SetupRestart /\ lag' = 0
  BY <1>2 DEF SetupRestart, Boot, broker, TypeOK
<1>3. CASE SetupDone /\ lag' = 0
  BY <1>3 DEF SetupDone, times, air, client, broker, elapsed, TypeOK
<1>4. CASE WifiRejoin /\ lag' = 0
  BY <1>4 DEF WifiRejoin, client, broker, TypeOK
<1>5. CASE WifiIdle /\ lag' = 0
  BY <1>5 DEF WifiIdle, times, air, client, broker, elapsed, TypeOK
<1>6. CASE MqttIdle /\ lag' = 0
  BY <1>6 DEF MqttIdle, times, air, client, broker, elapsed, TypeOK
<1>7. CASE MqttRetry /\ lag' = 0
  BY <1>7 DEF MqttRetry, times, air, client, broker, elapsed, TypeOK
<1>8. CASE ConnectOk /\ lag' = 0
  <2>1. retained' \in {"none", "online", "offline"}
    BY <1>8 DEF ConnectOk, BrokerAccepts, will, TypeOK
  <2>2. session' = TRUE /\ subscribed' = FALSE
    BY <1>8 DEF ConnectOk, BrokerAccepts
  <2> QED
    BY <1>8, <2>1, <2>2 DEF ConnectOk, times, air, elapsed, TypeOK
<1>9. CASE ConnectLost /\ lag' = 0
  BY <1>9 DEF ConnectLost, ConnectFailed, air, client, broker, TypeOK
<1>10. CASE ConnackLost /\ lag' = 0
  <2>1. retained' \in {"none", "online", "offline"}
    BY <1>10 DEF ConnackLost, BrokerAccepts, will, TypeOK
  <2>2. session' = TRUE /\ subscribed' = FALSE
    BY <1>10 DEF ConnackLost, BrokerAccepts
  <2> QED
  BY <1>10, <2>1, <2>2 DEF ConnackLost, ConnectFailed, client, air, TypeOK
<1>11. CASE Subscribe /\ lag' = 0
  BY <1>11 DEF Subscribe, Write, times, air, broker, elapsed, TypeOK
<1>12. CASE Announce /\ lag' = 0
  BY <1>12 DEF Announce, Write, times, air, broker, elapsed, TypeOK
<1>13. CASE Tick
  BY <1>13 DEF Tick, TimePasses, times, client, broker, TypeOK, Later
<1>14. CASE Joined
  BY <1>14 DEF Joined, times, client, broker, elapsed, firmware, TypeOK
<1>15. CASE WifiLost
  BY <1>15 DEF WifiLost, times, broker, elapsed, firmware, TypeOK
<1>16. CASE SocketLost
  BY <1>16 DEF SocketLost, times, air, broker, elapsed, firmware, TypeOK
<1>17. CASE ClientNotices
  BY <1>17 DEF ClientNotices, times, air, broker, elapsed, firmware, TypeOK
<1>18. CASE BrokerNotices
  BY <1>18
     DEF BrokerNotices, will, times, air, client, elapsed, firmware, TypeOK
<1>19. CASE BrokerReceives
  BY <1>19 DEF BrokerReceives, times, air, elapsed, firmware, TypeOK
<1>20. CASE Crash
  BY <1>20 DEF Crash, Boot, broker, TypeOK
<1>21. CASE Unplug
  BY <1>21 DEF Unplug, times, broker, elapsed, TypeOK
<1>22. CASE CalmsDown
  BY <1>22 DEF CalmsDown, times, air, client, broker, elapsed, firmware, TypeOK
<1>23. CASE UNCHANGED vars
  BY <1>23 DEF vars, times, air, client, broker, elapsed, firmware, TypeOK
<1> QED
  BY <1>1, <1>2, <1>3, <1>4, <1>5, <1>6, <1>7, <1>8, <1>9, <1>10, <1>11, <1>12,
     <1>13, <1>14, <1>15, <1>16, <1>17, <1>18, <1>19, <1>20, <1>21, <1>22,
     <1>23
     DEF Next, Firmware, Environment

(* Every step keeps the socket and the session in step.                    *)
LEMMA SocketStep == IInv /\ [Next]_vars => SocketInStep'
<1> SUFFICES ASSUME IInv, [Next]_vars PROVE SocketInStep'
  OBVIOUS
<1>1. CASE SetupWait /\ lag' = 0
  BY <1>1 DEF SetupWait, client, IInv, SocketInStep
<1>2. CASE SetupRestart /\ lag' = 0
  BY <1>2 DEF SetupRestart, Boot, SocketInStep
<1>3. CASE SetupDone /\ lag' = 0
  BY <1>3 DEF SetupDone, client, IInv, SocketInStep
<1>4. CASE WifiRejoin /\ lag' = 0
  BY <1>4 DEF WifiRejoin, client, broker, IInv, SocketInStep
<1>5. CASE WifiIdle /\ lag' = 0
  BY <1>5 DEF WifiIdle, client, broker, IInv, SocketInStep
<1>6. CASE MqttIdle /\ lag' = 0
  BY <1>6 DEF MqttIdle, client, broker, IInv, SocketInStep
<1>7. CASE MqttRetry /\ lag' = 0
  BY <1>7 DEF MqttRetry, client, IInv, SocketInStep
<1>8. CASE ConnectOk /\ lag' = 0
  BY <1>8 DEF ConnectOk, BrokerAccepts, SocketInStep
<1>9. CASE ConnectLost /\ lag' = 0
  BY <1>9 DEF ConnectLost, ConnectFailed, client, IInv, SocketInStep
<1>10. CASE ConnackLost /\ lag' = 0
  BY <1>10 DEF ConnackLost, ConnectFailed, client, IInv, SocketInStep
<1>11. CASE Subscribe /\ lag' = 0
  BY <1>11 DEF Subscribe, Write, broker, IInv, SocketInStep
<1>12. CASE Announce /\ lag' = 0
  BY <1>12 DEF Announce, Write, broker, IInv, SocketInStep
<1>13. CASE Tick
  BY <1>13 DEF Tick, client, broker, IInv, SocketInStep
<1>14. CASE Joined
  BY <1>14 DEF Joined, client, broker, firmware, IInv, SocketInStep
<1>15. CASE WifiLost
  BY <1>15 DEF WifiLost, firmware, IInv, SocketInStep
<1>16. CASE SocketLost
  BY <1>16 DEF SocketLost, firmware, IInv, SocketInStep
<1>17. CASE ClientNotices
  BY <1>17 DEF ClientNotices, IInv, SocketInStep
<1>18. CASE BrokerNotices
  BY <1>18 DEF BrokerNotices, client, firmware, IInv, SocketInStep
<1>19. CASE BrokerReceives
  BY <1>19 DEF BrokerReceives, firmware, IInv, SocketInStep
<1>20. CASE Crash
  BY <1>20 DEF Crash, Boot, SocketInStep
<1>21. CASE Unplug
  BY <1>21 DEF Unplug, SocketInStep
<1>22. CASE CalmsDown
  BY <1>22 DEF CalmsDown, client, broker, firmware, IInv, SocketInStep
<1>23. CASE UNCHANGED vars
  BY <1>23 DEF vars, client, broker, firmware, IInv, SocketInStep
<1> QED
  BY <1>1, <1>2, <1>3, <1>4, <1>5, <1>6, <1>7, <1>8, <1>9, <1>10, <1>11, <1>12,
     <1>13, <1>14, <1>15, <1>16, <1>17, <1>18, <1>19, <1>20, <1>21, <1>22,
     <1>23
     DEF Next, Firmware, Environment

(* Every step keeps the wire in step with connect().                       *)
LEMMA WireStep == IInv /\ [Next]_vars => WireInStep'
<1> SUFFICES ASSUME IInv, [Next]_vars PROVE WireInStep'
  OBVIOUS
<1>1. CASE SetupWait /\ lag' = 0
  BY <1>1 DEF SetupWait, client, broker, IInv, WireInStep
<1>2. CASE SetupRestart /\ lag' = 0
  BY <1>2 DEF SetupRestart, Boot, WireInStep
<1>3. CASE SetupDone /\ lag' = 0
  BY <1>3 DEF SetupDone, client, broker, IInv, WireInStep
<1>4. CASE WifiRejoin /\ lag' = 0
  BY <1>4 DEF WifiRejoin, client, broker, IInv, WireInStep
<1>5. CASE WifiIdle /\ lag' = 0
  BY <1>5 DEF WifiIdle, client, broker, IInv, WireInStep
<1>6. CASE MqttIdle /\ lag' = 0
  BY <1>6 DEF MqttIdle, client, broker, IInv, WireInStep
<1>7. CASE MqttRetry /\ lag' = 0
  BY <1>7 DEF MqttRetry, client, broker, IInv, WireInStep
<1>8. CASE ConnectOk /\ lag' = 0
  BY <1>8 DEF ConnectOk, WireInStep
<1>9. CASE ConnectLost /\ lag' = 0
  BY <1>9 DEF ConnectLost, ConnectFailed, client, broker, IInv, WireInStep
<1>10. CASE ConnackLost /\ lag' = 0
  BY <1>10
     DEF ConnackLost, ConnectFailed, client, IInv, SocketInStep, WireInStep
<1>11. CASE Subscribe /\ lag' = 0
  BY <1>11 DEF Subscribe, Write, IInv, SocketInStep, WireInStep
<1>12. CASE Announce /\ lag' = 0
  <2> SUFFICES ASSUME attached
               PROVE  WireInStep'
    BY <1>12 DEF Announce, WireInStep
  <2>1. wire' = Append(wire, "online") /\ pc' = "wifi" /\ UNCHANGED <<subscribed, attached>>
    BY <1>12 DEF Announce, Write, IInv, SocketInStep, broker
  <2>2. wire \in Seq({"subscribe", "online"})
    BY DEF IInv, TypeOK
  <2>3. \/ Len(wire) = 0 /\ subscribed
        \/ Len(wire) = 1 /\ wire[1] = "subscribe"
    BY <1>12 DEF Announce, IInv, WireInStep
  <2>4. Len(wire') = Len(wire) + 1 /\ wire'[Len(wire) + 1] = "online"
    BY <2>1, <2>2
  <2>5. Len(wire) = 1 => wire'[1] = wire[1]
    BY <2>1, <2>2
  <2> QED
    BY <2>1, <2>3, <2>4, <2>5 DEF WireInStep
<1>13. CASE Tick
  BY <1>13 DEF Tick, client, broker, IInv, WireInStep
<1>14. CASE Joined
  BY <1>14 DEF Joined, client, broker, firmware, IInv, WireInStep
<1>15. CASE WifiLost
  BY <1>15 DEF WifiLost, WireInStep
<1>16. CASE SocketLost
  BY <1>16 DEF SocketLost, WireInStep
<1>17. CASE ClientNotices
  BY <1>17 DEF ClientNotices, WireInStep
<1>18. CASE BrokerNotices
  BY <1>18 DEF BrokerNotices, client, WireInStep
<1>19. CASE BrokerReceives
  <2>1. /\ wire # <<>> /\ wire' = Tail(wire)
        /\ UNCHANGED <<pc, attached>>
    BY <1>19 DEF BrokerReceives, firmware
  <2>2. wire \in Seq({"subscribe", "online"})
    BY DEF IInv, TypeOK
  <2>3. attached /\ Len(wire) # 0
    BY <2>1, <2>2 DEF IInv, SocketInStep
  <2>4. /\ Len(wire') = Len(wire) - 1 /\ Head(wire) = wire[1]
        /\ Len(wire) = 2 => wire'[1] = wire[2]
    BY <2>1, <2>2, <2>3
  <2>5. /\ wire[1] = "subscribe" \/ subscribed => subscribed'
        /\ wire[1] = "online" => retained' = "online"
    BY <1>19, <2>4 DEF BrokerReceives
  <2>6. CASE pc = "announce"
    BY <2>1, <2>3, <2>4, <2>5, <2>6 DEF IInv, WireInStep
  <2>7. CASE pc \notin {"subscribe", "announce"}
    <3>1. CASE Len(wire) = 2 /\ wire[1] = "subscribe" /\ wire[2] = "online"
      <4>1. Len(wire') = 1 /\ wire'[1] = "online"
        BY <2>4, <3>1
      <4>2. subscribed'
        BY <2>5, <3>1
      <4> QED
        BY <2>1, <2>7, <4>1, <4>2 DEF WireInStep
    <3>2. CASE Len(wire) = 1 /\ wire[1] = "online" /\ subscribed
      BY <2>1, <2>4, <2>5, <2>7, <3>2 DEF WireInStep
    <3> QED
      BY <2>3, <2>7, <3>1, <3>2 DEF IInv, WireInStep
  <2> QED
    BY <2>3, <2>6, <2>7 DEF IInv, WireInStep
<1>20. CASE Crash
  BY <1>20 DEF Crash, Boot, WireInStep
<1>21. CASE Unplug
  BY <1>21 DEF Unplug, WireInStep
<1>22. CASE CalmsDown
  BY <1>22 DEF CalmsDown, client, broker, firmware, IInv, WireInStep
<1>23. CASE UNCHANGED vars
  BY <1>23 DEF vars, client, broker, firmware, IInv, WireInStep
<1> QED
  BY <1>1, <1>2, <1>3, <1>4, <1>5, <1>6, <1>7, <1>8, <1>9, <1>10, <1>11, <1>12,
     <1>13, <1>14, <1>15, <1>16, <1>17, <1>18, <1>19, <1>20, <1>21, <1>22,
     <1>23
     DEF Next, Firmware, Environment

(* No step leaves an online message without a session.                     *)
LEMMA OnlineStep == IInv /\ [Next]_vars => NoOrphanOnline'
<1> SUFFICES ASSUME IInv, [Next]_vars PROVE NoOrphanOnline'
  OBVIOUS
<1>1. CASE SetupWait /\ lag' = 0
  BY <1>1 DEF SetupWait, broker, IInv, NoOrphanOnline
<1>2. CASE SetupRestart /\ lag' = 0
  BY <1>2 DEF SetupRestart, broker, IInv, NoOrphanOnline
<1>3. CASE SetupDone /\ lag' = 0
  BY <1>3 DEF SetupDone, broker, IInv, NoOrphanOnline
<1>4. CASE WifiRejoin /\ lag' = 0
  BY <1>4 DEF WifiRejoin, broker, IInv, NoOrphanOnline
<1>5. CASE WifiIdle /\ lag' = 0
  BY <1>5 DEF WifiIdle, broker, IInv, NoOrphanOnline
<1>6. CASE MqttIdle /\ lag' = 0
  BY <1>6 DEF MqttIdle, broker, IInv, NoOrphanOnline
<1>7. CASE MqttRetry /\ lag' = 0
  BY <1>7 DEF MqttRetry, broker, IInv, NoOrphanOnline
<1>8. CASE ConnectOk /\ lag' = 0
  BY <1>8 DEF ConnectOk, BrokerAccepts, NoOrphanOnline
<1>9. CASE ConnectLost /\ lag' = 0
  BY <1>9 DEF ConnectLost, broker, IInv, NoOrphanOnline
<1>10. CASE ConnackLost /\ lag' = 0
  BY <1>10 DEF ConnackLost, BrokerAccepts, NoOrphanOnline
<1>11. CASE Subscribe /\ lag' = 0
  BY <1>11 DEF Subscribe, broker, IInv, NoOrphanOnline
<1>12. CASE Announce /\ lag' = 0
  BY <1>12 DEF Announce, broker, IInv, NoOrphanOnline
<1>13. CASE Tick
  BY <1>13 DEF Tick, broker, IInv, NoOrphanOnline
<1>14. CASE Joined
  BY <1>14 DEF Joined, broker, IInv, NoOrphanOnline
<1>15. CASE WifiLost
  BY <1>15 DEF WifiLost, broker, IInv, NoOrphanOnline
<1>16. CASE SocketLost
  BY <1>16 DEF SocketLost, broker, IInv, NoOrphanOnline
<1>17. CASE ClientNotices
  BY <1>17 DEF ClientNotices, broker, IInv, NoOrphanOnline
<1>18. CASE BrokerNotices
  BY <1>18 DEF BrokerNotices, will, NoOrphanOnline
<1>19. CASE BrokerReceives
  BY <1>19 DEF BrokerReceives, IInv, SocketInStep, NoOrphanOnline
<1>20. CASE Crash
  BY <1>20 DEF Crash, broker, IInv, NoOrphanOnline
<1>21. CASE Unplug
  BY <1>21 DEF Unplug, broker, IInv, NoOrphanOnline
<1>22. CASE CalmsDown
  BY <1>22 DEF CalmsDown, broker, IInv, NoOrphanOnline
<1>23. CASE UNCHANGED vars
  BY <1>23 DEF vars, broker, IInv, NoOrphanOnline
<1> QED
  BY <1>1, <1>2, <1>3, <1>4, <1>5, <1>6, <1>7, <1>8, <1>9, <1>10, <1>11, <1>12,
     <1>13, <1>14, <1>15, <1>16, <1>17, <1>18, <1>19, <1>20, <1>21, <1>22,
     <1>23
     DEF Next, Firmware, Environment

-------------------------------------------------------------------------------
(* The time between two readings of millis(), without the modulus.         *)
LEMMA SinceUnfolded ==
  ASSUME NEW n \in 0..(Wrap - 1), NEW t \in 0..(Wrap - 1)
  PROVE  (n - t) % Wrap = IF n >= t THEN n - t ELSE n - t + Wrap
<1>1. Wrap \in Nat \ {0}
  BY TimesAssumption
<1>2. CASE n >= t
  BY <1>1, <1>2, SMT
<1>3. CASE n < t
  BY <1>1, <1>3, SMT
<1> QED
  BY <1>2, <1>3

(* The next reading of millis(), without the modulus.                      *)
LEMMA TickUnfolded ==
  ASSUME NEW n \in 0..(Wrap - 1)
  PROVE  (n + 1) % Wrap = IF n = Wrap - 1 THEN 0 ELSE n + 1
<1>1. Wrap \in Nat \ {0}
  BY TimesAssumption
<1> QED
  BY <1>1, SMT

(* A clock that measures an age still does a tick later, below the wrap.   *)
LEMMA ClockTicks ==
  ASSUME NEW n \in 0..(Wrap - 1), NEW t \in 0..(Wrap - 1), NEW age \in Nat,
         (n - t) % Wrap = age, age + 1 < Wrap
  PROVE  (((n + 1) % Wrap) - t) % Wrap = age + 1
<1> DEFINE m == (n + 1) % Wrap
<1>1. Wrap \in Nat \ {0}
  BY TimesAssumption
<1>2. m = IF n = Wrap - 1 THEN 0 ELSE n + 1
  BY TickUnfolded
<1>3. m \in 0..(Wrap - 1)
  BY <1>1, <1>2
<1>4. age = IF n >= t THEN n - t ELSE n - t + Wrap
  BY SinceUnfolded
<1>5. (m - t) % Wrap = IF m >= t THEN m - t ELSE m - t + Wrap
  BY <1>3, SinceUnfolded
<1> HIDE DEF m
<1>6. (m - t) % Wrap = age + 1
  BY <1>1, <1>2, <1>4, <1>5
<1> QED
  BY <1>6 DEF m

(* A time kept now is no time ago.                                         *)
LEMMA NoTimeAgo == ASSUME NEW n \in 0..(Wrap - 1) PROVE (n - n) % Wrap = 0
<1>1. Wrap \in Nat \ {0}
  BY TimesAssumption
<1> QED
  BY <1>1, SinceUnfolded

(* After a start nothing has been tried for longer than both intervals.    *)
LEMMA BootClocks == TypeOK /\ Boot => ClocksInStep'
BY TimesAssumption DEF Boot, ClocksInStep, MqttClock, WifiClock, Long, TypeOK

(* A tick makes every age and every clock one more.                        *)
LEMMA TickClocks == TypeOK /\ ClocksInStep /\ TimePasses /\ UNCHANGED times => ClocksInStep'
<1> SUFFICES ASSUME TypeOK, ClocksInStep, TimePasses, UNCHANGED times
             PROVE  ClocksInStep'
  OBVIOUS
<1>1. /\ now \in 0..(Wrap - 1) /\ now' = (now + 1) % Wrap
      /\ lastReconnectTry \in 0..(Wrap - 1) /\ lastReconnectTry' = lastReconnectTry
      /\ prevReconnectTryTime \in 0..(Wrap - 1)
      /\ prevReconnectTryTime' = prevReconnectTryTime
      /\ sinceFailure \in 0..Long /\ sinceJoin \in 0..Long
  BY DEF TypeOK, TimePasses, times
<1>2. /\ sinceFailure' = IF sinceFailure < Long THEN sinceFailure + 1 ELSE sinceFailure
      /\ sinceJoin' = IF sinceJoin < Long THEN sinceJoin + 1 ELSE sinceJoin
  BY DEF TimePasses, Later
<1>3. /\ Long \in Nat /\ mqttTryReconnectInterval < Long
      /\ wifiTryReconnectInterval < Long
  BY TimesAssumption DEF Long
<1>4. MqttClock'
  <2> SUFFICES ASSUME sinceFailure' <= mqttTryReconnectInterval
               PROVE  Since(lastReconnectTry)' = sinceFailure'
    BY DEF MqttClock
  <2>1. sinceFailure' = sinceFailure + 1 /\ sinceFailure \in Nat
    BY <1>1, <1>2, <1>3, TimesAssumption
  <2>2. (now - lastReconnectTry) % Wrap = sinceFailure
    BY <1>1, <2>1, TimesAssumption DEF ClocksInStep, MqttClock, Since
  <2>3. sinceFailure + 1 < Wrap
    BY <2>1, TimesAssumption
  <2>4. (((now + 1) % Wrap) - lastReconnectTry) % Wrap = sinceFailure + 1
    BY <1>1, <2>1, <2>2, <2>3, ClockTicks
  <2> QED
    BY <1>1, <2>1, <2>4 DEF Since
<1>5. WifiClock'
  <2> SUFFICES ASSUME sinceJoin' < wifiTryReconnectInterval
               PROVE  Since(prevReconnectTryTime)' = sinceJoin'
    BY DEF WifiClock
  <2>1. sinceJoin' = sinceJoin + 1 /\ sinceJoin \in Nat
    BY <1>1, <1>2, <1>3, TimesAssumption
  <2>2. (now - prevReconnectTryTime) % Wrap = sinceJoin
    BY <1>1, <2>1, TimesAssumption DEF ClocksInStep, WifiClock, Since
  <2>3. sinceJoin + 1 < Wrap
    BY <2>1, TimesAssumption
  <2>4. (((now + 1) % Wrap) - prevReconnectTryTime) % Wrap = sinceJoin + 1
    BY <1>1, <2>1, <2>2, <2>3, ClockTicks
  <2> QED
    BY <1>1, <2>1, <2>4 DEF Since
<1> QED
  BY <1>4, <1>5 DEF ClocksInStep

(* A step that leaves the times alone leaves the clocks in step.           *)
LEMMA ClocksUntouched ==
  ClocksInStep /\ UNCHANGED <<now, times, elapsed>> => ClocksInStep'
BY DEF ClocksInStep, MqttClock, WifiClock, Since, times, elapsed

(* A failed connect starts the clock of the client.                        *)
LEMMA FailureStartsClock == TypeOK /\ ClocksInStep /\ ConnectFailed => ClocksInStep'
<1> SUFFICES ASSUME TypeOK, ClocksInStep, ConnectFailed PROVE ClocksInStep'
  OBVIOUS
<1>1. (now - now) % Wrap = 0
  BY NoTimeAgo DEF TypeOK
<1>2. MqttClock'
  BY <1>1 DEF ConnectFailed, MqttClock, Since
<1>3. WifiClock'
  BY DEF ConnectFailed, ClocksInStep, WifiClock, Since
<1> QED
  BY <1>2, <1>3 DEF ClocksInStep

(* An attempt to join starts the clock of the station.                     *)
LEMMA RejoinStartsClock == TypeOK /\ ClocksInStep /\ WifiRejoin => ClocksInStep'
<1> SUFFICES ASSUME TypeOK, ClocksInStep, WifiRejoin PROVE ClocksInStep'
  OBVIOUS
<1>1. (now - now) % Wrap = 0
  BY NoTimeAgo DEF TypeOK
<1>2. WifiClock'
  BY <1>1 DEF WifiRejoin, WifiClock, Since
<1>3. MqttClock'
  BY DEF WifiRejoin, ClocksInStep, MqttClock, Since
<1> QED
  BY <1>2, <1>3 DEF ClocksInStep

(* Every step keeps the clocks in step.                                    *)
LEMMA ClockStep == TypeOK /\ ClocksInStep /\ [Next]_vars => ClocksInStep'
<1> SUFFICES ASSUME TypeOK, ClocksInStep, [Next]_vars PROVE ClocksInStep'
  OBVIOUS
<1>1. CASE SetupWait \/ Tick
  BY <1>1, TickClocks DEF SetupWait, Tick
<1>2. CASE SetupRestart \/ Crash
  BY <1>2, BootClocks DEF SetupRestart, Crash
<1>3. CASE ConnectLost \/ ConnackLost
  BY <1>3, FailureStartsClock DEF ConnectLost, ConnackLost
<1>4. CASE WifiRejoin
  BY <1>4, RejoinStartsClock
<1>5. CASE SetupDone \/ WifiIdle \/ MqttIdle \/ MqttRetry
  BY <1>5, ClocksUntouched DEF SetupDone, WifiIdle, MqttIdle, MqttRetry
<1>6. CASE ConnectOk \/ Subscribe \/ Announce
  BY <1>6, ClocksUntouched DEF ConnectOk, Subscribe, Announce
<1>7. CASE Joined \/ WifiLost \/ SocketLost \/ ClientNotices
  BY <1>7, ClocksUntouched DEF Joined, WifiLost, SocketLost, ClientNotices
<1>8. CASE BrokerNotices \/ BrokerReceives \/ Unplug \/ CalmsDown
  BY <1>8, ClocksUntouched DEF BrokerNotices, BrokerReceives, Unplug, CalmsDown
<1>9. CASE UNCHANGED vars
  BY <1>9, ClocksUntouched DEF vars
<1> QED
  BY <1>1, <1>2, <1>3, <1>4, <1>5, <1>6, <1>7, <1>8, <1>9
     DEF Next, Firmware, Environment

-------------------------------------------------------------------------------
(* Every step keeps the invariant.                                         *)
LEMMA StepInv == IInv /\ [Next]_vars => IInv'
BY TypeStep, SocketStep, WireStep, OnlineStep, ClockStep DEF IInv

(* The invariant holds in every state of every behaviour.                  *)
THEOREM Invariant == Spec => []IInv
BY InitInv, StepInv, PTL DEF Spec

(* Type correctness of the links.                                          *)
THEOREM TypeCorrect == Spec => []TypeOK
BY Invariant, PTL DEF IInv

(* Every session that survives its set-up is subscribed and announced.     *)
THEOREM SessionIsComplete == Spec => []AnnouncedAndSubscribed
<1>1. IInv => AnnouncedAndSubscribed
  BY DEF IInv, SocketInStep, WireInStep, AnnouncedAndSubscribed
<1> QED
  BY <1>1, Invariant, PTL

(* The will replaces "online" whenever its session ends.                   *)
THEOREM OnlineHasASession == Spec => []NoOrphanOnline
BY Invariant, PTL DEF IInv

(* Attempts to connect and to join are spaced by their intervals, across   *)
(* every wrap of millis().                                                 *)
THEOREM RetriesAreSpaced == Spec => RetriesSpaced
<1>1. IInv /\ [Next]_vars =>
        [/\ MqttRetry => sinceFailure > mqttTryReconnectInterval
         /\ WifiRejoin => sinceJoin >= wifiTryReconnectInterval]_vars
  <2> SUFFICES ASSUME IInv
               PROVE  /\ MqttRetry => sinceFailure > mqttTryReconnectInterval
                      /\ WifiRejoin => sinceJoin >= wifiTryReconnectInterval
    OBVIOUS
  <2>1. /\ sinceFailure \in Int /\ sinceJoin \in Int
        /\ mqttTryReconnectInterval \in Int /\ wifiTryReconnectInterval \in Int
    BY Zeros, TimesAssumption DEF IInv, TypeOK
  <2>2. ASSUME MqttRetry PROVE sinceFailure > mqttTryReconnectInterval
    <3>1. Since(lastReconnectTry) > mqttTryReconnectInterval
      BY <2>2 DEF MqttRetry, mqttRetryDue
    <3> QED
      BY <2>1, <3>1 DEF IInv, ClocksInStep, MqttClock
  <2>3. ASSUME WifiRejoin PROVE sinceJoin >= wifiTryReconnectInterval
    <3>1. Since(prevReconnectTryTime) >= wifiTryReconnectInterval
      BY <2>3 DEF WifiRejoin, wifiRetryDue
    <3> QED
      BY <2>1, <3>1 DEF IInv, ClocksInStep, WifiClock
  <2> QED
    BY <2>2, <2>3
<1> QED
  BY <1>1, Invariant, PTL DEF Spec, RetriesSpaced
===============================================================================
